SPECIFICATION Spec
CONSTANT Requests <- MCRequests
INVARIANTS
    ExpectsCommonItems
    SameSizes
    NobodyIsRedundant
PROPERTIES
    SetsGetFull
