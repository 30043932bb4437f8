SPECIFICATION Spec
CONSTANT Cases <- AllOthers
INVARIANT RowsFromOwnOutputs
