SPECIFICATION Spec
CONSTANT Cases <- ReceiverTight
INVARIANT RowsFromOwnOutputs
