\* Vectors of less than two chunks.
CONSTANTS
    Cases <- Short
    Chunk = 8
SPECIFICATION Spec
INVARIANTS Framing CorrectionIsMasked RightExactlyWhenFresh
PROPERTIES Termination ImplementsConversation
CHECK_DEADLOCK FALSE
