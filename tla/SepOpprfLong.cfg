\* Vectors of two chunks and more.
CONSTANTS
    Cases <- Long
    Chunk = 8
SPECIFICATION Spec
INVARIANTS CorrectionIsMasked
CHECK_DEADLOCK FALSE
