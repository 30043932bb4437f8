\* The dealer is participant 0, as in MonoPSI::init.
CONSTANTS
    e1 = e1
    e2 = e2
    e3 = e3
    NParties = 3
    DealerIdx = 0
    Elem <- MCElem
    Inputs <- MCInputs
SPECIFICATION Spec
INVARIANTS
    RunReturnsIntersection
    NothingLeftBehind
PROPERTIES
    NoTaskOutlivesItsFrame
    ImplementsIdeal
    ImplementsFaultless
    RunEnds
