\* SepPSI::run on every assignment, standaloneWithAsio on one.
SPECIFICATION Spec
CONSTANTS
    e1 = e1
    e2 = e2
    e3 = e3
    NParties = 3
    DealerIdx = 1
    Elem <- MCElem
    Cases <- MCCases
INVARIANTS
    TypeOK
    ResultIsIntersection
    SharesCancelExactly
    DriftIsBounded
    DealerReturnsLast
PROPERTIES
    PreparedBeforeUse
    NoTaskOutlivesItsFrame
    ImplementsIdeal
    ImplementsConversations
    ImplementsFaultless
    Termination
