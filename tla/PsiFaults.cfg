\* Three participants, the dealer in the middle, some of whose tasks throw.
SPECIFICATION Spec
CONSTANTS
    NParties = 3
    DealerIdx = 1
    Settings <- MCSettings
    Faults <- MCFaults
INVARIANTS
    ResultMeansComplete
    ResultOfAll
    NoFaultNoError
    TasksLeftOnlyByFailure
PROPERTIES
    EverybodyEnds
    RunEndsOrWaits
CHECK_DEADLOCK FALSE
