\* Five participants, the dealer in the middle, both programs.
CONSTANTS
    NParties = 5
    DealerIdx = 2
    Programs = {"sep", "mono"}
    BasePort <- Bases
SPECIFICATION Spec
INVARIANTS RightPeer ReadyMeansWired
PROPERTIES EverybodyConnects
