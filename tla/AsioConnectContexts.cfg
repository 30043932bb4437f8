\* Does MonoPSI get past its connections?  The dealer first, as in test_with_asio.
CONSTANTS
    NParties = 5
    DealerIdx = 0
    Programs = {"mono"}
    BasePort <- Bases
SPECIFICATION Spec
INVARIANTS ContextsExist
