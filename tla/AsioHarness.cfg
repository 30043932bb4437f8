\* Sets with elements and without. With empty sets the harness waits for good.
CONSTANT NParties = 5
SPECIFICATION HarnessSpec
INVARIANTS NoContextAbandoned
PROPERTIES CoroutinesEnd ResultIsReported
CHECK_DEADLOCK FALSE
