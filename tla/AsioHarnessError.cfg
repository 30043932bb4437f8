\* Does the harness return, whatever the sets?
CONSTANT NParties = 5
SPECIFICATION HarnessSpec
PROPERTIES HarnessReturns
CHECK_DEADLOCK FALSE
