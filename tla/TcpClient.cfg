SPECIFICATION FairSpec
CONSTANTS
    MaxConns = 2
    MaxCalls = 3
INVARIANTS AttemptsAccounted AssertionsHold
PROPERTIES StillTrying
CHECK_DEADLOCK FALSE
