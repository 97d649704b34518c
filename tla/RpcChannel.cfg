SPECIFICATION FairSpec
CONSTANTS
    MaxMessageLen = 4
    Threads = {loop, other}
    LoopThread = loop
    Args = {0, 1, 2}
    Known = {1, 2}
    MaxCalls = 2
INVARIANTS ResponsesMatch
PROPERTIES CallCompletes
CHECK_DEADLOCK FALSE
