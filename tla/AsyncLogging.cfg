SPECIFICATION FairSpec
CONSTANTS
    RollSize = 3
    FlushInterval = 0
    CheckTimeRoll = 1
    RollPerSeconds = 2
    BufferSize = 3
    MaxBuffers = 3
    MaxMsgs = 7
    MaxNow = 3
    None = None
INVARIANTS BuffersGoRound FilesRoll
PROPERTIES LogAdvances
CHECK_DEADLOCK FALSE
