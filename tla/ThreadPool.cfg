SPECIFICATION FairSpec
CONSTANTS
    MaxThreads = 3
    MaxTasks = 3
    LatchCount = 2
INVARIANTS NoSleeperWhileQueued TasksInOrder
PROPERTIES CallsReturn
CHECK_DEADLOCK FALSE
