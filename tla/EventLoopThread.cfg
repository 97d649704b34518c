SPECIFICATION FairSpecThread
CONSTANTS
    Threads = {owner, t1, t2}
    Functors = {f1, f2, f3}
    EventfdMax = 1
    Owner = owner
INVARIANTS NoLostWakeup QuitFindsLoop
PROPERTIES IsMailbox QueuedFunctorRuns QuitStopsLoop StartReturns RunningLoopIsJoined
CHECK_DEADLOCK FALSE
