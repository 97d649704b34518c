SPECIFICATION FairSpec
CONSTANTS
    Threads = {t1}
    Loop = loop
    Adders = {loop, t1}
    Cancellers = {loop, t1}
    Addresses = {1, 2}
    Intervals = {0, 1}
    MaxTimers = 2
    MaxTime = 2
    MaxCancels = 1
    MaxJumps = 1
INVARIANTS QueueConsistent TimerfdCovers CancelledStaysOut
PROPERTIES OnlyNamedTimersDie DueTimerRuns
CHECK_DEADLOCK FALSE
