SPECIFICATION Spec
CONSTANTS
    m1 = m1
    m2 = m2
    Threads = {t1}
    Messages = {m1, m2}
    Size <- MCSize
    HighWaterMark = 2
    MaxReads = 1
INVARIANT DestroyedIsQuiet
CHECK_DEADLOCK FALSE
