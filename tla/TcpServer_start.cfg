SPECIFICATION Spec
CONSTANTS
    io1 = io1
    io2 = io2
    Base = base
    IoLoops <- TwoThreads
    MaxConns = 1
INVARIANT StartIsThreadSafe
CHECK_DEADLOCK FALSE
