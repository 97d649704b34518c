SPECIFICATION FairSpec
CONSTANTS
    io1 = io1
    io2 = io2
    Base = base
    IoLoops <- TwoThreads
    MaxConns = 3
INVARIANTS NoDanglingChannel UpAndDown MapAndPool AssertionsHold
PROPERTIES ClosedIsDeleted DestructorReturns
CHECK_DEADLOCK FALSE
