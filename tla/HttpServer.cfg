SPECIFICATION Spec
CONSTANTS
    Unwritten = Unwritten
    CheapPrepend = 2
    InitialSize = 6
    ExtraBuf = 4
    Requests <- SmallRequests
    MaxRequests = 3
INVARIANTS Answers BufferIsStream
CHECK_DEADLOCK FALSE
