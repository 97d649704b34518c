SPECIFICATION FairSpec
CONSTANTS
    m1 = m1
    m2 = m2
    Threads = {t1}
    Messages = {m1, m2}
    Size <- MCSize
    HighWaterMark = 2
    MaxReads = 1
INVARIANTS BytesInOrder WarnedOncePerExcursion WritingIffBuffered CallbackProtocol AssertionsHold
PROPERTIES FinAfterData ConnectionProgresses
CHECK_DEADLOCK FALSE
