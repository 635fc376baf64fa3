SPECIFICATION FairSpec
CONSTANTS
    MsgLen = 2
    Replies = {2, 3}
    MaxRecv = 2
    BufSize = 2
    TIMEOUT = 1
    MaxWrite = 5
    MaxTime = 5
    ITERS = 2
INVARIANT TesterTypeOK
INVARIANT LoopAliveWhenUsed
INVARIANT ReturnsWhatItTook
INVARIANT NoTimeoutWithMessage
PROPERTY LoopEnds
PROPERTY LifecycleCompletes
CHECK_DEADLOCK FALSE
