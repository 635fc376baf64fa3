CONSTANTS
    g = g
    a1 = a1
    a2 = a2
    b2 = b2
    t1 = t1
    t2 = t2
    Null = Null
    NoMax = NoMax
    Abort = Abort
    Blocks = {g, a1, a2, b2}
    pprev <- ForkAboveGenesis
    Requests = {}
    Txs = {t1, t2}
    Spends <- SpendsInARow
    Signal = {t1}
    m_opts <- Configured
    Default <- PolicyDefaults
    GetMinFee = 200
    Estimates <- EstimatesByTarget
    Connectable = {"NotifyBlockTip", "NotifyHeaderTip"}
SPECIFICATION Spec
CHECK_DEADLOCK FALSE
INVARIANT HasBlocksInRange
INVARIANT DescendantsAreSpenders
INVARIANT TipsShownAreCurrent
INVARIANT GettersAnswerWhileRunning
