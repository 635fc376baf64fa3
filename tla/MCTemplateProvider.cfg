CONSTANTS
    p1 = p1
    loop_ = loop_
    o1 = o1
    good = good
    Unsolved = Unsolved
    Peers <- MCPeers
    Loop = loop_
    Callers <- MCCallers
    Options = {o1}
    DefaultOptions = o1
    Solutions = {good}
    ValidSolutions <- MCValidSolutions
    Thresholds = {1}
    MaxHeight = 2
    MaxFees = 1
    MaxTemplates = 3
    Version = 2
    fee_delta = 1
    MaxQueue = 3
    MaxId = 4
    MaxSubmit = 1
    MaxReplies = 1
    Subsidy = 1
SPECIFICATION ProviderSpec
CHECK_DEADLOCK FALSE
INVARIANT ProviderTypeOK
INVARIANT PairsInOrder
INVARIANT TipChangeReachesEveryPeer
INVARIANT SubmittableIsCurrent
PROPERTY CallsAnswer
PROPERTY FirstTemplateArrives
