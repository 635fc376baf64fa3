CONSTANTS
    c1 = c1
    c2 = c2
    t1 = t1
    NoMempool = NoMempool
    Clients = {c1, c2}
    Txs = {t1}
    MaxHeight = 2
    MaxQueue = 3
SPECIFICATION FairSpec
INVARIANT TypeOK
INVARIANT NothingPendingAfterWait
INVARIANT MempoolViewConverges
PROPERTY WaitReturns
