CONSTANTS
    g = g
    a1 = a1
    b1 = b1
    Null = Null
    NoMax = NoMax
    Abort = Abort
    Blocks = {g, a1, b1}
    pprev <- ForkAtGenesis
    Requests <- MCRequests
SPECIFICATION Spec
INVARIANT TypeOK
INVARIANT FoundBlockIsSnapshot
INVARIANT AncestorByHashDescends
