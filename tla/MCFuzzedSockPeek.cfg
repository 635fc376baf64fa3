CONSTANTS
    s1 = s1
    s2 = s2
    Socks <- MCSocks
    Bytes = {0, 1}
    MaxFuel = 5
    MaxLen = 2
    Timeouts = {0, 1}
    MaxTime = 2
    SockaddrSize = 2
    NoErrno = NoErrno
SYMMETRY Symmetry
SPECIFICATION Spec
CHECK_DEADLOCK FALSE
INVARIANT PeekedDataIsRemembered
