CONSTANTS
    s1 = s1
    s2 = s2
    t1 = t1
    t2 = t2
    t3 = t3
    t4 = t4
    dir = dir
    f1 = f1
    f2 = f2
    f3 = f3
    sub = sub
    Socks <- MCSocks
    Bytes = {0, 1}
    MaxFuel = 5
    MaxLen = 2
    Timeouts = {0, 1}
    MaxTime = 1
    SockaddrSize = 2
    NoErrno = NoErrno
    Compiled = {t1, t2, t3}
    Hidden = {t3}
    Names = {t1, t2, t4}
    NoName = NoName
    Placeholder = Placeholder
    Argvs <- MCArgvs
    EngineArgv <- MCEngineArgv
    Dirs <- MCDirs
    Regular = {f1, f2, f3}
    Size <- MCSize
    Null = Null
    Runners <- MCRunners
    MAGIC_STR = Placeholder
    Corpora = {t1, t3}
    Unset = Unset
    None = None
SYMMETRY Symmetry
SPECIFICATION BundleSpec
CHECK_DEADLOCK FALSE
INVARIANT BundleTypeOK
INVARIANT NoByteLostOrRepeated
INVARIANT EveryInputTestedOnce
INVARIANT OnlyTheNamedTargetRuns
PROPERTY TemporaryErrorsUseInput
INVARIANT MarkerMeansComplete
INVARIANT ConfiguredWithWhatExists
