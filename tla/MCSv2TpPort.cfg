CONSTANTS
    Unset_ = Unset_
    NoPort_ = NoPort_
    BadPort_ = BadPort_
    Unset <- Unset_
    NoPort <- NoPort_
    BadPort <- BadPort_
    PortArgs <- MCPortArgs
    BindArgs <- MCBindArgs
    FeeDeltaArgs <- MCFeeDeltaArgs
    IntervalArgs <- MCIntervalArgs
    DefaultPort = 8442
    DefaultFeeDelta = 1000
    DefaultInterval = 30
SPECIFICATION Spec
CHECK_DEADLOCK FALSE

INVARIANT ListensOnSv2Port

