SPECIFICATION Spec
CONSTANTS
    RecvTimes = 3
    HbDelay = 12
    HbTimeout = 2
    RetryLimit = 256
    PollSecs = 1
INVARIANTS
    TypeOK
    IdleMeansLoggedOff
    EndsInMain
    NoLeftovers
    OverdueIsNoticed
    UnreachableIsEarned
    StartsAlternate
    LogoffBeforeStart
PROPERTIES
    UdpOnlyOnline
    OneBeatAtATime
    KeepsPromise
