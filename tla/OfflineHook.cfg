SPECIFICATION Spec
CONSTANTS
    RecvTimes = 3
    HbDelay = 12
    HbTimeout = 2
    RetryLimit = 256
    PollSecs = 1
INVARIANT
    HookRunsWhenForcedOff
