SPECIFICATION ConsoleSpec
CONSTANTS
    RecvTimes = 3
    HbDelay = 4
    HbTimeout = 2
    RetryLimit = 256
    PollSecs = 1
    Losable = {}
    MaxLosses = 0
    MaxDrops = 0
    MaxNights = 0
    MaxKills = 0
    MaxEvents = 1
INVARIANT
    LoggedOffIsOff
