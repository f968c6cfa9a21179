SPECIFICATION ConsoleSpec
CONSTANTS
    RecvTimes = 3
    HbDelay = 4
    HbTimeout = 2
    RetryLimit = 256
    PollSecs = 1
    Losable = {"logoff"}
    MaxLosses = 1
    MaxDrops = 1
    MaxNights = 0
    MaxKills = 0
    MaxEvents = 2
INVARIANTS
    NoTimeToReturn
    ExitFreesPort
PROPERTY
    EndsOnEvent
