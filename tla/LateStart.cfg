SPECIFICATION CampusSpec
CONSTANTS
    RecvTimes = 3
    HbDelay = 12
    HbTimeout = 2
    RetryLimit = 256
    PollSecs = 1
    Losable = {"startM"}
    MaxLosses = 1
    MaxDrops = 2
    MaxNights = 2
    MaxKills = 0
PROPERTY
    LoginConcludes
