SPECIFICATION CampusSpec
CONSTANTS
    RecvTimes = 3
    HbDelay = 12
    HbTimeout = 2
    RetryLimit = 256
    PollSecs = 1
    Losable = {"startB", "logoff", "respId", "respMd5", "identity", "md5", "startAlive", "alive", "hb1", "hb2", "hb3", "hb4", "beat", "beatAck"}
    MaxLosses = 1
    MaxDrops = 2
    MaxNights = 2
    MaxKills = 2
INVARIANT
    OnlineIsTrue
    EndsOnlyWhenTold
    LeavesPortClosed
PROPERTY
    StaysAlive
