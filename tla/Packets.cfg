SPECIFICATION PacketsSpec
CONSTANTS
    RecvTimes = 3
    HbDelay = 12
    HbTimeout = 2
    RetryLimit = 256
    PollSecs = 1
    Losable = {"startM", "startB", "logoff", "respId", "respMd5", "identity", "md5", "success", "failure", "startAlive", "alive", "miscInfo", "info", "hb1", "hb2", "hb3", "hb4", "beat", "beatAck"}
    MaxLosses = 2
    MaxDrops = 2
    MaxNights = 0
    MaxKills = 2
INVARIANT
    BeatsAreFresh
PROPERTY
    HangsOnlyUntimed
