SPECIFICATION MCFairSpec
CONSTANTS
    ConnectionTimeout = 2
    MaxLate = 0
    RtcAccepts = TRUE
    OneSec = 1
    WifiTimeout = 10
    ErrorSleep = 1
    SyncPeriod = 1
    MaxError = 1
    MaxFaults = 1
    OfflineCap = 0
PROPERTY NotBlockedOffline
CHECK_DEADLOCK FALSE
