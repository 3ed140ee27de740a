SPECIFICATION MCSpec
CONSTANTS
    ConnectionTimeout = 2
    MaxLate = 0
    RtcAccepts = TRUE
    OneSec = 1
    WifiTimeout = 5
    ErrorSleep = 5
    SyncPeriod = 2
    MaxError = 1
    MaxFaults = 3
    OfflineCap = 10
INVARIANTS RestartsClean LinkLossReported LedFollowsLink
PROPERTY ImplementsBootPhases
CHECK_DEADLOCK FALSE
