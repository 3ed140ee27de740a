SPECIFICATION MCSpec
CONSTANTS
    ConnectionTimeout = 4
    DisconnectSleep = 2
    MaxLate = 1
    HasCertificates = TRUE
    OneSec = 2
    Blink = 1
    Full = 5
INVARIANTS WifiInv OneAttempt LockIsShown LightsUp
PROPERTIES AcceptedIsReported LockScreenLeaves MenuIsPainted
CHECK_DEADLOCK FALSE
