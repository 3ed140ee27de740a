CONSTANTS
    FirstChar = 2
    LastChar = 3
    CharA = 2
    KeyboardSize = 2
    ByteSize = 3
    Int16Max = 4
    Schedules = 2
    Zones = 2
    BlindPages = FALSE
    ZonesLen <- MCZonesLen

SPECIFICATION Spec
INVARIANTS IndexFits NoLeftovers ShownIsCurrent SentIsChosen OnlyOvertakenSends
