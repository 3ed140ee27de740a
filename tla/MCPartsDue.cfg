SPECIFICATION MCSpec
CONSTANTS
    Text = {chip}
    ChipSerial = chip
    Settings = {factory, home}
    DefaultSettings = factory
    Data = {none, garden}
    NoData = none
    NoCrc = NoCrc
    NoImage = NoImage
    MaxPieces = 2
    MaxCommands = 5
    LoadingTicks = 2
    WarningTicks = 2
    ErrorTicks = 1
    ReadyTicks = 3
    Schedules = 2
    Requests <- MCMondays
    Moments <- MCThursday
    Zones = 4
    ZoneIds <- MCZoneIds
    LcdWidth = 132
    Texts <- MCTexts
    Chars <- MCChars
    LineMax = 5
    TextMax = 6
    DebounceTime = 2
    LongClickTime = 5
    MaxHandling = 2
    Pages = 2
    Columns = 2
    SetTimes <- MCSetTimes
    MaxElapsed = 960
    Timezone = 1
INVARIANT DueWhenAsked
CHECK_DEADLOCK FALSE
