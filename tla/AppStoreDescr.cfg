CONSTANTS
    Text = {chip}
    ChipSerial = chip
    Settings = {factory, home}
    DefaultSettings = factory
    Data = {none, garden}
    NoData = none
    NoCrc = NoCrc
    NoImage = NoImage
    MaxPieces = 2
    MaxCommands = 4
SPECIFICATION Spec
INVARIANT ConfigHalfSound
