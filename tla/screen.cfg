SPECIFICATION ScreenSpec
CONSTANTS
    Width = 2
    Height = 2
    Bytes = 24
    Modes <- MCModes
    Closed = Closed
    MaxFrames = 2
    Offsets = {0, 1, 5, 6, 10, 11, 16}
    Shades = {0, 7, 8, 131, 255}
    Screens = {"overview", "cpu", "fan"}
    Overview = "overview"
    Configs <- MCConfigs
    Invalid = Invalid
    MaxSeconds = 3
CHECK_DEADLOCK FALSE
INVARIANTS NextWriteIsVisible NoTornFrame PixelIsFaithful DrawnPageHasData
PROPERTIES PageKeepsItsTime PagesReturn
