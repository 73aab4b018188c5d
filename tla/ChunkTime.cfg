CONSTANTS
    ChunkStream = {audio}
    Control = control
    Fourth = video
    Sids = {1}
    Types = {"data"}
    Lengths = {1}
    Times = {0, 1, 2}
    ControlLength = 2
    Sizes = {1, 2}
    DefaultSize = 2
    Mark = 100
    WireMod = 1000
    OutSize = 9
    InSize = 6
    MaxMessages = 3
    MaxControl = 0
    Careful = TRUE
    Orderly = TRUE
    SplitControl = FALSE
    Verdicts = {"continue"}
SPECIFICATION Spec
INVARIANT TimesArrive
CHECK_DEADLOCK FALSE
