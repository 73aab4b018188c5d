CONSTANTS
    ChunkStream = {audio}
    Control = control
    Fourth = video
    Sids = {1}
    Types = {"data"}
    Lengths = {1, 3}
    Times = {0, 2}
    ControlLength = 2
    Sizes = {1, 2}
    DefaultSize = 2
    Mark = 4
    WireMod = 1000
    OutSize = 7
    InSize = 6
    MaxMessages = 3
    MaxControl = 0
    Careful = TRUE
    Orderly = TRUE
    SplitControl = FALSE
    Verdicts = {"continue"}
SPECIFICATION Spec
INVARIANT Aligned
CHECK_DEADLOCK FALSE
