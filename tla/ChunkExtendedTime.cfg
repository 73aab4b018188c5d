CONSTANTS
    ChunkStream = {audio}
    Control = control
    Fourth = video
    Sids = {1}
    Types = {"data"}
    Lengths = {3}
    Times = {4}
    ControlLength = 2
    Sizes = {1, 2}
    DefaultSize = 1
    Mark = 4
    WireMod = 64
    OutSize = 12
    InSize = 6
    MaxMessages = 1
    MaxControl = 0
    Careful = TRUE
    Orderly = TRUE
    SplitControl = FALSE
    Verdicts = {"continue"}
SPECIFICATION Spec
INVARIANT Aligned
CHECK_DEADLOCK FALSE
