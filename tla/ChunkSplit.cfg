CONSTANTS
    ChunkStream = {audio, video}
    Control = control
    Fourth = video
    Sids = {1}
    Types = {"data"}
    Lengths = {1, 3}
    Times = {0}
    ControlLength = 2
    Sizes = {1, 2}
    DefaultSize = 2
    Mark = 100
    WireMod = 1000
    OutSize = 9
    InSize = 6
    MaxMessages = 2
    MaxControl = 1
    Careful = TRUE
    Orderly = TRUE
    SplitControl = TRUE
    Verdicts = {"continue"}
SPECIFICATION Spec
INVARIANT Aligned
CHECK_DEADLOCK FALSE
