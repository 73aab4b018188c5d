CONSTANTS
    ChunkStream = {audio}
    Control = control
    Fourth = video
    Sids = {1}
    Types = {"data"}
    Lengths = {3}
    Times = {0}
    ControlLength = 2
    Sizes = {1, 2}
    DefaultSize = 2
    Mark = 100
    WireMod = 1000
    OutSize = 9
    InSize = 6
    MaxMessages = 1
    MaxControl = 0
    Careful = TRUE
    Orderly = TRUE
    SplitControl = FALSE
    Verdicts = {"continue", "error", "pause"}
SPECIFICATION Spec
INVARIANT MessagesArriveAsSent
CHECK_DEADLOCK FALSE
