CONSTANTS
    ChunkStream = {audio}
    Control = control
    Fourth = audio
    Sids = {1, 2}
    Types = {"audio"}
    Lengths = {1, 3}
    Times = {0, 1}
    ControlLength = 2
    Sizes = {1, 2}
    DefaultSize = 2
    Mark = 100
    WireMod = 1000
    OutSize = 7
    InSize = 6
    MaxMessages = 3
    MaxControl = 0
    Careful = TRUE
    Orderly = TRUE
    SplitControl = FALSE
    Verdicts = {"continue"}
SPECIFICATION Spec
INVARIANT MessagesArriveAsSent
CHECK_DEADLOCK FALSE
