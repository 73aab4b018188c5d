SPECIFICATION Spec
CONSTANTS
    Apps = {"live"}
    Names = {"live", "vod"}
    MaxStreams = 5
    Room = 3
    Window = 2
    Settings <- AllSettings
    Ahead = 1
    MaxCalls = 4
    MaxAstray = 1
    MaxLimits = 1
    MaxFaults = 1
    MaxFull = 1
INVARIANTS
    TypeOK
    AcceptedFirst
    IdsAgree
    WindowsAgree
PROPERTY CallsAnswered
CHECK_DEADLOCK FALSE
