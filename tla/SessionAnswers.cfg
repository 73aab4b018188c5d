SPECIFICATION Spec
CONSTANTS
    Apps = {"live"}
    Names = {"live"}
    MaxStreams = 5
    Room = 3
    Window = 2
    Settings <- AllSettings
    Ahead = 1
    MaxCalls = 3
    MaxAstray = 0
    MaxLimits = 0
    MaxFaults = 0
    MaxFull = 1
INVARIANT AnsweredOnce
CHECK_DEADLOCK FALSE
