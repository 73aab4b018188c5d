SPECIFICATION Spec
CONSTANTS
    Conn = {"c"}
    InMax = 1
    OutMax = 2
    SndMax = 1
    MaxIn = 1
    MaxSends = 0
    MaxFaults = 2
    MaxLeaves = 0
PROPERTY AbortCloses
CHECK_DEADLOCK FALSE
