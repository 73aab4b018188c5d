SPECIFICATION Spec
CONSTANTS
    Conn = {"c"}
    InMax = 1
    OutMax = 2
    SndMax = 1
    MaxIn = 2
    MaxSends = 1
    MaxFaults = 3
    MaxLeaves = 0
PROPERTY OutputAlwaysFlows
CHECK_DEADLOCK FALSE
