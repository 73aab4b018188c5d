SPECIFICATION Spec
CONSTANTS
    Conn = {"c"}
    InMax = 1
    OutMax = 2
    SndMax = 1
    MaxIn = 2
    MaxSends = 1
    MaxFaults = 5
    MaxLeaves = 1
INVARIANTS
    TypeOK
    ArmedForOutput
PROPERTIES
    FlushedBeforeClosed
    OutputFlows
    InputTaken
    AbortWhileReadingCloses
CHECK_DEADLOCK FALSE
