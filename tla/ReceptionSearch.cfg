SPECIFICATION Spec
CONSTANTS
    Ids = {2, 7, 8}
    StaticSize = 5
    DynamicMax = 2
    Residue <- JunkEntries
    Sids = {0, 1}
    Lengths = {2, 4}
    ChunkSize = 2
    BufferSize = 2
    Hard = 4
    Soft = 2
    MaxMessages = 4
    Verdicts = {"continue"}
INVARIANT NoneRefused
CHECK_DEADLOCK FALSE
