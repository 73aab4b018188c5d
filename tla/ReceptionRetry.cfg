SPECIFICATION Spec
CONSTANTS
    Ids = {2, 3, 7}
    StaticSize = 5
    DynamicMax = 2
    Residue <- JunkEntries
    Sids = {0, 1}
    Lengths = {2, 4}
    ChunkSize = 2
    BufferSize = 2
    Hard = 2
    Soft = 2
    MaxMessages = 4
    Verdicts = {"continue","error"}
INVARIANT HandedInOrder
CHECK_DEADLOCK FALSE
