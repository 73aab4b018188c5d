CONSTANTS
    Byte = {b0, b1}
    Junk = junk
    InitSize = 3
    MaxSize = 5
    MaxOp = 3
SPECIFICATION Spec
INVARIANTS
    TypeOK
    IndexInv
    NoJunkInContent
PROPERTY ImplementsTxQueue
