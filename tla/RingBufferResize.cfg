CONSTANTS
    Byte = {b0, b1}
    Junk = junk
    InitSize = 3
    MaxSize = 4
    MaxOp = 2
SPECIFICATION ApiSpec
PROPERTY ResizeTrimsOnlyTheStart
