SPECIFICATION Spec
CONSTANTS
    End = {client, server}
    client = client
    server = server
    Callers = {client, server}
    Names <- PlayNames
    StartsWith <- PlayPrefix
    Served = {"play"}
    Tidings <- AllTidings
    Room = 2
    Timeout = 1
    MaxClock = 1
    MaxCalls = 2
    MaxTold = 1
    MaxLate = 1
    MaxFaults = 1
    Verdicts = {"continue", "error", "pause", "abort"}
INVARIANT OwnReplyOnly
CHECK_DEADLOCK FALSE
