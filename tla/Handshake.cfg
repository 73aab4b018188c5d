CONSTANTS
    Parts = 2
    Settings <- EndpointSettings
SPECIFICATION Spec
INVARIANTS
    TypeOK
    SuccessMeansShakeSent
    HonestNeverRejected
PROPERTIES
    NothingMisread
    BothConnect
    GreetingsArrive
