CONSTANTS
    Parts = 2
    Settings <- LongGreeting
SPECIFICATION Spec
INVARIANT SuccessMeansShakeSent
