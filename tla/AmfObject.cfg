CONSTANTS
    Plain = {"integer"}
    Lengths = {70000}
    Counts = {0, 1}
    Names = {"k"}
    MaxNodes = 4
    MaxDepth = 2
SPECIFICATION Spec
CHECK_DEADLOCK FALSE
INVARIANTS
    TypeOK
    OnlyOrdinalsAreLeft
    RoundTrip
    ResumesBetweenMembers
PROPERTY GivenStays
