\* A buffer that ends behind the name of a member.
CONSTANTS
    Plain = {"null"}
    Lengths = {1}
    Counts = {1}
    Names = {"k"}
    MaxNodes = 2
    MaxDepth = 1
SPECIFICATION Spec
CHECK_DEADLOCK FALSE
INVARIANT ResumesAnywhere
