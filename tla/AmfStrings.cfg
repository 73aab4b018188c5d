\* Strings whose length has the highest bit of 16 set.
CONSTANTS
    Plain = {"null"}
    Lengths = {40000}
    Counts = {1}
    Names = {"k"}
    MaxNodes = 2
    MaxDepth = 1
SPECIFICATION Spec
CHECK_DEADLOCK FALSE
INVARIANT RoundTrip
