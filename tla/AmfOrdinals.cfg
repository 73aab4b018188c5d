\* amf_push_assoc_end while an ordinal name waits for its value.
CONSTANTS
    Plain = {"null"}
    Lengths = {1}
    Counts = {1}
    Names = {"k"}
    MaxNodes = 3
    MaxDepth = 1
SPECIFICATION Spec
CHECK_DEADLOCK FALSE
PROPERTY GivenNeverTaken
