CONSTANTS
    Bytes <- MCBytes
    MaxName = 3
    MaxTyped = 4
SPECIFICATION PathSpec
INVARIANTS PathTypeOK StaysInPath EncodedIsFound UriIsRead
CHECK_DEADLOCK FALSE
