SPECIFICATION Spec
CONSTANTS
    Alphabet = {"x", "key", "cr", "lf"}
    HeadLen = 5
    LineMax = 5
    MaxIn = 6
    ReadFails = FALSE
INVARIANTS OversizeReported
CHECK_DEADLOCK FALSE
