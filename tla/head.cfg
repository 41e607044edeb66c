SPECIFICATION Spec
CONSTANTS
    Alphabet = {"x", "key", "cr", "lf", "nul"}
    HeadLen = 7
    LineMax = 5
    MaxIn = 6
    ReadFails = TRUE
INVARIANTS TypeOK HeadExact TypeFromHead
CHECK_DEADLOCK FALSE
