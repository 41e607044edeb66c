SPECIFICATION Spec
CONSTANTS
    Inputs <- MCInputs
    MaxFile = 7
    MaxOther = 5
    MaxLine = 6
    Size = 4
    MaxTok = 2
    LineMax = 5
INVARIANTS TypeOK BoundDeclared PartExact EndKnown SeekRight
CHECK_DEADLOCK FALSE
