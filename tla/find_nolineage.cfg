SPECIFICATION Spec
CONSTANTS
    MaxTime = 3
    Sent <- MCSent
    MaxPrior = 1
    Skew = 1
    Written = {"frac", "fracZ", "Z"}
INVARIANT LineageAdded
CHECK_DEADLOCK FALSE
