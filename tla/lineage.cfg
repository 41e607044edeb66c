SPECIFICATION Spec
CONSTANTS
    MaxTime = 3
    Sent <- MCSent
    MaxPrior = 2
    Skew = 1
    Written = {"none", "frac", "fracZ", "Z"}
INVARIANTS TypeOK HistoryKept OwnReplaced RequestOnce ClosedRight
CHECK_DEADLOCK FALSE
