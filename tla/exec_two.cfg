SPECIFICATION Spec
CONSTANTS
    Workers = {w1, w2}
    Kids = {k1, k2, k3}
    NoKid = NoKid
    MaxReq = 2
    MaxResp = 2
    Cap = 1
    MaxFds = 10
    LowFree = 3
    NTries = 1
    ReadFails = {"first"}
    ReadsToEOF = FALSE
    DiskFills = FALSE
    ForkFails = TRUE
SYMMETRY Symmetry
INVARIANTS TypeOK StreamContract NothingLeftOpen LeakBounded ReapBalance
PROPERTY Refinement
CHECK_DEADLOCK FALSE
