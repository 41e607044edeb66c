SPECIFICATION FairSpec
CONSTANTS
    Workers = {w1}
    Kids = {k1, k2, k3}
    NoKid = NoKid
    MaxReq = 2
    MaxResp = 2
    Cap = 1
    MaxFds = 9
    LowFree = 0
    NTries = 1
    ReadFails = {"more"}
    ReadsToEOF = TRUE
    DiskFills = TRUE
    ForkFails = FALSE
INVARIANTS ReaderSeesEOF OwnChildReaped NoStandstill
PROPERTY CallReturns
