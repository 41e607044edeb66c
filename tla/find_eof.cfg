SPECIFICATION Spec
CONSTANTS
    Workers = {w1, w2}
    Kids = {k1, k2}
    NoKid = NoKid
    MaxReq = 1
    MaxResp = 1
    Cap = 1
    MaxFds = 10
    LowFree = 0
    NTries = 1
    ReadFails = {}
    ReadsToEOF = FALSE
    DiskFills = FALSE
    ForkFails = FALSE
INVARIANT ReaderSeesEOF
