SPECIFICATION FairSpec
CONSTANTS
    Workers = {w1}
    Kids = {k1}
    NoKid = NoKid
    MaxReq = 1
    MaxResp = 1
    Cap = 1
    MaxFds = 10
    LowFree = 0
    NTries = 8
    ReadFails = {"first"}
    ReadsToEOF = FALSE
    DiskFills = FALSE
    ForkFails = FALSE
PROPERTY CallReturns
