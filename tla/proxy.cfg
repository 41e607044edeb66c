SPECIFICATION FairSpec
CONSTANTS
    w1 = w1
    w2 = w2
    Workers = {w1, w2}
    Asked <- MCAsked
    MaxChunks = 3
    Confs <- MCConfs
    Field = 4
    FlagAt = 10
INVARIANTS TypeOK StreamsAccounted NullHasCause BodyWhole BodySent ConfiguredUsed FaultTold
PROPERTY EveryRequestReplied
CHECK_DEADLOCK FALSE
