SPECIFICATION FairSpec
CONSTANTS
    w1 = w1
    w2 = w2
    NoWorker = NoWorker
    Workers = {w1, w2}
    Founders = {w1}
    MaxEvents = 2
    MaxBatch = 2
    MaxCrashes = 1
INVARIANTS
    TypeOK
    AckedDurable
    SnapshotIsPast
    LogRebuildsState
PROPERTIES
    StreamRefinement
    CommitReturns
