SPECIFICATION Spec
CONSTANTS
    w1 = w1
    w2 = w2
    NoWorker = NoWorker
    Workers = {w1, w2}
    Founders = {w1}
    MaxEvents = 1
    MaxBatch = 1
    MaxCrashes = 1
INVARIANTS
    RestartFinishesCommit
