SPECIFICATION JobsSpec
CONSTANTS
    JobIds = {j1, j2, j3}
    Attempts = {a1}
    Clients = {c1, c2}
    NoJob = NoJob
    MaxRevision = 4
SYMMETRY Symmetric
INVARIANTS
    JobsTypeOK
    DependenciesGate
    PendingIsBlocked
    RevisionMeansState
CHECK_DEADLOCK FALSE
