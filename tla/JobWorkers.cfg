SPECIFICATION Spec
CONSTANTS
    JobIds = {j1}
    Attempts = {a1, a2}
    Clients = {c1}
    NoJob = NoJob
    MaxRevision = 5
    Workers = {w1, w2}
    Supervisors = {s1, s2}
    Nobody = Nobody
    SupervisorLease = 2
    WorkerLeases = {1, 3}
    MaxTime = 4
    MaxGenerations = 3
SYMMETRY Symmetric
INVARIANTS
    TypeOK
    OneWorkerPerAttempt
    NoOrphanWorker
PROPERTIES
    CancelledStaysWithWorker
CHECK_DEADLOCK FALSE
