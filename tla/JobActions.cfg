SPECIFICATION Spec
CONSTANTS
    JobIds = {j1}
    Attempts = {a1}
    Clients = {c1}
    NoJob = NoJob
    MaxRevision = 4
    Supervisors = {s1, s2}
    Nobody = Nobody
    MaxActions = 3
    MaxGenerations = 3
    MaxRetries = 2
INVARIANTS
    TypeOK
    OneActiveAction
    ActionNotStranded
    OwnerFindsAll
PROPERTIES
    ResultsAreFinal
CHECK_DEADLOCK FALSE
