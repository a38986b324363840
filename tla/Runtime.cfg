SPECIFICATION Spec
CONSTANTS
    Runtimes = {p1, p2}
    Actions <- MCActions
    FollowUps <- MCFollowUps
    Prerequisite <- MCPrerequisite
    Exempt = {"delete_file"}
    Writes = {"pr_create"}
    Publishing = {"pr_create"}
    Concurrent = FALSE
    MaxProposals = 4
    MaxForeign = 3
    MaxCrashes = 1
SYMMETRY MCSymmetry
INVARIANTS
    TypeOK
    DebtIsDurable
    KernelAgrees
PROPERTIES
    PublishedWhenPaid
    WrittenOnce
CHECK_DEADLOCK FALSE
