SPECIFICATION FairSpec
CONSTANTS
    Items <- MCItems
    Published <- MCPublished
    Repairs <- OneRepair
    Affected <- MCAffected
    Superseded <- MCSuperseded
    Deps <- MCDeps
    Contract <- MCContract
    ImplPR = 9
    MaxFaults = 1
    MaxTasks = 2
    MaxCommands = 0
INVARIANTS
    DependenciesDone
PROPERTIES
    MergedRepairSettles
    ClosedRepairRestores
CHECK_DEADLOCK FALSE
