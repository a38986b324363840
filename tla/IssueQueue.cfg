SPECIFICATION Spec
CONSTANTS
    Items <- MCItems
    Published <- MCPublished
    Repairs <- TwoRepairs
    Affected <- MCAffected
    Superseded <- MCSuperseded
    Deps <- MCDeps
    Contract <- MCContract
    ImplPR = 9
    MaxFaults = 0
    MaxTasks = 2
    MaxCommands = 1
INVARIANTS
    TypeOK
    OneActiveRepair
    PendingLabelStays
    AwaitingHumanResumable
PROPERTIES
    NoCheckpointUnderRepair
    NotTakenUnderRepair
CHECK_DEADLOCK FALSE
