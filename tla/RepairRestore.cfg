SPECIFICATION FairSpec
CONSTANTS
    Items <- MCItems
    Published <- MCPublished
    Repairs <- OneRepair
    Affected <- MCAffected
    Superseded <- MCSuperseded
    Deps <- MCDeps
    Contract <- MCContract
    ImplPR = 9
    MaxFaults = 1
    MaxTasks = 1
    MaxCommands = 0
PROPERTIES
    RepairLetsGo
CHECK_DEADLOCK FALSE
