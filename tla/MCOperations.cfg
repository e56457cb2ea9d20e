CONSTANTS
    MaxId = 6
    ProjectId = "p"
    MaxOperationCount = 5
    Operations <- MCOperations
    MaxParents = 8
    MaxConflicts = 2
    MaxFrontier = 3
    Devices = {1, 2}
    Fields = {"name"}
    Values = {"x", "y"}
    InitialValue = "i"
    Schemas = {2, 3}
    MaxLocalOps = 3
    MaxOps = 4
    Initial <- MCInitial
    Commands <- MCCommands
    MaxRecords = 4
    Replicas = {1, 2}
    Edits <- MCEdits
    MAX_MATERIALIZATION_OPERATIONS = 4
    MaxSteps = 4
SPECIFICATION OperationsSpec
INVARIANT TogglesAlternate
INVARIANT ReplicasAlwaysMerge
INVARIANT ConflictsAreResolvable
INVARIANT ReceiptsUndoAndReplay
INVARIANT OrdersAgree
INVARIANT EvidenceFreezesFloor
CHECK_DEADLOCK FALSE
