SPECIFICATION FieldSpec
CONSTANTS
    Handles = {h1, h2}
    Captures <- MCCaptures
    Requests <- MCCalls
    Workloads <- MCWorkloads
    MaxDecodedRows = 2
    MaxFaults = 1
SYMMETRY HandleSymmetry
INVARIANT RowsReadable
INVARIANT ReceiptsDurable
INVARIANT SnapshotsReload
INVARIANT CompletedMeetsRequirements
INVARIANT PathsAreTrue
INVARIANT IntervalsSchedule
INVARIANT ReportsReload
INVARIANT KismetIsWhole
INVARIANT SessionsCompose
PROPERTY CorruptIsReal
CHECK_DEADLOCK FALSE
