SPECIFICATION CallsSpec
CONSTANTS
    Handles = {h1, h2}
    Requests <- MCOperationCalls
    Members <- MCMembers
    MaxOperations = 3
    MaxSnapshots = 1
    Replays <- MCReplays
    CaptureRequests <- MCCaptureRequests
    MaxFaults = 2
    Limit <- MCLimit
    MaxWritten <- MCWritten
    Capacity = 1
    Records = {"hello", "ok"}
    Exits = {{0}, {2}}
    MaxTroubles = 1
INVARIANT NoDanglingArtifact
INVARIANT ProjectionExactOrAhead
INVARIANT ReceiptsHold
INVARIANT AcceptedIsWhole
PROPERTY SoundMeansCurrent
PROPERTY ImplementsJournal
PROPERTY EveryCallReturns
PROPERTY RetriesConverge
PROPERTY SessionEnds
