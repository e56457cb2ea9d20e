SPECIFICATION MCSpec
CONSTANTS
    Handles = {h1, h2}
    Captures <- MCCaptures
    Requests <- MCClockCalls
    Workloads <- MCClockOnly
    MaxDecodedRows = 2
    MaxFaults = 1
PROPERTY RetryAccepted
