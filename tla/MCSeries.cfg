SPECIFICATION Spec
CONSTANTS
    Record = {"r", "s", "big"}
    Size <- MCSize
    Previous <- MCPrevious
    Trailer = 1
    MaxFile = 6
    MaxOpen = 1
    MaxFiles = 3
    MaxFaults = 2
INVARIANTS SyncedReadsBack
CHECK_DEADLOCK FALSE
