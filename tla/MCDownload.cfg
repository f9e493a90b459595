SPECIFICATION DownloadSpec
CONSTANTS
    Slot = {1, 2}
    Outbound = {1, 2}
    FullRelay = {1, 2}
    Hash = {"a", "b", "x"}
    Services <- MCFull
    Message <- MCSayB
    MaxConn = 2
    QueueItems = 1
    Header = {"a", "b", "x"}
    Genesis = "g"
    Prev <- MCPrev
    Work <- MCWork
    Loaded = {"g", "a"}
    Stored = {}
    Terminal = {}
    Bad = {"x"}
    Tip = "g"
    Enough = {"g", "a", "b"}
    Young = {}
    MaxHeaders = 2
    MaxRequests = 1
    Span = 1
    LimitedDepth = 0
    MaxUnstored = 1
INVARIANTS  InFlightIsOwed InFlightHasClock
PROPERTIES LinkKept
