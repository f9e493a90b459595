SPECIFICATION FairIndexSpec
CONSTANTS
    g = g
    h1 = h1
    h2 = h2
    Header = {h1, h2}
    Genesis = g
    Prev <- MCFork
    BlockWork <- MCBlockWork
    Time <- MCTime
    CheckOk = {h1, h2}
    AcceptOk = {h1, h2}
    Clock = {0, 1}
    MaxFuture = 0
    Cap = 3
    Chainstate = TRUE
    MinLive = 1
    StaleFactor = 1
    MaxClock = 1
    MaxRestarts = 1
    MaxFaults = 2
    MaxCommits = 1
CHECK_DEADLOCK FALSE
INVARIANTS
    ArenaOrderKept
PROPERTIES
    LoadEnds
    StopEnds
