CONSTANTS
    g = g  a1 = a1  a2 = a2  a3 = a3  b2 = b2  b3 = b3
    None = None
    Genesis = g
    Header <- MCHeader
    Prev <- MCPrev
    BlockWork <- MCBlockWork
    Time <- MCTime
    CheckOk <- MCHeader
    AcceptOk <- MCHeader
    Clock = {1}
    MaxFuture = 1
    Cap = 6
    Room = {1, 3}
    Locators <- MCLocators
    MaxHeaders = 2
SPECIFICATION ReorgSpec
INVARIANTS PlanIsBatch AnswerAdvances
PROPERTIES PlansEnd
CHECK_DEADLOCK FALSE
