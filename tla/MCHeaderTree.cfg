CONSTANTS
    g = g  a1 = a1  a2 = a2  d = d  e = e  b1 = b1  b2 = b2  c = c  x = x
    Genesis = g
    Header <- MCHeader
    Prev <- MCPrev
    BlockWork <- MCBlockWork
    Time <- MCTime
    CheckOk <- MCCheckOk
    AcceptOk <- MCAcceptOk
    Clock = {1, 2}
    MaxFuture = 1
    Cap = 5
SPECIFICATION Spec
INVARIANTS ActiveChain VerdictClosure BestHeader
PROPERTIES VerdictsFinal ActiveChainIsStack
CHECK_DEADLOCK FALSE
