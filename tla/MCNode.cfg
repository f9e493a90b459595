SPECIFICATION NodeSpec
CONSTANTS
    Outbound = {1}
    Inbound = {}
    Hash = {}
    Large = {}
    Netgroup = {1}
    Speech <- MCSpeechHeaders
    Events = {"Signal", "WriteError", "JoinDeadline", "AcceptError"}
    MaxConn = 1
    MaxRequests = 1
    OutboxMax = 1
    QueueItems = 1
    QueueBytes = 2
    BlockWeight = 2
    MaxAcceptErrors = 1
    Word = 4
 
PROPERTIES StopEventually
