SPECIFICATION NodeSpec
CONSTANTS
    Outbound = {1}
    Inbound = {}
    Hash = {"b1"}
    Large = {"b1"}
    Netgroup = {1}
    Speech <- MCSpeechAll
    Events = {"Ping", "HandshakeTimeout", "Silent", "PingTimeout", "Stalled",
              "PeerClosed", "WrongMagic", "Malformed", "WriteFailed", "BlockStalling"}
    MaxConn = 2
    MaxRequests = 1
    OutboxMax = 1
    QueueItems = 2
    QueueBytes = 3
    BlockWeight = 4
    MaxAcceptErrors = 2
    Word = 4
INVARIANTS SlotsCounted ReaderHoldsItsSlot 
PROPERTIES PeerLinkRefinement EndedIsReleased
