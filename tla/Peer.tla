-------------------------------- MODULE Peer --------------------------------
(***************************************************************************)
(* The peer-facing threads and what they share: the slot table             *)
(* (peer/slots.rs), the outbox and the request table of each connection    *)
(* (outbox.rs, requests.rs), the listener, the connector and a reader and  *)
(* a writer per slot (net.rs), the framer (wire.rs), the session and the   *)
(* handshake a reader runs (session.rs, handshake.rs), and the queue that  *)
(* readers forward to (runtime/queue.rs).                                  *)
(*                                                                         *)
(* A step is one section under one lock, or one blocking call.  Every wait *)
(* in the code wakes at the latest after its tick, so a wait is a guard.   *)
(* Clocks are not modelled: a timer that runs may have run out.            *)
(* Connections are numbered in the order they are made; the number is also *)
(* the connection's `since` and its session's nonce.  0 is no connection.  *)
(***************************************************************************)
EXTENDS Integers, Sequences, FiniteSets, FiniteSetsExt

CONSTANTS
    Outbound, Inbound,  \* the slots of each kind
    Hash,               \* the blocks that may be asked for
    Large,              \* the blocks over READ_CAP_IDLE
    Speech,             \* the messages peers send
    Netgroup,           \* the network groups of the addresses to dial
    MaxConn,            \* how many connections are made (bound)
    MaxRequests,        \* MAX_BLOCKS_IN_FLIGHT
    OutboxMax,          \* OUTBOX_MAX_BYTES; a frame weighs one
    QueueItems,         \* PEER_TO_CHAIN_MAX_ITEMS
    QueueBytes,         \* PEER_TO_CHAIN_MAX_BYTES
    BlockWeight,        \* what a block weighs; any other message weighs one
    MaxAcceptErrors,    \* MAX_CONSECUTIVE_ACCEPT_ERRORS
    Word,               \* 2^w for the w bits of the slot counters
    Events              \* the timers that run out and the faults that happen

Slot == Outbound \cup Inbound
Conn == 1 .. MaxConn
Kind == {"Outbound", "Inbound"}
KindOf(i) == IF i \in Outbound THEN "Outbound" ELSE "Inbound"
SlotsOf(k) == IF k = "Outbound" THEN Outbound ELSE Inbound

ASSUME PeerAssumption ==
    /\ Outbound \cap Inbound = {} /\ Slot \subseteq Nat /\ IsFiniteSet(Slot)
    /\ Large \subseteq Hash
    /\ {MaxConn, MaxRequests, OutboxMax, QueueItems, QueueBytes, BlockWeight,
        MaxAcceptErrors, Word} \subseteq Nat \ {0}
    /\ Word > Cardinality(Slot) + 1

VARIABLES
    slot,      \* the connection in each slot
    occupied,  \* the counter of each kind
    closing,   \* the table is closing
    begun,     \* a shutdown has been announced
    conn,      \* the connections made so far
    made,      \* how many there are
    cl,        \* the listener and the connector
    rd,        \* the readers
    wr,        \* the writers
    inbox,     \* the queue to the chain thread: <<slot, message>> pairs
    shut       \* that queue is closed

pvars == <<slot, occupied, closing, begun, conn, made, cl, rd, wr, inbox, shut>>

Nothing == [kind |-> "nothing"]
Wanted == {"NETWORK", "WITNESS"}

(* A connection as claim builds it.  asked is the peer's own knowledge:    *)
(* the blocks a getdata written to it has named.                           *)
NewConnection(i, group) ==
    [index |-> i, group |-> group, open |-> TRUE, ended |-> "none",
     outbox |-> <<>>, closed |-> FALSE, requests |-> {}, asked |-> {},
     stage |-> "AwaitingVersion", offered |-> {}, services |-> {},
     ready |-> FALSE, ping |-> FALSE]

PeerInit ==
    /\ slot = [i \in Slot |-> 0]
    /\ occupied = [k \in Kind |-> 0]
    /\ closing = FALSE /\ begun = FALSE
    /\ conn = <<>> /\ made = 0
    /\ cl = [k \in Kind |-> [pc |-> "poll", group |-> 0, errors |-> 0]]
    /\ rd = [i \in Slot |-> [pc |-> "wait", conn |-> 0, full |-> FALSE,
                             held |-> Nothing, why |-> "none"]]
    /\ wr = [i \in Slot |-> [pc |-> "wait", conn |-> 0, frame |-> {}]]
    /\ inbox = <<>> /\ shut = FALSE

-----------------------------------------------------------------------------
(* Connections.                                                            *)

(* Disconnect::misbehaving: the reasons that blame the peer.               *)
Misbehaving ==
    {"OverCap", "Malformed", "Stalled", "ObsoleteVersion", "NegotiationAfterVerack",
     "TransactionRelay", "BloomFilter", "CompactFilter", "Mempool",
     "UnrequestedBlock", "InvalidHeader", "InvalidBlock"}

Blame(why) == IF why \in Misbehaving THEN "blamed" ELSE "unblamed"

(* Mutant: the outbox is left open.                                        *)
DisconnectedSocketOnly(r, blame) ==
    [r EXCEPT !.ended = IF @ = "none" THEN blame ELSE @, !.open = FALSE]

(* Connection::disconnect: the first reason stays, the socket is shut down *)
(* both ways and the outbox is closed.  Of the reason, only the blame.     *)
Disconnected(r, blame) ==
    [r EXCEPT !.ended = IF @ = "none" THEN blame ELSE @,
              !.open = FALSE, !.closed = TRUE]

(* The last thread to hold a connection lets it go: of what it was,        *)
(* nothing is left that any thread could read.                             *)
Dropped(r) == Disconnected(NewConnection(r.index, 0), "unblamed")

(* Outbox::push: a frame that does not fit closes the outbox.  The push    *)
(* failed exactly when the outbox is closed after it.                      *)
Push(r, frame) ==
    IF r.closed THEN r
    ELSE IF Len(r.outbox) + 1 > OutboxMax THEN [r EXCEPT !.closed = TRUE]
    ELSE [r EXCEPT !.outbox = Append(@, frame)]

-----------------------------------------------------------------------------
(* The listener (Inbound) and the connector (Outbound).                    *)

HasRoom(k) == occupied[k] < Cardinality(SlotsOf(k))
LiveGroups == {conn[slot[i]].group : i \in {j \in Outbound : slot[j] # 0}}
Free(k) == {i \in SlotsOf(k) : slot[i] = 0}

(* The loop's test, which a thread makes when it has finished a turn.      *)
Again == IF begun THEN "exit" ELSE "poll"

(* Nothing to accept or to dial, or no room for it, or the dial fails.     *)
ClaimerIdle(k) ==
    /\ cl[k].pc = "poll"
    /\ cl' = [cl EXCEPT ![k].pc = Again, ![k].errors = 0]
    /\ UNCHANGED <<slot, occupied, closing, begun, conn, made, rd, wr, inbox, shut>>

(* accept_one takes a connection; dial reaches an address whose group no   *)
(* live outbound connection is in.  claim finds the table open.            *)
ClaimerTakes(k, group) ==
    /\ cl[k].pc = "poll" /\ HasRoom(k) /\ ~closing
    /\ k = "Outbound" => group \notin LiveGroups
    /\ made + Cardinality({j \in Kind : cl[j].pc = "claim"}) < MaxConn
    /\ cl' = [cl EXCEPT ![k].pc = "claim", ![k].group = group, ![k].errors = 0]
    /\ UNCHANGED <<slot, occupied, closing, begun, conn, made, rd, wr, inbox, shut>>

(* The listening socket fails; too often in a row, and the node stops.     *)
AcceptFails ==
    LET errors == cl["Inbound"].errors + 1
        lost == errors >= MaxAcceptErrors
    IN  /\ cl["Inbound"].pc = "poll" /\ "AcceptError" \in Events
        /\ cl' = [cl EXCEPT !["Inbound"].errors = IF lost THEN 0 ELSE errors,
                            !["Inbound"].pc = IF lost THEN "exit" ELSE Again]
        /\ begun' = (begun \/ lost)
        /\ UNCHANGED <<slot, occupied, closing, conn, made, rd, wr, inbox, shut>>

(* The rest of PeerSlots::claim: a free slot of the kind, or none, and     *)
(* then the socket is dropped.  The scan holds one slot's lock at a time,  *)
(* so a slot released behind it is passed over.                            *)
Claim(k) ==
    /\ cl[k].pc = "claim"
    /\ \/ /\ Free(k) = {}
          /\ cl' = [cl EXCEPT ![k].pc = Again]
          /\ UNCHANGED <<slot, conn, made>>
       \/ \E i \in Free(k) :
          /\ conn' = Append(conn, NewConnection(i, cl[k].group))
          /\ made' = made + 1
          /\ slot' = [slot EXCEPT ![i] = made + 1]
          /\ cl' = [cl EXCEPT ![k].pc = "count"]
    /\ UNCHANGED <<occupied, closing, begun, rd, wr, inbox, shut>>

(* The counter is raised once the lock is dropped.                         *)
ClaimCount(k) ==
    /\ cl[k].pc = "count"
    /\ occupied' = [occupied EXCEPT ![k] = (@ + 1) % Word]
    /\ cl' = [cl EXCEPT ![k].pc = Again]
    /\ UNCHANGED <<slot, closing, begun, conn, made, rd, wr, inbox, shut>>

Claimers ==
    \/ \E k \in Kind : \/ ClaimerIdle(k)
                       \/ \E group \in Netgroup : ClaimerTakes(k, group)
                       \/ Claim(k) \/ ClaimCount(k)
    \/ AcceptFails

-----------------------------------------------------------------------------
(* A reader: what its steps do to its own state.                           *)

ROf(i) == conn[rd[i].conn]
Continue(i) == rd' = [rd EXCEPT ![i].pc = "top"]
Finish(i, why) == rd' = [rd EXCEPT ![i].pc = "end", ![i].why = Blame(why)]
Forward(i, m) == rd' = [rd EXCEPT ![i].pc = "send", ![i].held = m]

(* Session::send: the connection is over when the outbox refuses.          *)
Answer(i, r) ==
    /\ conn' = [conn EXCEPT ![rd[i].conn] = r]
    /\ IF r.closed THEN Finish(i, "OutboxFull") ELSE Continue(i)

(* What reader steps that stay within the connection leave alone.          *)
OthersSame == UNCHANGED <<slot, occupied, closing, begun, made, cl, wr, inbox, shut>>

(* wait_for_connection: a connection is handed over even while the table   *)
(* closes.  The session opens: the side that dialled speaks first.         *)
ReaderTakes(i) ==
    LET c == slot[i]
        r == IF i \in Outbound THEN Push(conn[c], {}) ELSE conn[c]
        refused == i \in Outbound /\ r.closed
    IN  /\ rd[i].pc = "wait" /\ c # 0
        /\ conn' = [conn EXCEPT ![c] = r]
        /\ rd' = [rd EXCEPT ![i].conn = c,
                            ![i].pc = IF refused THEN "end" ELSE "top",
                            ![i].why = IF refused THEN Blame("OutboxFull") ELSE @]
        /\ OthersSame

ReaderLeaves(i) ==
    /\ rd[i].pc = "wait" /\ slot[i] = 0 /\ closing
    /\ rd' = [rd EXCEPT ![i].pc = "exit"]
    /\ OthersSame /\ UNCHANGED conn

(* The top of serve's loop: the shutdown, the outbox.                      *)
Stopping == begun \/ closing
ReaderStops(i) ==
    /\ rd[i].pc = "top"
    /\ \/ Stopping /\ Finish(i, "NodeStopping")
       \/ ~Stopping /\ ROf(i).closed /\ Finish(i, "OutboxFull")
    /\ OthersSame /\ UNCHANGED conn

(* The timers that may have run out when Session::tick looks at them.      *)
Expired(r) ==
    Events \cap IF r.stage # "Ready" THEN {"HandshakeTimeout"}
               ELSE {"Silent"} \cup IF r.ping THEN {"PingTimeout"} ELSE {}

(* Session::cap: the read cap is the full one while a request is           *)
(* outstanding.                                                            *)
Cap(i) == ROf(i).requests # {}

(* Session::tick, which may ping, and the read that follows it: the cap it *)
(* is called with is the one of this moment.                               *)
ReaderTicks(i) ==
    \E pings \in BOOLEAN :
        LET r == IF pings THEN Push(ROf(i), {}) ELSE ROf(i) IN
        /\ rd[i].pc = "top" /\ ~Stopping /\ ~ROf(i).closed
        /\ pings => "Ping" \in Events /\ ROf(i).stage = "Ready" /\ ~ROf(i).ping
        /\ conn' = [conn EXCEPT ![rd[i].conn] =
                       [r EXCEPT !.ping = @ \/ (pings /\ ~r.closed)]]
        /\ \/ r.closed /\ Finish(i, "OutboxFull")
           \/ ~r.closed /\ \E why \in Expired(ROf(i)) : Finish(i, why)
           \/ ~r.closed /\ rd' = [rd EXCEPT ![i].pc = "read", ![i].full = Cap(i)]
        /\ OthersSame

-----------------------------------------------------------------------------
(* A reader: the framer.                                                   *)

(* The read times out; a message that has begun and not ended by its       *)
(* deadline ends the connection.                                           *)
ReadIdle(i) ==
    /\ rd[i].pc = "read"
    /\ \/ Continue(i)
       \/ "Stalled" \in Events /\ Finish(i, "Stalled")
    /\ OthersSame /\ UNCHANGED conn

(* The peer hangs up, or the socket has been shut down.                    *)
ReadEof(i) ==
    /\ rd[i].pc = "read"
    /\ "PeerClosed" \in Events \/ ~ROf(i).open
    /\ Finish(i, IF Stopping THEN "NodeStopping" ELSE "PeerClosed")
    /\ OthersSame /\ UNCHANGED conn

(* The framing itself is wrong: another network's magic, or (Malformed) a  *)
(* header, a body or an item count no message has.                         *)
WireErrors == {"WrongMagic", "Malformed"}

ReadBroken(i) ==
    /\ rd[i].pc = "read"
    /\ \E why \in Events \cap WireErrors : Finish(i, why)
    /\ OthersSame /\ UNCHANGED conn

(* The length a header declares is measured against the cap the read was   *)
(* called with.                                                            *)
OverCap(i, m) == m.kind = "block" /\ m.hash \in Large /\ ~rd[i].full

ReadOverCap(i, m) ==
    /\ rd[i].pc = "read" /\ OverCap(i, m)
    /\ rd' = [rd EXCEPT ![i].pc = "end", ![i].why = Blame("OverCap"), ![i].held = m]
    /\ OthersSame /\ UNCHANGED conn

(* Header and body are in the buffer: the message is complete.             *)
Complete(i, m) == rd[i].pc = "read" /\ ~OverCap(i, m)

-----------------------------------------------------------------------------
(* A reader: the handshake.                                                *)

(* The three rules that end a connection at its version.                   *)
Admits(i, m) ==
    /\ ~m.old
    /\ ~(i \in Inbound /\ m.nonce = rd[i].conn)
    /\ i \in Outbound => Wanted \subseteq m.services

WhyNot(i, m) ==
    IF m.old THEN "ObsoleteVersion"
    ELSE IF i \in Inbound THEN "ConnectedToSelf" ELSE "MissingServices"

ReceiveVersion(i, m) ==
    LET r == [ROf(i) EXCEPT !.stage = "AwaitingVerack", !.offered = m.services]
        replied == Push(IF i \in Inbound THEN Push(r, {}) ELSE r, {})
    IN  /\ Complete(i, m) /\ m.kind = "version"
        /\ ROf(i).stage = "AwaitingVersion"
        /\ IF Admits(i, m) THEN Answer(i, replied)
           ELSE Finish(i, WhyNot(i, m)) /\ UNCHANGED conn
        /\ OthersSame

ReceiveVerack(i, m) ==
    /\ Complete(i, m) /\ m.kind = "verack"
    /\ ROf(i).stage = "AwaitingVerack"
    /\ conn' = [conn EXCEPT ![rd[i].conn].stage = "Ready",
                            ![rd[i].conn].services = ROf(i).offered,
                            ![rd[i].conn].ready = TRUE]
    /\ Continue(i) /\ OthersSame

(* Negotiation that comes too late, and reconciliation, which this node    *)
(* asked at no time to be offered.                                         *)
ReceiveNegotiation(i, m) ==
    /\ Complete(i, m)
    /\ \/ m.kind = "sendtxrcncl" /\ Finish(i, "TransactionRelay")
       \/ m.kind = "wtxidrelay" /\ ROf(i).stage = "Ready"
                                /\ Finish(i, "NegotiationAfterVerack")
    /\ OthersSame /\ UNCHANGED conn

(* A message no rule is about is dropped: everything before the handshake  *)
(* is through, a second version or verack after it.                        *)
Ignored(i, m) ==
    \/ ROf(i).stage = "AwaitingVersion" /\ m.kind \notin {"version", "sendtxrcncl"}
    \/ ROf(i).stage = "AwaitingVerack" /\ m.kind \notin {"verack", "sendtxrcncl"}
    \/ ROf(i).stage = "Ready" /\ m.kind \in {"version", "verack", "other"}

ReceiveIgnored(i, m) ==
    Complete(i, m) /\ Ignored(i, m) /\ Continue(i) /\ OthersSame /\ UNCHANGED conn

-----------------------------------------------------------------------------
(* A reader: what a session does with a message once it is ready.          *)

Ready(i, m) == Complete(i, m) /\ ROf(i).stage = "Ready"

ReceivePing(i, m) ==
    /\ Ready(i, m) /\ m.kind = "ping"
    /\ Answer(i, Push(ROf(i), {})) /\ OthersSame

ReceivePong(i, m) ==
    /\ Ready(i, m) /\ m.kind = "pong"
    /\ conn' = [conn EXCEPT ![rd[i].conn].ping = @ /\ ~m.ours]
    /\ Continue(i) /\ OthersSame

(* Mutant: the request is looked up and left in the table.                 *)
RequestsLeft(r, h) == r.requests

(* Requests::take.                                                         *)
RequestsAfter(r, h) == r.requests \ {h}

(* The request first, then check_block and accept_block.                   *)
ReceiveBlock(i, m) ==
    /\ Ready(i, m) /\ m.kind = "block"
    /\ conn' = [conn EXCEPT ![rd[i].conn].requests = RequestsAfter(ROf(i), m.hash)]
    /\ IF m.hash \notin ROf(i).requests THEN Finish(i, "UnrequestedBlock")
       ELSE IF ~m.valid THEN Finish(i, "InvalidBlock") ELSE Forward(i, m)
    /\ OthersSame

(* Headers pass check_header, an inventory names no transaction; the       *)
(* requests and addresses the chain thread takes need no test.             *)
ReceiveForwarded(i, m) ==
    /\ Ready(i, m) /\ m.kind \in {"headers", "inv", "request"}
    /\ \/ m.valid /\ Forward(i, m)
       \/ ~m.valid /\ Finish(i, IF m.kind = "headers" THEN "InvalidHeader"
                                ELSE "TransactionRelay")
    /\ OthersSame /\ UNCHANGED conn

(* A transaction, the mempool, a filter.                                   *)
ReceiveRefused(i, m) ==
    /\ Ready(i, m) /\ m.kind = "refused"
    /\ Finish(i, m.why) /\ OthersSame /\ UNCHANGED conn

Receive(i) ==
    \E m \in Speech :
        \/ ReadOverCap(i, m) \/ ReceiveVersion(i, m) \/ ReceiveVerack(i, m)
        \/ ReceiveNegotiation(i, m) \/ ReceiveIgnored(i, m)
        \/ ReceivePing(i, m) \/ ReceivePong(i, m) \/ ReceiveBlock(i, m)
        \/ ReceiveForwarded(i, m) \/ ReceiveRefused(i, m)

-----------------------------------------------------------------------------
(* A reader: forwarding, and the end of a connection.                      *)

Weight(m) == IF m.kind = "block" THEN BlockWeight ELSE 1
Held(q) == LET of[n \in 0 .. Len(q)] ==
                 IF n = 0 THEN 0 ELSE of[n - 1] + Weight(q[n][2])
           IN  of[Len(q)]

(* Mutant: the bytes held are looked at, the ones to come are not.         *)
FitsSoFar(m) == Len(inbox) < QueueItems /\ Held(inbox) <= QueueBytes

(* Room for one more item; an empty queue always has room.                 *)
Fits(m) ==
    /\ Len(inbox) < QueueItems
    /\ inbox = <<>> \/ Held(inbox) + Weight(m) <= QueueBytes

(* PeerToChain::send: the reader waits for room, or learns that the queue  *)
(* has closed.                                                             *)
ReaderSends(i) ==
    /\ rd[i].pc = "send"
    /\ \/ shut /\ Finish(i, "NodeStopping") /\ UNCHANGED inbox
       \/ /\ ~shut /\ Fits(rd[i].held)
          /\ inbox' = Append(inbox, <<i, rd[i].held>>)
          /\ rd' = [rd EXCEPT ![i].pc = "top", ![i].held = Nothing]
    /\ UNCHANGED <<slot, occupied, closing, begun, conn, made, cl, wr, shut>>

(* Mutant: the slot is vacated as soon as the connection ends.             *)
ReaderEndsAndVacates(i) ==
    /\ rd[i].pc = "end"
    /\ conn' = [conn EXCEPT ![rd[i].conn] =
                  [Disconnected(@, rd[i].why) EXCEPT !.requests = {}]]
    /\ slot' = [slot EXCEPT ![i] = 0]
    /\ rd' = [rd EXCEPT ![i].pc = "release", ![i].why = "none", ![i].held = Nothing]
    /\ UNCHANGED <<occupied, closing, begun, made, cl, wr, inbox, shut>>

(* end: the connection is ended by its first reason, and the blocks it     *)
(* owes are given up.                                                      *)
ReaderEnds(i) ==
    /\ rd[i].pc = "end"
    /\ conn' = [conn EXCEPT ![rd[i].conn] =
                  [Disconnected(@, rd[i].why) EXCEPT !.requests = {}]]
    /\ rd' = [rd EXCEPT ![i].pc = "release", ![i].why = "none",
                        ![i].held = Nothing]
    /\ OthersSame

(* PeerSlots::release: the slot under its lock, the counter after it.      *)
ReaderReleases(i) ==
    /\ rd[i].pc = "release"
    /\ slot' = [slot EXCEPT ![i] = 0]
    /\ rd' = [rd EXCEPT ![i].pc = "discount", ![i].conn = 0]
    /\ conn' = IF wr[i].conn = slot[i] THEN conn
               ELSE [conn EXCEPT ![slot[i]] = Dropped(@)]
    /\ UNCHANGED <<occupied, closing, begun, made, cl, wr, inbox, shut>>

(* Mutant: the counter is not lowered.                                     *)
ReaderDiscountsNothing(i) ==
    /\ rd[i].pc = "discount"
    /\ rd' = [rd EXCEPT ![i].pc = "wait"]
    /\ OthersSame /\ UNCHANGED conn

ReaderDiscounts(i) ==
    /\ rd[i].pc = "discount"
    /\ occupied' = [occupied EXCEPT ![KindOf(i)] = (@ - 1) % Word]
    /\ rd' = [rd EXCEPT ![i].pc = "wait"]
    /\ UNCHANGED <<slot, closing, begun, conn, made, cl, wr, inbox, shut>>

(* What a reader does of its own accord; Hear is what a peer makes it do.  *)
Reader(i) ==
    \/ ReaderTakes(i) \/ ReaderLeaves(i) \/ ReaderStops(i) \/ ReaderTicks(i)
    \/ ReadIdle(i) \/ ReaderSends(i)
    \/ ReaderEnds(i) \/ ReaderReleases(i) \/ ReaderDiscounts(i)

Hear(i) == ReadEof(i) \/ ReadBroken(i) \/ Receive(i)

-----------------------------------------------------------------------------
(* A writer.                                                               *)

WOf(i) == conn[wr[i].conn]

WriterTakes(i) ==
    /\ wr[i].pc = "wait"
    /\ \/ slot[i] # 0 /\ wr' = [wr EXCEPT ![i].pc = "drain", ![i].conn = slot[i]]
       \/ slot[i] = 0 /\ closing /\ wr' = [wr EXCEPT ![i].pc = "exit"]
    /\ UNCHANGED <<slot, occupied, closing, begun, conn, made, cl, rd, inbox, shut>>

(* drain: a shutdown, a closed outbox with nothing left in it, or the next *)
(* frame.                                                                  *)
WriterPops(i) ==
    /\ wr[i].pc = "drain"
    /\ \/ /\ begun \/ (WOf(i).outbox = <<>> /\ WOf(i).closed)
          /\ wr' = [wr EXCEPT ![i].pc = "vacant"]
          /\ UNCHANGED conn
       \/ /\ ~begun /\ WOf(i).outbox # <<>>
          /\ wr' = [wr EXCEPT ![i].pc = "write", ![i].frame = Head(WOf(i).outbox)]
          /\ conn' = [conn EXCEPT ![wr[i].conn].outbox = Tail(@)]
    /\ UNCHANGED <<slot, occupied, closing, begun, made, cl, rd, inbox, shut>>

(* The frame reaches the peer, or the write fails and ends the connection. *)
WriterWrites(i) ==
    /\ wr[i].pc = "write"
    /\ \/ /\ WOf(i).open
          /\ conn' = [conn EXCEPT ![wr[i].conn].asked = @ \cup wr[i].frame]
          /\ wr' = [wr EXCEPT ![i].pc = "drain", ![i].frame = {}]
       \/ /\ "WriteFailed" \in Events \/ ~WOf(i).open
          /\ conn' = [conn EXCEPT ![wr[i].conn] = Disconnected(@, Blame("WriteFailed"))]
          /\ wr' = [wr EXCEPT ![i].pc = "vacant", ![i].frame = {}]
    /\ UNCHANGED <<slot, occupied, closing, begun, made, cl, rd, inbox, shut>>

(* wait_until_vacant.                                                      *)
WriterParks(i) ==
    /\ wr[i].pc = "vacant"
    /\ slot[i] = 0 \/ closing
    /\ wr' = [wr EXCEPT ![i].pc = "wait", ![i].conn = 0]
    /\ conn' = IF wr[i].conn = slot[i] THEN conn
               ELSE [conn EXCEPT ![wr[i].conn] = Dropped(@)]
    /\ UNCHANGED <<slot, occupied, closing, begun, made, cl, rd, inbox, shut>>

Writer(i) ==
    WriterTakes(i) \/ WriterPops(i) \/ WriterWrites(i) \/ WriterParks(i)

Peers == Claimers \/ \E i \in Slot : Reader(i) \/ Hear(i) \/ Writer(i)

-----------------------------------------------------------------------------
(* Properties.                                                             *)

(* A counter of PeerSlots is the number of slots taken, but for the claims *)
(* that have not raised it yet and the releases that have not lowered it   *)
(* (slots.rs claim and release change it after they drop the slot's lock). *)
SlotsCounted ==
    \A k \in Kind :
        occupied[k] = ( Cardinality({i \in SlotsOf(k) : slot[i] # 0})
                      + Cardinality({i \in SlotsOf(k) : rd[i].pc = "discount"})
                      - (IF cl[k].pc = "count" THEN 1 ELSE 0) ) % Word

(* A connection is served in the slot that holds it: a reader that is past *)
(* wait_for_connection has its slot's connection, so that its release      *)
(* vacates no other (net.rs reader, slots.rs release).                     *)
ReaderHoldsItsSlot ==
    \A i \in Slot : rd[i].conn # 0 => slot[i] = rd[i].conn

(* The queue to the chain thread holds no more than its items and, but for *)
(* a message that is alone in it, no more than its bytes (queue.rs fits).  *)
QueueBounded ==
    /\ Len(inbox) <= QueueItems
    /\ Len(inbox) > 1 => Held(inbox) <= QueueBytes
=============================================================================
