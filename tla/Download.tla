------------------------------ MODULE Download ------------------------------
(***************************************************************************)
(* The chain thread's schedule (download/mod.rs, window.rs, peers.rs) and  *)
(* the messages it takes (chain/mod.rs record), over the peers of          *)
(* PeerLink: whom to ask for headers and blocks, what an answer changes,   *)
(* and who has stopped answering.                                          *)
(*                                                                         *)
(* The chain thread holds no lock between its steps, so a step ends where  *)
(* it fetches a slot's connection anew: a connection fetched in one step   *)
(* may have left its slot by the next.  Clocks are not modelled: a clock   *)
(* that runs may have run out.  Nothing connects or stores a block in this *)
(* version of the node, so the tip and the stored blocks are constants.    *)
(***************************************************************************)
EXTENDS PeerLink, FiniteSetsExt

CONSTANTS
    Outbound,     \* the slots of connections this node dials
    FullRelay,    \* those of the full-relay role
    Header,       \* the headers peers may send, Genesis apart
    Genesis,
    Prev,         \* the parent of each header
    Work,         \* the chainwork of each header
    Loaded,       \* the headers loaded at the start
    Stored,       \* those whose block has a location
    Terminal,     \* those whose status is terminal
    Bad,          \* the headers accept refuses and blames the peer for
    Tip,          \* the tip of the chainstate
    Enough,       \* the headers with minimum_chain_work
    Young,        \* the headers that may be within MAX_TIP_AGE of now
    MaxHeaders,   \* MAX_HEADERS_ITEMS
    MaxRequests,  \* MAX_BLOCKS_IN_FLIGHT
    Span,         \* BLOCK_DOWNLOAD_WINDOW
    LimitedDepth, \* LIMITED_PEER_DEPTH
    MaxUnstored   \* MAX_UNSTORED_BLOCKS

ASSUME DownloadAssumption ==
    /\ FullRelay \subseteq Outbound /\ Outbound \subseteq Slot
    /\ IsFiniteSet(Slot) /\ Slot # {} /\ Slot = 1 .. Cardinality(Slot)
    /\ IsFiniteSet(Header) /\ Header \subseteq Hash
    /\ Genesis \notin Header /\ Prev \in [Header -> Header \cup {Genesis}]
    /\ \E rank \in [Header \cup {Genesis} -> 0 .. Cardinality(Header)] :
          \A h \in Header : rank[Prev[h]] < rank[h]
    /\ Work \in [Header \cup {Genesis} -> Nat]
    /\ Genesis \in Loaded /\ Tip \in Loaded
    /\ Stored \cup Terminal \subseteq Loaded /\ Loaded \subseteq Header \cup {Genesis}
    /\ {MaxHeaders, MaxRequests, Span, MaxUnstored} \subseteq Nat \ {0}
    /\ \A m \in Message :
          /\ m.kind = "headers" => m.hashes \in Seq(Header)
          /\ m.kind = "block" => m = [kind |-> "block", hash |-> m.hash]

VARIABLES
    row,        \* one PeerDownload per slot
    fly,        \* in_flight: the slot each block was asked of, or 0
    delivered,  \* the blocks that have arrived
    known,      \* the headers in the tree
    best,       \* the tree's best header
    ibd,        \* initial_block_download
    ch,         \* where the chain thread is, and the locals of its pass
    panic       \* the assertion that has failed, or "none"

dvars == <<row, fly, delivered, known, best, ibd, ch, panic>>
downloadVars == <<lvars, dvars>>

None == "none"

Height[h \in Header \cup {Genesis}] == IF h = Genesis THEN 0 ELSE Height[Prev[h]] + 1
Chain[h \in Header \cup {Genesis}] == IF h = Genesis THEN {h} ELSE Chain[Prev[h]] \cup {h}
Ancestor(h, n) == CHOOSE a \in Chain[h] : Height[a] = n

(* PeerDownload::reset.                                                    *)
Reset(c) == [conn |-> c, best |-> None, common |-> None, dl |-> FALSE,
             stall |-> FALSE, gh |-> FALSE, started |-> FALSE,
             deadline |-> FALSE, sent |-> FALSE]

(* A pass that has not begun.                                              *)
Receiving == [pc |-> "receive", i |-> 0, conn |-> 0, preferred |-> 0,
              syncing |-> 0, recent |-> FALSE]

DownloadInit ==
    /\ LinkInit
    /\ row = [i \in Slot |-> Reset(0)]
    /\ fly = [h \in Header |-> 0]
    /\ delivered = {}
    /\ known = Loaded
    /\ best = CHOOSE h \in Loaded : \A k \in Loaded : Work[h] >= Work[k]
    /\ ibd = TRUE
    /\ ch = Receiving
    /\ panic = "none"

-----------------------------------------------------------------------------
(* Rows, and the blocks in flight that belong to them.                     *)

Rows == [row |-> row, fly |-> fly]

(* Mutant: the row is reset and the blocks it was owing stay in flight.    *)
ForgetRow(s, i) ==
    IF s.row[i].conn = slot[i] THEN s
    ELSE [row |-> [s.row EXCEPT ![i] = Reset(slot[i])], fly |-> s.fly]

(* Schedule::row: a row that does not describe the slot's connection is    *)
(* forgotten, and with it the blocks asked of that slot.                   *)
Matched(s, i) ==
    IF s.row[i].conn = slot[i] THEN s
    ELSE [row |-> [s.row EXCEPT ![i] = Reset(slot[i])],
          fly |-> [h \in Header |-> IF s.fly[h] = i THEN 0 ELSE s.fly[h]]]

Become(s) == row' = s.row /\ fly' = s.fly

InFlightFor(i) == {h \in Header : fly[h] = i}
Preferred == Cardinality({i \in Outbound : slot[i] # 0})
SyncsStarted(s) == Cardinality({i \in Slot : s.row[i].started})

CanServeBlocks(i) == link[i].services \cap {"NETWORK", "LIMITED"} # {}
CanServeWitnesses(i) == "WITNESS" \in link[i].services
IsLimited(i) == "NETWORK" \notin link[i].services /\ "LIMITED" \in link[i].services

(* Mutant: the chain thread vacates the slot itself.                       *)
EndedAtOnce(i) == [link EXCEPT ![i] = Fresh]

(* disconnect, of whichever connection is in the slot.                     *)
Ended(i) == [link EXCEPT ![i].doomed = @ \/ slot[i] # 0]

(* send: the frame is queued, or the outbox is full and the connection     *)
(* ends.                                                                   *)
Sent(i) == {link, Ended(i)}

-----------------------------------------------------------------------------
(* The next blocks of one peer (window.rs).                                *)

Have(h) == h \in Stored \cup delivered \cup {Genesis}

LastCommonAncestor(a, b) ==
    CHOOSE h \in Chain[a] \cap Chain[b] :
        \A k \in Chain[a] \cap Chain[b] : Height[k] <= Height[h]

CommonBlock(r) ==
    LET level == Min({Height[Tip], Height[r.best]})
        edge == IF r.common = None THEN Ancestor(Tip, level) ELSE r.common
    IN  LastCommonAncestor(edge, r.best)

(* The heights the walk covers, and where on them it stops: below the      *)
(* first terminal header, or at the last block that is wanted.             *)
NothingToWalk(r) == \/ r.best = None
                    \/ Work[r.best] < Work[Tip]
                    \/ r.best \notin Enough

(* Mutant: the walk takes blocks that are in flight already.               *)
WantedAgain(h, limited, top) ==
    ~Have(h) /\ ~(limited /\ Height[h] + LimitedDepth < top)

Wanted(h, limited, top) ==
    ~Have(h) /\ fly[h] = 0 /\ ~(limited /\ Height[h] + LimitedDepth < top)

(* The loop of next_blocks: path is the headers above common it looks at.  *)
WalkPath(i, want, limited, top, common, path) ==
    LET refused == {n \in DOMAIN path : path[n] \in Terminal}
        open == {n \in DOMAIN path : \A k \in refused : n < k}
        wanted == {n \in open : Wanted(path[n], limited, top)}
        taken == {n \in wanted : Cardinality({k \in wanted : k <= n}) <= want}
        had == {n \in open : \A k \in 1 .. n : Have(path[k])}
        waiting == {n \in open : ~Have(path[n]) /\ fly[path[n]] # 0}
        held == IF taken = {} /\ refused = {} /\ waiting # {}
                THEN fly[path[Min(waiting)]] ELSE 0
    IN  [blocks |-> {path[n] : n \in taken},
         common |-> IF had = {} THEN common ELSE path[Max(had)],
         staller |-> IF held = i THEN 0 ELSE held]

(* batch: the headers below top from one height to another.                *)
Batch(top, first, last) == [n \in 1 .. last - first + 1 |-> Ancestor(top, first + n - 1)]

NextBlocks(r, i, want, limited) ==
    LET common == CommonBlock(r)
        top == Height[r.best]
        first == Height[common] + 1
        last == Min({top, Height[common] + Span})
    IN  WalkPath(i, want, limited, top, common, Batch(r.best, first, last))

NoBlocks(r) == [blocks |-> {}, common |-> r.common, staller |-> 0]

-----------------------------------------------------------------------------
(* What a message changes.                                                 *)

(* note_best_known.                                                        *)
Noted(s, i, h) ==
    LET m == Matched(s, i)
        r == m.row[i]
    IN  IF r.best = None \/ Work[r.best] < Work[h]
        THEN [m EXCEPT !.row[i].best = h] ELSE m

(* send_getheaders, where the one outstanding may have aged out.           *)
GetheadersSent(s, i) ==
    LET m == Matched(s, i)
        asked == [m EXCEPT !.row[i].gh = TRUE]
    IN  IF slot[i] = 0 THEN {m}
        ELSE IF m.row[i].gh THEN {m, asked} ELSE {asked}

(* The headers that go in: up to the first whose parent is not known or    *)
(* that accept refuses.                                                    *)
Accepted(hs) ==
    LET parents(n) == known \cup {hs[k] : k \in 1 .. n - 1}
        fits == {n \in 0 .. Len(hs) : \A k \in 1 .. n :
                    Prev[hs[k]] \in parents(k) /\ hs[k] \notin Bad}
    IN  SubSeq(hs, 1, Max(fits))

(* headers_received and headers_answered.                                  *)
HeadersAnswered(i, hs) ==
    LET taken == Accepted(hs)
        failed == Len(taken) < Len(hs)
        unconnecting == taken = <<>> /\ failed /\ Prev[hs[1]] \notin known
        fault == failed /\ ~unconnecting /\ hs[Len(taken) + 1] \in Bad
        heaviest == {n \in DOMAIN taken : \A k \in DOMAIN taken :
                        Work[taken[k]] <= Work[taken[n]]}
        answered == [Matched(Rows, i) EXCEPT !.row[i].gh = FALSE]
        over == [answered EXCEPT !.row[i].deadline = FALSE]
        noted == Noted(answered, i, taken[Len(taken)])
        more == { [s EXCEPT !.row[i].deadline = s.row[i].started \/ @] :
                     s \in GetheadersSent(noted, i) }
    IN  /\ known' = known \cup Range(taken)
        /\ best' = IF \E n \in heaviest : Work[taken[n]] > Work[best]
                   THEN taken[Min(heaviest)] ELSE best
        /\ \E s \in IF unconnecting THEN GetheadersSent(Rows, i)
                    ELSE IF taken = <<>> THEN {over}
                    ELSE IF Len(hs) < MaxHeaders
                    THEN {[noted EXCEPT !.row[i].deadline = FALSE]} ELSE more :
              Become(s)
        /\ link' \in IF fault THEN {Ended(i)}
                     ELSE IF unconnecting \/ (taken # <<>> /\ Len(hs) = MaxHeaders)
                     THEN Sent(i) ELSE {link}
        /\ UNCHANGED <<delivered, panic>>

(* announced, of one hash.                                                 *)
Announced(i, h) ==
    /\ IF h \in known THEN Become(Noted(Rows, i, h)) /\ UNCHANGED link
       ELSE /\ \E s \in GetheadersSent(Rows, i) : Become(s)
            /\ link' \in Sent(i)
    /\ UNCHANGED <<known, best, delivered, panic>>

(* block_received: a block no one owes is dropped; the answer to a request *)
(* must come from the slot that was asked.                                 *)
BlockReceived(i, h) ==
    LET left == [fly EXCEPT ![h] = 0]
        m == Matched([row |-> row, fly |-> left], i)
        idle == \A k \in Header : left[k] # i
        total == Cardinality(delivered \cup {h})
    IN  /\ IF fly[h] = 0 THEN UNCHANGED <<row, fly, delivered, panic>>
           ELSE /\ Become([m EXCEPT !.row[i].stall = FALSE,
                                    !.row[i].dl = @ /\ ~idle])
                /\ delivered' = delivered \cup {h}
                /\ panic' = IF fly[h] # i THEN "answers"
                            ELSE IF total > MaxUnstored + MaxRequests * Cardinality(Slot)
                            THEN "delivered" ELSE "none"
        /\ UNCHANGED <<link, known, best>>

(* The loop takes a message, or none within its tick.                      *)
ChainReceives ==
    /\ ch.pc = "receive"
    /\ ch' = [ch EXCEPT !.pc = "reconcile"]
    /\ \/ inbox = <<>> /\ UNCHANGED <<link, inbox, row, fly, delivered, known, best, panic>>
       \/ /\ inbox # <<>> /\ inbox' = Tail(inbox)
          /\ LET i == Head(inbox)[1]  m == Head(inbox)[2] IN
             \/ m.kind = "headers" /\ HeadersAnswered(i, m.hashes)
             \/ m.kind = "inv" /\ Announced(i, m.hash)
             \/ m.kind = "block" /\ BlockReceived(i, m.hash)
    /\ UNCHANGED <<made, slot, hold, ibd>>

-----------------------------------------------------------------------------
(* A pass over the schedule.                                               *)

(* The slots a part of the pass visits: check_timeouts does nothing about  *)
(* one whose row has no clock running.                                     *)
Visits(part, j) ==
    part = "timeouts" => row'[j].stall \/ row'[j].dl \/ row'[j].deadline

(* The pass goes on with the next slot, or with its next part.             *)
Begin(part, then) ==
    LET js == {j \in Slot : Visits(part, j)} IN
    IF js = {} THEN [Receiving EXCEPT !.pc = then]
    ELSE [Receiving EXCEPT !.pc = part, !.i = Min(js), !.preferred = Preferred]

GoOn(part, then) ==
    LET js == {j \in Slot : j > ch.i /\ Visits(part, j)} IN
    IF js = {} THEN then ELSE [ch EXCEPT !.pc = part, !.i = Min(js), !.conn = 0]

(* reconcile and update_initial_block_download; then ask_for_headers reads *)
(* what its loop goes by.                                                  *)
Reconcile ==
    LET all == [row |-> [i \in Slot |-> Matched(Rows, i).row[i]],
                fly |-> [h \in Header |->
                           IF fly[h] # 0 /\ row[fly[h]].conn # slot[fly[h]]
                           THEN 0 ELSE fly[h]]]
    IN  /\ ch.pc = "reconcile"
        /\ Become(all)
        /\ ibd' \in {ibd, ibd /\ ~(Tip \in Enough \cap Young)}
        /\ \E recent \in {FALSE, (best \in Young)} :
              ch' = [Receiving EXCEPT !.pc = "headers", !.i = 1, !.recent = recent,
                                      !.preferred = Preferred,
                                      !.syncing = SyncsStarted(all)]
        /\ UNCHANGED <<made, slot, link, hold, inbox, delivered, known, best, panic>>

(* One turn of ask_for_headers, up to the getheaders it sends.             *)
AskForHeaders ==
    LET i == ch.i  c == slot[i]
        m == Matched(Rows, i)
        announced == [m EXCEPT !.row[i].sent = TRUE]
        ready == c # 0 /\ link[i].ready /\ CanServeBlocks(i)
        passed == \/ m.row[i].started
                  \/ i \notin Outbound /\ ch.preferred > 0
                  \/ ch.syncing > 0 /\ ~ch.recent
        skip == GoOn("headers", Begin("blocks", "stale"))
    IN  /\ ch.pc = "headers"
        /\ IF ~ready THEN UNCHANGED <<row, fly, link>> /\ ch' = skip
           ELSE /\ Become(announced)
                /\ \/ /\ passed \/ m.row[i].gh
                      /\ ch' = skip
                      /\ link' \in IF m.row[i].sent THEN {link} ELSE Sent(i)
                   \/ /\ ~passed
                      /\ ch' = [ch EXCEPT !.pc = "started"]
                      /\ link' \in Sent(i)
        /\ UNCHANGED <<made, slot, hold, inbox, delivered, known, best, ibd, panic>>

(* The row is told: whichever connection is in the slot by now.            *)
HeadersAsked ==
    LET i == ch.i
        m == Matched(Rows, i)
    IN  /\ ch.pc = "started"
        /\ Become([m EXCEPT !.row[i].gh = TRUE, !.row[i].started = TRUE,
                            !.row[i].deadline = TRUE])
        /\ ch' = LET n == GoOn("headers", Begin("blocks", "stale"))
                 IN  IF n.pc = "headers" THEN [n EXCEPT !.syncing = @ + 1] ELSE n
        /\ UNCHANGED <<lvars, delivered, known, best, ibd, panic>>

(* may_ask.                                                                *)
MayAsk(i) ==
    /\ CanServeBlocks(i) /\ CanServeWitnesses(i)
    /\ ~ibd \/ i \in Outbound \/ ch.preferred = 0

(* The walk for the peer that is asked next, if it may be asked.           *)
WalkFor(i) ==
    LET want == MaxRequests - Cardinality(InFlightFor(i))
        asks == slot[i] # 0 /\ link[i].ready /\ MayAsk(i) /\ want > 0
    IN  IF ~asks \/ NothingToWalk(row[i]) THEN NoBlocks(row[i])
        ELSE NextBlocks(row[i], i, want, IsLimited(i))

(* The rows after a walk: the common block it reached, and the staller.    *)
Walked(i, walk) ==
    LET walked == [Rows EXCEPT !.row[i].common = walk.common]
    IN  IF walk.staller = 0 \/ InFlightFor(i) # {} THEN walked
        ELSE [Matched(walked, walk.staller) EXCEPT !.row[walk.staller].stall = TRUE]

(* request, as far as the table of the connection and the in-flight map.   *)
Request(i, blocks, marked) ==
    LET table == link[i].requests IN
    /\ row' = marked.row
    /\ fly' = [h \in Header |-> IF h \in blocks THEN i ELSE marked.fly[h]]
    /\ link' = [link EXCEPT ![i].requests = @ \cup blocks]
    /\ panic' = IF \E h \in blocks : fly[h] # 0 THEN "inflight"
                ELSE IF \/ blocks \cap table # {}
                        \/ Cardinality(table \cup blocks) > MaxRequests
                THEN "record" ELSE "none"
    /\ ch' = [ch EXCEPT !.pc = "asked", !.conn = slot[i]]

(* One turn of ask_for_blocks.                                             *)
AskForBlocks ==
    /\ ch.pc = "blocks" /\ Cardinality(delivered) < MaxUnstored
    /\ \E walk \in {WalkFor(ch.i)} :
          \/ /\ walk.blocks = {}
             /\ Become(Walked(ch.i, walk)) /\ UNCHANGED <<link, panic>>
             /\ ch' = GoOn("blocks", Begin("timeouts", "stale"))
          \/ /\ walk.blocks # {}
             /\ Request(ch.i, walk.blocks, Walked(ch.i, walk))
    /\ UNCHANGED <<made, slot, hold, inbox, delivered, known, best, ibd>>

(* A window's worth of blocks is waiting to be stored.                     *)
AskForNoBlocks ==
    /\ ch.pc = "blocks" /\ ch.i = 1
    /\ Cardinality(delivered) >= MaxUnstored
    /\ UNCHANGED row /\ ch' = Begin("timeouts", "stale")
    /\ UNCHANGED <<lvars, fly, delivered, known, best, ibd, panic>>

(* Mutant: the download clock is not started.                              *)
BlocksAskedNoClock ==
    /\ ch.pc = "asked"
    /\ Become(Matched(Rows, ch.i))
    /\ link' \in IF ch.conn = slot[ch.i] THEN Sent(ch.i) ELSE {link}
    /\ ch' = GoOn("blocks", Begin("timeouts", "stale"))
    /\ UNCHANGED <<made, slot, hold, inbox, delivered, known, best, ibd, panic>>

(* The end of request: the clock in the row of whichever connection is in  *)
(* the slot by now, and the getdata to the one that was fetched.           *)
BlocksAsked ==
    LET m == Matched(Rows, ch.i)
    IN  /\ ch.pc = "asked"
        /\ Become([m EXCEPT !.row[ch.i].dl = TRUE])
        /\ link' \in IF ch.conn = slot[ch.i] THEN Sent(ch.i) ELSE {link}
        /\ ch' = GoOn("blocks", Begin("timeouts", "stale"))
        /\ UNCHANGED <<made, slot, hold, inbox, delivered, known, best, ibd, panic>>

(* One turn of check_timeouts for a slot whose clocks have not run out.    *)
InTime ==
    /\ ch.pc = "timeouts"
    /\ UNCHANGED row
    /\ ch' = GoOn("timeouts", [Receiving EXCEPT !.pc = "stale"])
    /\ UNCHANGED <<lvars, row, fly, delivered, known, best, ibd, panic>>

(* The stalling clock of the row, as it was, ends whichever connection is  *)
(* in the slot by now; so does the download clock.                         *)
Stalled ==
    LET i == ch.i IN
    /\ ch.pc = "timeouts" /\ slot[i] # 0 /\ row[i].stall
    /\ link' = Ended(i)
    /\ Become([Matched(Rows, i) EXCEPT !.row[i].stall = FALSE])
    /\ ch' = GoOn("timeouts", [Receiving EXCEPT !.pc = "stale"])
    /\ UNCHANGED <<made, slot, hold, inbox, delivered, known, best, ibd, panic>>

DownloadTimesOut(i) ==
    /\ ch.pc = "timeouts" /\ ch.i = i /\ slot[i] # 0 /\ row[i].dl
    /\ link' = Ended(i) /\ UNCHANGED row
    /\ ch' = GoOn("timeouts", [Receiving EXCEPT !.pc = "stale"])
    /\ UNCHANGED <<made, slot, hold, inbox, row, fly, delivered, known, best, ibd, panic>>

(* check_headers_timeout: the peer goes if there is another to ask.        *)
HeadersTimeOut ==
    LET i == ch.i
        others == ch.preferred - (IF i \in Outbound THEN 1 ELSE 0)
    IN  /\ ch.pc = "timeouts" /\ slot[i] # 0 /\ row[i].deadline
        /\ \/ /\ others <= 0
              /\ Become([Matched(Rows, i) EXCEPT !.row[i].deadline = FALSE])
              /\ UNCHANGED link
           \/ /\ others > 0
              /\ link' = Ended(i)
              /\ UNCHANGED <<row, fly>>
        /\ ch' = GoOn("timeouts", [Receiving EXCEPT !.pc = "stale"])
        /\ UNCHANGED <<made, slot, hold, inbox, delivered, known, best, ibd, panic>>

(* check_stale_tip: not due, or explained, or a peer is replaced: of the   *)
(* full-relay ones that are not young, the first that has told the least.  *)
TipIsNotStale ==
    /\ ch.pc = "stale" /\ ch' = Receiving
    /\ UNCHANGED <<lvars, row, fly, delivered, known, best, ibd, panic>>

Told(i) == IF row[i].best = None THEN 0 ELSE Height[row[i].best]

ReplaceStale ==
    /\ ch.pc = "stale" /\ ch' = Receiving
    /\ \A h \in Header : fly[h] = 0
    /\ \A i \in Outbound : slot[i] # 0
    /\ \E old \in (SUBSET FullRelay) \ {{}} :
          LET low == {i \in old : \A j \in old : Told(i) <= Told(j)}
          IN  link' = Ended(Min(low))
    /\ UNCHANGED <<made, slot, hold, inbox, row, fly, delivered, known, best, ibd, panic>>

DownloadChain ==
    \/ ChainReceives \/ Reconcile \/ AskForHeaders \/ HeadersAsked
    \/ AskForBlocks \/ AskForNoBlocks \/ BlocksAsked
    \/ InTime \/ Stalled \/ HeadersTimeOut \/ \E i \in Slot : DownloadTimesOut(i)
    \/ TipIsNotStale \/ ReplaceStale

DownloadPeers ==
    /\ LinkPeers
    /\ UNCHANGED <<row, fly, delivered, known, best, ibd, ch, panic>>

(* A failed assertion ends the chain thread, and with it the node.         *)
DownloadNext ==
    \/ panic = "none" /\ (DownloadChain \/ DownloadPeers)
    \/ panic # "none" /\ UNCHANGED downloadVars

DownloadSpec == DownloadInit /\ [][DownloadNext]_downloadVars

-----------------------------------------------------------------------------
(* Properties.                                                             *)

(* Of the assertions of the schedule, two at most can fail: that a block   *)
(* answers the peer it was asked of, and that a peer's table has room for  *)
(* what it is asked.  That the walk skips what is in flight and that the   *)
(* window bounds what arrives holds in every interleaving (request,        *)
(* block_received).                                                        *)
OtherAssertionsHold == panic \in {"none", "answers", "record"}

(* The schedule does to the peers only what PeerLink allows the chain      *)
(* thread, which is what Peer was shown to cope with.                      *)
LinkKept == LinkInit /\ [][LinkNext]_lvars

(* A block in flight is owed by someone: it is in the table of the         *)
(* connection in its slot, or with the reader or in the queue, or that     *)
(* connection is on its way out, or the slot has been vacated and the next *)
(* look at it will tell (request, reconcile, forget; session.rs block).    *)
InFlightIsOwed ==
    \A h \in Header : LET i == fly[h]
                          block == [kind |-> "block", hash |-> h] IN
        i # 0 => \/ h \in link[i].requests \/ link[i].doomed
                 \/ hold[i] = <<block>> \/ <<i, block>> \in Range(inbox)
                 \/ slot[i] = 0 \/ row[i].conn # slot[i]

(* A block in flight has a download clock running for its slot, so that a  *)
(* peer that does not answer is ended at last: the clock is stopped only   *)
(* when the slot's last block has come, and the clock of one connection is *)
(* not that of the next (request, block_received, forget).                 *)
InFlightHasClock ==
    \A h \in Header : LET i == fly[h] IN
        i # 0 => row[i].dl \/ (ch.pc = "asked" /\ ch.i = i)

(* What block_received asserts: "a block answers the peer it was asked     *)
(* of".                                                                    *)
BlockAnswersItsPeer == panic # "answers"
=============================================================================
