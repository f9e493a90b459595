-------------------------------- MODULE Node --------------------------------
(***************************************************************************)
(* The node's threads and how they stop (runtime/mod.rs, supervisor.rs,    *)
(* signal.rs, main.rs): the peer threads of Peer, the main thread that     *)
(* waits for the announcement and carries the shutdown out, the chain      *)
(* thread's loop (chain/mod.rs), the validation thread (validation.rs) and *)
(* the control thread (control.rs).                                        *)
(*                                                                         *)
(* What the chain thread decides about peers is the subject of Download;   *)
(* here its tick may ask any ready peer for any block, end any connection, *)
(* or do nothing.  No thread pushes jobs for validation in this version,   *)
(* so that queue is empty and only its closing is modelled.                *)
(***************************************************************************)
EXTENDS Peer

VARIABLES
    main,      \* the main thread: its pc and the slots it has yet to close
    signalled, \* a signal has arrived
    ch,        \* the chain thread
    dirty,     \* headers accepted and not committed to the index
    jobsShut,  \* the queue to validation is closed
    va,        \* the validation thread
    synced,    \* validation has synced the undo files
    ct,        \* the control thread
    broken,    \* the block index has refused a write
    late       \* the join deadline ran out

nvars == <<main, signalled, ch, dirty, jobsShut, va, synced, ct, broken, late>>
vars == <<pvars, nvars>>

NodeInit ==
    /\ PeerInit
    /\ main = [pc |-> "wait", left |-> {}]
    /\ signalled = FALSE
    /\ ch = "top" /\ dirty = FALSE /\ broken = FALSE
    /\ jobsShut = FALSE
    /\ va = "top" /\ synced = FALSE
    /\ ct = "wait"
    /\ late = FALSE

Running == main.pc # "done"

-----------------------------------------------------------------------------
(* Signals.                                                                *)

(* handle_signal: the first signal is noted; once the shutdown has begun   *)
(* it would change nothing.  A second one is a crash, and what a crash     *)
(* leaves is the subject of BlockIndex.                                    *)
Signal ==
    /\ ~signalled /\ ~begun /\ "Signal" \in Events
    /\ signalled' = TRUE
    /\ UNCHANGED <<pvars, main, ch, dirty, jobsShut, va, synced, ct, broken, late>>

(* The listener's poll returns with a signal noted, or fails.              *)
ListenerBegins ==
    /\ cl["Inbound"].pc = "poll"
    /\ signalled \/ "PollError" \in Events
    /\ begun' = TRUE
    /\ cl' = [cl EXCEPT !["Inbound"].pc = "exit"]
    /\ UNCHANGED <<slot, occupied, closing, conn, made, rd, wr, inbox, shut, nvars>>

-----------------------------------------------------------------------------
(* The main thread.                                                        *)

AllExited ==
    /\ \A k \in Kind : cl[k].pc = "exit"
    /\ \A i \in Slot : rd[i].pc = "exit" /\ wr[i].pc = "exit"
    /\ ch = "exit" /\ ct = "exit"

(* wait returns and shutdown_all begins: the table is closing, then every  *)
(* slot in turn.                                                           *)
MainCloses ==
    /\ main.pc = "wait" /\ begun
    /\ closing' = TRUE
    /\ main' = [pc |-> "disconnect", left |-> Slot]
    /\ UNCHANGED <<slot, occupied, begun, conn, made, cl, rd, wr, inbox, shut,
                   signalled, ch, dirty, jobsShut, va, synced, ct, broken, late>>

MainDisconnects ==
    LET i == Min(main.left) IN
    /\ main.pc = "disconnect" /\ main.left # {}
    /\ main' = [main EXCEPT !.left = @ \ {i}]
    /\ conn' = IF slot[i] = 0 THEN conn
               ELSE [conn EXCEPT ![slot[i]] = Disconnected(@, Blame("NodeStopping"))]
    /\ UNCHANGED <<slot, occupied, closing, begun, made, cl, rd, wr, inbox, shut,
                   signalled, ch, dirty, jobsShut, va, synced, ct, broken, late>>

MainClosesQueue ==
    /\ main.pc = "disconnect" /\ main.left = {}
    /\ shut' = TRUE
    /\ main' = [main EXCEPT !.pc = "join"]
    /\ UNCHANGED <<slot, occupied, closing, begun, conn, made, cl, rd, wr, inbox,
                   signalled, ch, dirty, jobsShut, va, synced, ct, broken, late>>

(* wait_for_exits: every thread but validation, or the deadline.           *)
MainJoins ==
    /\ main.pc = "join"
    /\ AllExited \/ "JoinDeadline" \in Events
    /\ late' = ~AllExited
    /\ main' = [main EXCEPT !.pc = "validation"]
    /\ UNCHANGED <<pvars, signalled, ch, dirty, jobsShut, va, synced, ct, broken>>

(* Validation is joined however long it takes, and the process ends.       *)
MainEnds ==
    /\ main.pc = "validation" /\ va = "exit"
    /\ main' = [main EXCEPT !.pc = "done"]
    /\ UNCHANGED <<pvars, signalled, ch, dirty, jobsShut, va, synced, ct, broken, late>>

Main == \/ MainCloses \/ MainDisconnects \/ MainClosesQueue
        \/ MainJoins \/ MainEnds

-----------------------------------------------------------------------------
(* The chain thread.                                                       *)

(* A request enters the table before the getdata enters the outbox; an     *)
(* outbox that refuses ends the connection.                                *)
Ask(r, blocks) ==
    LET pushed == Push([r EXCEPT !.requests = @ \cup blocks], blocks)
    IN  IF pushed.closed THEN Disconnected(pushed, Blame("OutboxFull")) ELSE pushed

(* Schedule::tick: the chain thread may end a connection or ask it for a   *)
(* block.                                                                  *)
Tick ==
    \/ UNCHANGED conn
    \/ \E i \in Slot : /\ slot[i] # 0
       /\ \/ /\ "BlockStalling" \in Events
             /\ conn' = [conn EXCEPT ![slot[i]] = Disconnected(@, Blame("BlockStalling"))]
          \/ \E h \in Hash :
             /\ conn[slot[i]].ready
             /\ \A c \in 1 .. made : h \notin conn[c].requests
             /\ Cardinality(conn[slot[i]].requests) < MaxRequests
             /\ conn' = [conn EXCEPT ![slot[i]] = Ask(@, {h})]

(* commit: not due, done, or refused, which announces the shutdown.        *)
Commit(d) ==
    \/ dirty' = d /\ UNCHANGED <<broken, begun>>
    \/ d /\ dirty' = FALSE /\ UNCHANGED <<broken, begun>>
    \/ d /\ "WriteError" \in Events
         /\ dirty' = TRUE /\ broken' = TRUE /\ begun' = TRUE

(* PeerToChain::recv, which returns with nothing after its tick.           *)
Recv == IF inbox = <<>> THEN inbox ELSE Tail(inbox)

(* A turn of the loop: recv, record, of which headers may leave the tree   *)
(* dirty, tick and commit.                                                 *)
ChainTurns ==
    LET headers == inbox # <<>> /\ Head(inbox)[2].kind = "headers" IN
    /\ ch = "top" /\ ~begun
    /\ inbox # <<>> \/ ~shut
    /\ inbox' = Recv
    /\ Tick
    /\ \E d \in {dirty, dirty \/ headers} : Commit(d)
    /\ UNCHANGED <<ch, slot, occupied, closing, made, cl, rd, wr, shut, main,
                   signalled, jobsShut, va, synced, ct, late>>

(* The loop ends: the shutdown, whatever is still queued, or the queue     *)
(* closed and empty.                                                       *)
ChainLeaves ==
    /\ ch = "top" /\ (begun \/ (shut /\ inbox = <<>>))
    /\ ch' = "flush"
    /\ UNCHANGED <<pvars, main, signalled, dirty, jobsShut, va, synced, ct, broken, late>>

(* Mutant: the loop ends without the last commit.                          *)
ChainSkipsFlush ==
    /\ ch = "flush" /\ ch' = "exit"
    /\ jobsShut' = TRUE
    /\ UNCHANGED <<pvars, main, signalled, dirty, va, synced, ct, broken, late>>

(* flush, and the queue to validation closes.                              *)
ChainFlushes ==
    /\ ch = "flush" /\ ch' = "exit"
    /\ \/ dirty' = FALSE /\ UNCHANGED broken
       \/ dirty /\ "WriteError" \in Events /\ broken' = TRUE /\ UNCHANGED dirty
    /\ jobsShut' = TRUE
    /\ UNCHANGED <<pvars, main, signalled, va, synced, ct, late>>

Chain == ChainTurns \/ ChainLeaves \/ ChainFlushes

-----------------------------------------------------------------------------
(* The validation and the control thread.                                  *)

(* The loop of validation::run ends; what is queued is discarded and the   *)
(* undo files are synced.                                                  *)
ValidationLeaves ==
    /\ va = "top" /\ (begun \/ jobsShut)
    /\ va' = "exit" /\ synced' = TRUE
    /\ UNCHANGED <<pvars, main, signalled, ch, dirty, jobsShut, ct, broken, late>>

(* Mutant: the control thread waits for the signal, not the announcement.  *)
ControlAwaitsSignal ==
    /\ ct = "wait" /\ signalled
    /\ ct' = "exit"
    /\ UNCHANGED <<pvars, main, signalled, ch, dirty, jobsShut, va, synced, broken, late>>

ControlLeaves ==
    /\ ct = "wait" /\ begun
    /\ ct' = "exit"
    /\ UNCHANGED <<pvars, main, signalled, ch, dirty, jobsShut, va, synced, broken, late>>

Stopped == ~Running /\ UNCHANGED vars

NodeNext ==
    \/ /\ Running
       /\ \/ Signal \/ ListenerBegins \/ Main \/ Chain
          \/ ValidationLeaves \/ ControlLeaves
          \/ Peers /\ UNCHANGED nvars
    \/ Stopped

(* Every thread is scheduled, and no wait in the code is without a tick.   *)
(* Nothing is fair that depends on a peer, a signal or a failure: that a   *)
(* read returns is ReadIdle, its timeout.  Nor is the join deadline, which *)
(* may pass at any time but helps no one: the threads leave on their own.  *)
Fairness ==
    /\ WF_vars(Running /\ Main /\ late' = late)
    /\ WF_vars(Running /\ Chain)
    /\ WF_vars(Running /\ ValidationLeaves)
    /\ WF_vars(Running /\ ControlLeaves)
    /\ \A k \in Kind : WF_vars(/\ Running /\ UNCHANGED nvars
                               /\ ClaimerIdle(k) \/ Claim(k) \/ ClaimCount(k))
    /\ \A i \in Slot : WF_vars(Running /\ Reader(i) /\ UNCHANGED nvars)
    /\ \A i \in Slot : WF_vars(Running /\ Writer(i) /\ UNCHANGED nvars)

NodeSpec == NodeInit /\ [][NodeNext]_vars /\ Fairness

-----------------------------------------------------------------------------
(* Properties.                                                             *)

(* A shutdown that met its deadline left nothing behind: every connection  *)
(* a reader took has ended and left its slot, the counters agree with the  *)
(* slots, the headers are in the index unless it refused a write, and the  *)
(* undo files are synced (runtime/mod.rs shutdown).  A claim that found    *)
(* the table open just before it closed may still store its connection; no *)
(* one serves it and nothing was sent.                                     *)
CleanStop ==
    main.pc = "done" =>
        /\ synced
        /\ ~late =>
              /\ \A k \in Kind :
                    occupied[k] = Cardinality({i \in SlotsOf(k) : slot[i] # 0})
              /\ \A c \in 1 .. made :
                    \/ ~conn[c].open /\ slot[conn[c].index] # c
                    \/ conn[c].stage = "AwaitingVersion" /\ conn[c].outbox = <<>>
              /\ dirty => broken

(* A claim that found the table open stores its connection after the       *)
(* reader of the slot has seen the table close, and left.                  *)
ClaimedLate(i) == slot[i] # 0 /\ rd[i].pc = "exit"

(* Once a shutdown is announced the process ends: no thread waits for      *)
(* another for ever, whatever the peers do and without the help of the     *)
(* join deadline (runtime/mod.rs shutdown, the ticks of slots.rs, queue.rs *)
(* and outbox.rs).  The exception is a slot that is claimed too late: no   *)
(* one will vacate it, and its writer, for which a connection comes before *)
(* the closing table, takes it up again and again (net.rs writer).  Then   *)
(* only the deadline ends the process.                                     *)
StopEventually == begun ~> (~Running \/ \E i \in Slot : ClaimedLate(i))

(* A connection that has been ended gives its slot back (net.rs reader,    *)
(* writer, slots.rs disconnect), unless the process ends first or it was   *)
(* claimed too late.                                                       *)
EndedIsReleased ==
    \A c \in Conn : (c <= made /\ conn[c].ended # "none")
                        ~> (~Running \/ \A i \in Slot : slot[i] = c => ClaimedLate(i))
=============================================================================
