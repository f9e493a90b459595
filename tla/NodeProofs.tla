----------------------------- MODULE NodeProofs -----------------------------
(***************************************************************************)
(* Proofs, for every number of slots, every set of messages and blocks and *)
(* every bound, of what the peer threads share with the chain thread and   *)
(* the shutdown.  The inductive invariant ThreadInv says where each        *)
(* connection is: claimed and untouched, with its reader, or out of its    *)
(* slot and ended; and in which order the threads of the node leave.  From *)
(* it follows what is counted: the counters count the slots, so that a     *)
(* shutdown that met its deadline left nothing behind, and the queue to    *)
(* the chain thread keeps its bounds.                                      *)
(***************************************************************************)
EXTENDS Node, FiniteSetTheorems, WellFoundedInduction, TLAPS

-----------------------------------------------------------------------------
(* Types.                                                                  *)

Verdict == {"none", "blamed", "unblamed"}
Stage == {"AwaitingVersion", "AwaitingVerack", "Ready"}
Offered == {m.services : m \in {n \in Speech : n.kind = "version"}}
Offers == Offered \cup {{}}

Connection ==
    [index : Slot, group : Netgroup \cup {0}, open : BOOLEAN, ended : Verdict,
     outbox : Seq(SUBSET Hash), closed : BOOLEAN, requests : SUBSET Hash,
     asked : SUBSET Hash, stage : Stage, offered : Offers, services : Offers,
     ready : BOOLEAN, ping : BOOLEAN]

Serving == {"top", "read", "send", "end", "release"}
Claimer == [pc : {"poll", "claim", "count", "exit"}, group : Netgroup \cup {0},
            errors : Nat]
ReaderState == [pc : Serving \cup {"wait", "discount", "exit"}, conn : Nat,
                full : BOOLEAN, held : Speech \cup {Nothing}, why : Verdict]
WriterState == [pc : {"wait", "drain", "write", "vacant", "exit"}, conn : Nat,
                frame : SUBSET Hash]

PeerTypes ==
    /\ slot \in [Slot -> Nat]
    /\ occupied \in [Kind -> Int]
    /\ conn \in Seq(Connection)
    /\ made \in Nat /\ Len(conn) = made
    /\ cl \in [Kind -> Claimer]
    /\ rd \in [Slot -> ReaderState]
    /\ wr \in [Slot -> WriterState]
    /\ inbox \in Seq(Slot \X (Speech \cup {Nothing}))

-----------------------------------------------------------------------------
(* The invariant.                                                          *)

(* What the handshake knows.                                               *)
StageOK(r) ==
    /\ r.ready <=> r.stage = "Ready"
    /\ r.stage = "AwaitingVerack" => r.offered \in Offered

(* A slot names a connection that names the slot.                          *)
TableOK ==
    \A i \in Slot : slot[i] # 0 => slot[i] <= made /\ conn[slot[i]].index = i

(* A reader that serves has its slot's connection, and has ended it before *)
(* it releases the slot.                                                   *)
ReaderOK ==
    \A i \in Slot :
        /\ rd[i].pc \in Serving <=> rd[i].conn # 0
        /\ rd[i].conn # 0 => slot[i] = rd[i].conn
        /\ rd[i].pc = "end" => rd[i].why # "none"
        /\ rd[i].pc = "release" => /\ conn[rd[i].conn].ended # "none"
                                   /\ ~conn[rd[i].conn].open

WriterOK ==
    \A i \in Slot :
        /\ wr[i].pc \in {"drain", "write", "vacant"} <=> wr[i].conn # 0
        /\ wr[i].conn # 0 => wr[i].conn <= made /\ conn[wr[i].conn].index = i

(* A connection out of its slot is ended; one no reader has taken is as it *)
(* was claimed, but perhaps ended.                                         *)
ConnOK ==
    \A c \in 1 .. made : LET r == conn[c] IN
        /\ StageOK(r)
        /\ slot[r.index] # c => ~r.open
        /\ slot[r.index] = c /\ rd[r.index].conn = 0 =>
              r.stage = "AwaitingVersion" /\ r.outbox = <<>>

(* No more connections are made than there may be.                         *)
MadeOK == made + Cardinality({k \in Kind : cl[k].pc = "claim"}) <= MaxConn

PeerInv ==
    PeerTypes /\ TableOK /\ ReaderOK /\ WriterOK /\ ConnOK

ControlOK ==
    /\ main \in [pc : {"wait", "disconnect", "join", "validation", "done"},
                 left : SUBSET Slot]
    /\ ch \in {"top", "flush", "exit"}
    /\ va = "exit" => synced
    /\ main.pc = "done" => va = "exit"
    /\ ch = "exit" /\ dirty => broken
    /\ main.pc \in {"validation", "done"} /\ ~late => AllExited

ThreadInv == PeerInv /\ MadeOK /\ ControlOK

-----------------------------------------------------------------------------
(* The constants.                                                          *)

(* A set of naturals has a least element, so that Min names one of it.     *)
LEMMA LeastNumber ==
    ASSUME NEW T, T \subseteq Nat, T # {}
    PROVE  /\ \E n \in T : \A m \in T : n <= m
           /\ Min(T) \in T
<1>1. PICK n \in T : \A m \in T : ~(<<m, n>> \in OpToRel(<, Nat))
  BY Zenon, NatLessThanWellFounded, WFMin
<1>2. \A m \in T : ~(m < n)
  BY Zenon, <1>1 DEF OpToRel
<1>3. \A m \in T : n <= m
  BY <1>2
<1> QED
  BY Zenon, <1>3 DEF Min

(* A slot is outbound or inbound, and KindOf says which.                   *)
LEMMA KindFacts ==
    /\ Slot = Outbound \cup Inbound
    /\ \A i \in Slot : KindOf(i) \in Kind /\ i \in SlotsOf(KindOf(i))
    /\ \A k \in Kind : SlotsOf(k) \subseteq Slot
    /\ \A k \in Kind : \A i \in SlotsOf(k) : KindOf(i) = k
BY Zenon, PeerAssumption DEF Slot, Kind, KindOf, SlotsOf

(* A connection as it is claimed.                                          *)
LEMMA NewConnectionOK ==
    ASSUME NEW i \in Slot, NEW g \in Netgroup \cup {0}
    PROVE  NewConnection(i, g) \in Connection /\ StageOK(NewConnection(i, g))
<1>1. {} \in Offers /\ <<>> \in Seq(SUBSET Hash)
  BY DEF Offers
<1> QED
  BY Zenon, <1>1 DEF NewConnection, Connection, StageOK, Verdict, Stage

(* Ending a connection changes nothing else of it.                         *)
LEMMA DisconnectedOK ==
    ASSUME NEW r \in Connection, NEW blame \in Verdict \ {"none"}
    PROVE  LET s == Disconnected(r, blame) IN
           /\ s \in Connection
           /\ s.index = r.index /\ s.stage = r.stage /\ s.ready = r.ready
           /\ s.offered = r.offered /\ s.services = r.services
           /\ s.outbox = r.outbox /\ s.requests = r.requests
           /\ ~s.open /\ s.ended # "none" /\ s.closed
BY Zenon DEF Disconnected, Connection, Verdict

(* A push changes the outbox or closes it, and nothing else.               *)
LEMMA PushOK ==
    ASSUME NEW r \in Connection, NEW frame \in SUBSET Hash
    PROVE  LET s == Push(r, frame) IN
           /\ s \in Connection
           /\ s.index = r.index /\ s.stage = r.stage /\ s.ready = r.ready
           /\ s.offered = r.offered /\ s.services = r.services
           /\ s.requests = r.requests /\ s.open = r.open /\ s.ended = r.ended
           /\ s.ping = r.ping
<1>1. r.outbox \in Seq(SUBSET Hash) /\ Append(r.outbox, frame) \in Seq(SUBSET Hash)
  BY DEF Connection
<1>2. CASE Push(r, frame) = r
  BY Zenon, <1>2
<1>3. CASE Push(r, frame) = [r EXCEPT !.closed = TRUE]
  BY Zenon, <1>3 DEF Connection
<1>4. CASE Push(r, frame) = [r EXCEPT !.outbox = Append(@, frame)]
  BY Zenon, <1>1, <1>4 DEF Connection
<1> QED
  BY Zenon, <1>2, <1>3, <1>4 DEF Push

(* A connection that ends has a verdict.                                   *)
LEMMA BlameOK == \A why : Blame(why) \in Verdict \ {"none"}
BY Zenon DEF Blame, Verdict

(* The last thread to let a connection go leaves it ended.                 *)
LEMMA DroppedOK ==
    ASSUME NEW r \in Connection
    PROVE  LET s == Dropped(r) IN
           /\ s \in Connection /\ s.index = r.index
           /\ StageOK(s) /\ ~s.open /\ s.ended # "none"
<1>1. r.index \in Slot
  BY Zenon DEF Connection
<1> DEFINE n == NewConnection(r.index, 0)
<1>2. n \in Connection /\ StageOK(n)
  BY Zenon, <1>1, NewConnectionOK
<1>3. n.index = r.index
  BY Zenon DEF NewConnection
<1>4. "unblamed" \in Verdict \ {"none"}
  BY Zenon DEF Verdict
<1> HIDE DEF n
<1> QED
  BY <1>2, <1>3, <1>4, DisconnectedOK DEF Dropped, n, StageOK

-----------------------------------------------------------------------------
(* What a step may do to one connection.                                   *)

(* A connection keeps its slot, is not opened again and not un-ended.      *)
Follows(r, s) ==
    /\ s \in Connection /\ StageOK(s)
    /\ s.index = r.index
    /\ s.open => r.open
    /\ s.ended = "none" => r.ended = "none"

(* A connection left alone still follows itself.                           *)
LEMMA FollowsItself ==
    ASSUME PeerInv, NEW c \in 1 .. made
    PROVE  Follows(conn[c], conn[c]) /\ conn = [conn EXCEPT ![c] = conn[c]]
<1>1. conn \in Seq(Connection) /\ Len(conn) = made /\ StageOK(conn[c])
  BY Zenon DEF PeerInv, PeerTypes, ConnOK
<1>2. conn[c] \in Connection
  BY <1>1
<1> QED
  BY <1>1, <1>2 DEF Follows

(* A change to one connection leaves the others and the table alone.       *)
LEMMA OneChanges ==
    ASSUME PeerInv, NEW c \in 1 .. made, NEW s, Follows(conn[c], s),
           conn' = [conn EXCEPT ![c] = s], UNCHANGED <<slot, made>>
    PROVE  /\ conn' \in Seq(Connection) /\ Len(conn') = made'
           /\ conn'[c] = s
           /\ \A d \in 1 .. made : d # c => conn'[d] = conn[d]
           /\ \A d \in 1 .. made : Follows(conn[d], conn'[d])
           /\ TableOK'
<1>1. conn \in Seq(Connection) /\ Len(conn) = made /\ made \in Nat /\ slot \in [Slot -> Nat]
  BY Zenon DEF PeerInv, PeerTypes
<1>2. conn' \in Seq(Connection) /\ Len(conn') = made /\ conn'[c] = s
  BY <1>1 DEF Follows
<1>3. ASSUME NEW d \in 1 .. made, d # c PROVE conn'[d] = conn[d]
  BY <1>1, <1>3
<1>4. ASSUME NEW d \in 1 .. made PROVE Follows(conn[d], conn'[d])
  BY Zenon, <1>2, <1>3, FollowsItself
<1>5. TableOK'
  <2> SUFFICES ASSUME NEW i \in Slot, slot'[i] # 0
               PROVE  slot'[i] <= made' /\ conn'[slot'[i]].index = i
    BY Zenon DEF TableOK
  <2>1. slot[i] \in 1 .. made /\ conn[slot[i]].index = i
    BY <1>1 DEF PeerInv, TableOK
  <2> QED
    BY <1>4, <2>1 DEF Follows
<1> QED
  BY Zenon, <1>2, <1>3, <1>4, <1>5

(* A reader at its work: it changes its own connection and its own state.  *)
ServeStep(i) ==
    /\ rd[i].pc \in Serving
    /\ \E s, q :
          /\ Follows(conn[rd[i].conn], s)
          /\ conn' = [conn EXCEPT ![rd[i].conn] = s]
          /\ rd' = [rd EXCEPT ![i] = q]
          /\ q \in ReaderState /\ q.conn = rd[i].conn /\ q.pc \in Serving
          /\ q.pc = "end" => q.why # "none"
          /\ q.pc = "release" => s.ended # "none" /\ ~s.open
    /\ inbox' \in Seq(Slot \X (Speech \cup {Nothing}))
    /\ UNCHANGED <<slot, occupied, made, cl, wr>>

(* A step of a serving reader keeps the invariant.                         *)
LEMMA ServeStepInv ==
    ASSUME PeerInv, NEW i \in Slot, ServeStep(i)
    PROVE  PeerInv'
<1>1. PICK s, q :
          /\ Follows(conn[rd[i].conn], s)
          /\ conn' = [conn EXCEPT ![rd[i].conn] = s]
          /\ rd' = [rd EXCEPT ![i] = q]
          /\ q \in ReaderState /\ q.conn = rd[i].conn /\ q.pc \in Serving
          /\ q.pc = "end" => q.why # "none"
          /\ q.pc = "release" => s.ended # "none" /\ ~s.open
  BY Zenon DEF ServeStep
<1> DEFINE c == rd[i].conn
<1>2. /\ rd \in [Slot -> ReaderState] /\ slot \in [Slot -> Nat] /\ made \in Nat
      /\ wr \in [Slot -> WriterState] /\ cl \in [Kind -> Claimer]
      /\ occupied \in [Kind -> Int]
  BY Zenon DEF PeerInv, PeerTypes
<1>3. c \in 1 .. made /\ slot[i] = c /\ conn[c].index = i
  BY <1>2 DEF PeerInv, ReaderOK, TableOK, ServeStep
<1>4. UNCHANGED <<slot, occupied, made, cl, wr>>
  BY Zenon DEF ServeStep
<1>5. /\ conn' \in Seq(Connection) /\ Len(conn') = made'
      /\ conn'[c] = s
      /\ \A d \in 1 .. made : d # c => conn'[d] = conn[d]
      /\ \A d \in 1 .. made : Follows(conn[d], conn'[d])
      /\ TableOK'
  BY Zenon, <1>1, <1>3, <1>4, OneChanges
<1> HIDE DEF c
<1>6. rd' \in [Slot -> ReaderState] /\ rd'[i] = q
      /\ \A j \in Slot : j # i => rd'[j] = rd[j]
  BY Zenon, <1>1, <1>2
<1>7. PeerTypes'
  BY Zenon, <1>2, <1>4, <1>5, <1>6 DEF PeerTypes, ServeStep
<1>8. ReaderOK'
  <2> SUFFICES ASSUME NEW j \in Slot
               PROVE  /\ rd'[j].pc \in Serving <=> rd'[j].conn # 0
                      /\ rd'[j].conn # 0 => slot'[j] = rd'[j].conn
                      /\ rd'[j].pc = "end" => rd'[j].why # "none"
                      /\ rd'[j].pc = "release" => /\ conn'[rd'[j].conn].ended # "none"
                                                 /\ ~conn'[rd'[j].conn].open
    BY Zenon DEF ReaderOK
  <2>1. CASE j = i
    BY <1>1, <1>3, <1>4, <1>5, <1>6, <2>1 DEF c
  <2>2. CASE j # i
    <3>1. rd'[j] = rd[j] /\ slot'[j] = slot[j]
      BY Zenon, <1>4, <1>6, <2>2
    <3>2. rd[j].conn # 0 => rd[j].conn \in 1 .. made /\ conn[rd[j].conn].index = j
      BY <1>2 DEF PeerInv, ReaderOK, TableOK
    <3>3. rd[j].conn # 0 => conn'[rd[j].conn] = conn[rd[j].conn]
      BY Zenon, <1>3, <1>5, <2>2, <3>2
    <3> QED
      BY Zenon, <3>1, <3>3 DEF PeerInv, ReaderOK, Serving
  <2> QED
    BY Zenon, <2>1, <2>2
<1>9. WriterOK'
  BY <1>2, <1>4, <1>5 DEF PeerInv, WriterOK, Follows, WriterState
<1>10. ConnOK'
  <2> SUFFICES ASSUME NEW d \in 1 .. made
               PROVE  LET r == conn'[d] IN
                      /\ StageOK(r)
                      /\ slot'[r.index] # d => ~r.open
                      /\ slot'[r.index] = d /\ rd'[r.index].conn = 0 =>
                            r.stage = "AwaitingVersion" /\ r.outbox = <<>>
    BY Zenon, <1>4 DEF ConnOK
  <2>1. Follows(conn[d], conn'[d])
    BY Zenon, <1>5
  <2>2. CASE d = c
    <3>1. conn'[d].index = i /\ slot'[i] = d /\ rd'[i].conn # 0
      BY <1>1, <1>3, <1>4, <1>6, <2>1, <2>2 DEF Follows, c
    <3> QED
      BY Zenon, <2>1, <3>1 DEF Follows
  <2>3. CASE d # c
    <3>1. conn'[d] = conn[d]
      BY Zenon, <1>5, <2>3
    <3>2. conn[d] \in Connection
      BY Zenon, <2>1, <3>1 DEF Follows
    <3>3. conn[d].index \in Slot
      BY Zenon, <3>2 DEF Connection
    <3>4. conn[d].index = i => slot[i] # d
      BY Zenon, <1>3, <2>3
    <3> QED
      BY Zenon, <1>4, <1>6, <3>1, <3>3, <3>4 DEF PeerInv, ConnOK
  <2> QED
    BY Zenon, <2>2, <2>3
<1> QED
  BY Zenon, <1>5, <1>7, <1>8, <1>9, <1>10 DEF PeerInv

-----------------------------------------------------------------------------
(* The steps of a reader at its work.                                      *)

(* A serving reader holds its slot's connection.                           *)
LEMMA ReaderFacts ==
    ASSUME PeerInv, NEW i \in Slot, rd[i].pc \in Serving
    PROVE  /\ rd[i] \in ReaderState /\ rd \in [Slot -> ReaderState]
           /\ rd[i].conn \in 1 .. made /\ slot[i] = rd[i].conn
           /\ ROf(i) \in Connection /\ StageOK(ROf(i)) /\ ROf(i).index = i
           /\ inbox \in Seq(Slot \X (Speech \cup {Nothing}))
<1>1. /\ rd \in [Slot -> ReaderState] /\ slot \in [Slot -> Nat] /\ made \in Nat
      /\ conn \in Seq(Connection) /\ Len(conn) = made
      /\ inbox \in Seq(Slot \X (Speech \cup {Nothing}))
  BY Zenon DEF PeerInv, PeerTypes
<1>2. rd[i].conn \in 1 .. made /\ slot[i] = rd[i].conn /\ conn[rd[i].conn].index = i
  BY <1>1 DEF PeerInv, ReaderOK, TableOK
<1> QED
  BY <1>1, <1>2 DEF PeerInv, ConnOK, ROf

(* A reader goes on with its connection, or gives it up.                   *)
Moves(i) ==
    \E q \in ReaderState :
        /\ rd' = [rd EXCEPT ![i] = q]
        /\ q.conn = rd[i].conn /\ q.pc \in Serving \ {"release"}
        /\ q.pc = "end" => q.why # "none"

(* Going back to the top of the loop is a move of the reader.              *)
LEMMA ContinueMoves ==
    ASSUME PeerInv, NEW i \in Slot, rd[i].pc \in Serving, Continue(i)
    PROVE  Moves(i)
<1> DEFINE q == [rd[i] EXCEPT !.pc = "top"]
<1>1. rd[i] \in ReaderState
  BY Zenon, ReaderFacts
<1>2. q \in ReaderState /\ q.conn = rd[i].conn /\ q.pc = "top"
  BY Zenon, <1>1 DEF ReaderState, Serving
<1>3. rd' = [rd EXCEPT ![i] = q]
  BY Zenon DEF Continue
<1> HIDE DEF q
<1> QED
  BY Zenon, <1>2, <1>3 DEF Moves, Serving

(* Leaving the loop is a move of the reader.                               *)
LEMMA FinishMoves ==
    ASSUME PeerInv, NEW i \in Slot, rd[i].pc \in Serving, NEW why, Finish(i, why)
    PROVE  Moves(i)
<1> DEFINE q == [rd[i] EXCEPT !.pc = "end", !.why = Blame(why)]
<1>1. rd[i] \in ReaderState /\ Blame(why) \in Verdict \ {"none"}
  BY Zenon, ReaderFacts, BlameOK
<1>2. q \in ReaderState /\ q.conn = rd[i].conn /\ q.pc = "end" /\ q.why # "none"
  BY Zenon, <1>1 DEF ReaderState, Serving
<1>3. rd' = [rd EXCEPT ![i] = q]
  BY Zenon DEF Finish
<1> HIDE DEF q
<1> QED
  BY Zenon, <1>2, <1>3 DEF Moves, Serving

(* Taking a message for the chain thread is a move of the reader.          *)
LEMMA ForwardMoves ==
    ASSUME PeerInv, NEW i \in Slot, rd[i].pc \in Serving, NEW m \in Speech, Forward(i, m)
    PROVE  Moves(i)
<1> DEFINE q == [rd[i] EXCEPT !.pc = "send", !.held = m]
<1>1. rd[i] \in ReaderState
  BY Zenon, ReaderFacts
<1>2. q \in ReaderState /\ q.conn = rd[i].conn /\ q.pc = "send"
  BY Zenon, <1>1 DEF ReaderState, Serving
<1>3. rd' = [rd EXCEPT ![i] = q]
  BY Zenon DEF Forward
<1> HIDE DEF q
<1> QED
  BY Zenon, <1>2, <1>3 DEF Moves, Serving

(* Whatever it did to its connection, if that follows from what it was.    *)
Changes(i) == \E s : Follows(ROf(i), s) /\ conn' = [conn EXCEPT ![rd[i].conn] = s]

(* A move, with a change of the reader's own connection, serves it.        *)
LEMMA MovesServes ==
    ASSUME PeerInv, NEW i \in Slot, rd[i].pc \in Serving, Moves(i), OthersSame,
           UNCHANGED conn \/ Changes(i)
    PROVE  ServeStep(i)
<1>1. rd[i].conn \in 1 .. made /\ inbox \in Seq(Slot \X (Speech \cup {Nothing}))
  BY Zenon, ReaderFacts
<1>2. Changes(i)
  BY Zenon, <1>1, FollowsItself DEF Changes, ROf
<1>3. PICK s : Follows(conn[rd[i].conn], s) /\ conn' = [conn EXCEPT ![rd[i].conn] = s]
  BY Zenon, <1>2 DEF Changes, ROf
<1>4. PICK q \in ReaderState :
        /\ rd' = [rd EXCEPT ![i] = q]
        /\ q.conn = rd[i].conn /\ q.pc \in Serving \ {"release"}
        /\ q.pc = "end" => q.why # "none"
  BY Zenon DEF Moves
<1> QED
  BY Zenon, <1>1, <1>3, <1>4 DEF ServeStep, OthersSame

(* A reply that is queued, or closes the outbox.                           *)
LEMMA PushFollows ==
    ASSUME NEW r \in Connection, StageOK(r), NEW frame \in SUBSET Hash
    PROVE  Follows(r, Push(r, frame))
BY PushOK DEF Follows, StageOK

(* Answering the peer serves the connection.                               *)
LEMMA AnswerServes ==
    ASSUME PeerInv, NEW i \in Slot, rd[i].pc \in Serving, NEW r, Follows(ROf(i), r),
           Answer(i, r), OthersSame
    PROVE  ServeStep(i)
<1>1. Moves(i)
  BY Zenon, ContinueMoves, FinishMoves DEF Answer
<1>2. Changes(i)
  BY Zenon DEF Answer, Changes
<1> QED
  BY Zenon, <1>1, <1>2, MovesServes

(* The steps that leave the connection as it is.                           *)
LEMMA QuietServes ==
    ASSUME PeerInv, NEW i \in Slot,
           \/ ReaderStops(i) \/ ReadIdle(i) \/ ReadEof(i) \/ ReadBroken(i)
           \/ \E m \in Speech : \/ ReceiveNegotiation(i, m) \/ ReceiveIgnored(i, m)
                                \/ ReceiveForwarded(i, m) \/ ReceiveRefused(i, m)
    PROVE  ServeStep(i)
<1>1. rd[i].pc \in Serving /\ OthersSame /\ UNCHANGED conn
  BY Zenon DEF ReaderStops, ReadIdle, ReadEof, ReadBroken, ReceiveNegotiation, ReceiveIgnored,
         ReceiveForwarded, ReceiveRefused, Ready, Complete, Serving
<1>2. \/ Continue(i) \/ \E why : Finish(i, why)
      \/ \E m \in Speech : Forward(i, m)
  BY Zenon DEF ReaderStops, ReadIdle, ReadEof, ReadBroken, ReceiveNegotiation, ReceiveIgnored,
         ReceiveForwarded, ReceiveRefused
<1>3. Moves(i)
  BY Zenon, <1>1, <1>2, ContinueMoves, FinishMoves, ForwardMoves
<1> QED
  BY Zenon, <1>1, <1>3, MovesServes

(* A message over the cap is a step of a serving reader.                   *)
LEMMA OverCapServes ==
    ASSUME PeerInv, NEW i \in Slot, NEW m \in Speech, ReadOverCap(i, m)
    PROVE  ServeStep(i)
<1> DEFINE q == [rd[i] EXCEPT !.pc = "end", !.why = Blame("OverCap"), !.held = m]
<1>1. rd[i].pc \in Serving /\ OthersSame /\ UNCHANGED conn
  BY Zenon DEF ReadOverCap, Serving
<1>2. rd[i] \in ReaderState /\ Blame("OverCap") \in Verdict \ {"none"}
  BY Zenon, <1>1, ReaderFacts, BlameOK
<1>3. q \in ReaderState /\ q.conn = rd[i].conn /\ q.pc = "end" /\ q.why # "none"
  BY Zenon, <1>2 DEF ReaderState, Serving
<1>4. rd' = [rd EXCEPT ![i] = q]
  BY Zenon DEF ReadOverCap
<1> HIDE DEF q
<1>5. Moves(i)
  BY Zenon, <1>3, <1>4 DEF Moves, Serving
<1> QED
  BY Zenon, <1>1, <1>5, MovesServes

(* So is the check of the deadlines at the top of the loop.                *)
LEMMA TicksServes ==
    ASSUME PeerInv, NEW i \in Slot, ReaderTicks(i)
    PROVE  ServeStep(i)
<1>1. PICK pings \in BOOLEAN :
        LET r == IF pings THEN Push(ROf(i), {}) ELSE ROf(i) IN
        /\ rd[i].pc = "top"
        /\ conn' = [conn EXCEPT ![rd[i].conn] =
                       [r EXCEPT !.ping = @ \/ (pings /\ ~r.closed)]]
        /\ \/ \E why : Finish(i, why)
           \/ rd' = [rd EXCEPT ![i].pc = "read", ![i].full = Cap(i)]
        /\ OthersSame
  BY Zenon DEF ReaderTicks
<1> DEFINE r == IF pings THEN Push(ROf(i), {}) ELSE ROf(i)
           s == [r EXCEPT !.ping = @ \/ (pings /\ ~r.closed)]
           q == [rd[i] EXCEPT !.pc = "read", !.full = Cap(i)]
<1>2. rd[i].pc \in Serving /\ OthersSame
  BY Zenon, <1>1 DEF Serving
<1>3. rd[i] \in ReaderState /\ ROf(i) \in Connection /\ StageOK(ROf(i))
  BY Zenon, <1>2, ReaderFacts
<1>4. Follows(ROf(i), r)
  BY Zenon, <1>3, PushFollows, FollowsItself DEF Follows
<1>5. conn' = [conn EXCEPT ![rd[i].conn] = s]
  BY Zenon, <1>1
<1>6. \/ \E why : Finish(i, why)
      \/ rd' = [rd EXCEPT ![i] = q]
  BY Zenon, <1>1
<1> HIDE DEF r
<1>7. Follows(ROf(i), s)
  <2>1. s \in Connection /\ s.index = r.index /\ s.stage = r.stage /\ s.ready = r.ready
        /\ s.offered = r.offered /\ s.open = r.open /\ s.ended = r.ended
    BY Zenon, <1>4 DEF Follows, Connection
  <2> QED
    BY Zenon, <1>4, <2>1 DEF Follows, StageOK
<1>8. q \in ReaderState /\ q.conn = rd[i].conn /\ q.pc = "read"
  BY Zenon, <1>3 DEF ReaderState, Serving, Cap
<1>9. Changes(i)
  BY Zenon, <1>5, <1>7 DEF Changes
<1> HIDE DEF q
<1>10. Moves(i)
  BY Zenon, <1>2, <1>6, <1>8, FinishMoves DEF Moves, Serving
<1> QED
  BY Zenon, <1>2, <1>9, <1>10, MovesServes

(* So is the peer's version.                                               *)
LEMMA VersionServes ==
    ASSUME PeerInv, NEW i \in Slot, NEW m \in Speech, ReceiveVersion(i, m)
    PROVE  ServeStep(i)
<1> DEFINE r == [ROf(i) EXCEPT !.stage = "AwaitingVerack", !.offered = m.services]
           hello == IF i \in Inbound THEN Push(r, {}) ELSE r
<1>1. rd[i].pc \in Serving /\ OthersSame
  BY Zenon DEF ReceiveVersion, Complete, Serving
<1>2. ROf(i) \in Connection /\ StageOK(ROf(i))
  BY Zenon, <1>1, ReaderFacts
<1>3. m.services \in Offered
  BY Zenon DEF ReceiveVersion, Offered
<1>4. ROf(i).stage = "AwaitingVersion"
  BY Zenon DEF ReceiveVersion
<1>5. r \in Connection /\ StageOK(r) /\ Follows(ROf(i), r)
  <2>1. r \in Connection /\ r.index = ROf(i).index /\ r.stage = "AwaitingVerack"
        /\ r.ready = ROf(i).ready /\ r.offered = m.services /\ r.open = ROf(i).open
        /\ r.ended = ROf(i).ended
    BY Zenon, <1>2, <1>3 DEF Connection, Stage, Offers
  <2> QED
    BY Zenon, <1>2, <1>3, <1>4, <2>1 DEF StageOK, Follows
<1>6. \/ Answer(i, Push(hello, {}))
      \/ Finish(i, WhyNot(i, m)) /\ UNCHANGED conn
  BY Zenon DEF ReceiveVersion
<1> HIDE DEF r
<1>7. Follows(r, hello)
  BY Zenon, <1>5, PushFollows DEF Follows
<1> HIDE DEF hello
<1>8. Follows(hello, Push(hello, {}))
  BY Zenon, <1>7, PushFollows DEF Follows
<1>9. Follows(ROf(i), Push(hello, {}))
  BY Zenon, <1>5, <1>7, <1>8 DEF Follows
<1>10. CASE Answer(i, Push(hello, {}))
  BY Zenon, <1>1, <1>9, <1>10, AnswerServes
<1>11. CASE Finish(i, WhyNot(i, m)) /\ UNCHANGED conn
  BY Zenon, <1>1, <1>11, FinishMoves, MovesServes
<1> QED
  BY Zenon, <1>6, <1>10, <1>11

(* So is its verack.                                                       *)
LEMMA VerackServes ==
    ASSUME PeerInv, NEW i \in Slot, NEW m \in Speech, ReceiveVerack(i, m)
    PROVE  ServeStep(i)
<1> DEFINE s == [ROf(i) EXCEPT !.stage = "Ready", !.services = ROf(i).offered,
                               !.ready = TRUE]
<1>1. rd[i].pc \in Serving /\ OthersSame /\ Continue(i)
  BY Zenon DEF ReceiveVerack, Complete, Serving
<1>2. ROf(i) \in Connection /\ rd[i].conn \in 1 .. made
  BY Zenon, <1>1, ReaderFacts
<1>3. Follows(ROf(i), s)
  BY Zenon, <1>2 DEF Connection, Stage, StageOK, Follows
<1>4. conn' = [conn EXCEPT ![rd[i].conn] = s]
  BY Zenon DEF ReceiveVerack, ROf
<1> QED
  BY Zenon, <1>1, <1>3, <1>4, ContinueMoves, MovesServes DEF Changes

(* So are its ping and its pong.                                           *)
LEMMA PingPongServes ==
    ASSUME PeerInv, NEW i \in Slot, NEW m \in Speech,
           ReceivePing(i, m) \/ ReceivePong(i, m)
    PROVE  ServeStep(i)
<1> DEFINE s == [ROf(i) EXCEPT !.ping = @ /\ ~m.ours]
<1>1. rd[i].pc \in Serving /\ OthersSame
  BY Zenon DEF ReceivePing, ReceivePong, Ready, Complete, Serving
<1>2. ROf(i) \in Connection /\ StageOK(ROf(i))
  BY Zenon, <1>1, ReaderFacts
<1>3. CASE ReceivePing(i, m)
  BY Zenon, <1>1, <1>2, <1>3, PushFollows, AnswerServes DEF ReceivePing
<1>4. CASE ReceivePong(i, m)
  <2>1. s \in Connection /\ s.index = ROf(i).index /\ s.stage = ROf(i).stage
        /\ s.ready = ROf(i).ready /\ s.offered = ROf(i).offered /\ s.open = ROf(i).open
        /\ s.ended = ROf(i).ended
    BY Zenon, <1>2 DEF Connection
  <2>2. conn' = [conn EXCEPT ![rd[i].conn] = s] /\ Continue(i)
    BY Zenon, <1>4 DEF ReceivePong, ROf
  <2>3. Follows(ROf(i), s)
    BY Zenon, <1>2, <2>1 DEF Follows, StageOK
  <2> QED
    BY Zenon, <1>1, <2>2, <2>3, ContinueMoves, MovesServes DEF Changes
<1> QED
  BY Zenon, <1>3, <1>4

(* So is a block, asked for or not.                                        *)
LEMMA BlockServes ==
    ASSUME PeerInv, NEW i \in Slot, NEW m \in Speech, ReceiveBlock(i, m)
    PROVE  ServeStep(i)
<1> DEFINE s == [ROf(i) EXCEPT !.requests = RequestsAfter(ROf(i), m.hash)]
<1>1. rd[i].pc \in Serving /\ OthersSame
  BY Zenon DEF ReceiveBlock, Ready, Complete, Serving
<1>2. ROf(i) \in Connection /\ StageOK(ROf(i))
  BY Zenon, <1>1, ReaderFacts
<1>3. s \in Connection /\ s.index = ROf(i).index /\ s.stage = ROf(i).stage
      /\ s.ready = ROf(i).ready /\ s.offered = ROf(i).offered /\ s.open = ROf(i).open
      /\ s.ended = ROf(i).ended
  BY Zenon, <1>2 DEF Connection, RequestsAfter
<1>4. Follows(ROf(i), s)
  BY Zenon, <1>2, <1>3 DEF Follows, StageOK
<1>5. conn' = [conn EXCEPT ![rd[i].conn] = s]
  BY Zenon DEF ReceiveBlock, ROf
<1>6. (\E why : Finish(i, why)) \/ Forward(i, m)
  BY Zenon DEF ReceiveBlock
<1> QED
  BY Zenon, <1>1, <1>4, <1>5, <1>6, FinishMoves, ForwardMoves, MovesServes DEF Changes

(* So is handing a message to the chain thread, or giving up on it.        *)
LEMMA SendsServes ==
    ASSUME PeerInv, NEW i \in Slot, ReaderSends(i)
    PROVE  ServeStep(i)
<1> DEFINE q == [rd[i] EXCEPT !.pc = "top", !.held = Nothing]
<1>1. rd[i].pc \in Serving /\ UNCHANGED <<slot, occupied, conn, made, cl, wr>>
  BY Zenon DEF ReaderSends, Serving
<1>2. /\ rd[i] \in ReaderState /\ rd[i].conn \in 1 .. made
      /\ inbox \in Seq(Slot \X (Speech \cup {Nothing}))
  BY Zenon, <1>1, ReaderFacts
<1>3. rd[i].held \in Speech \cup {Nothing}
  BY Zenon, <1>2 DEF ReaderState
<1>4. q \in ReaderState /\ q.conn = rd[i].conn /\ q.pc = "top"
  BY Zenon, <1>2 DEF ReaderState, Serving
<1>5. Finish(i, "NodeStopping") \/ rd' = [rd EXCEPT ![i] = q]
  BY Zenon DEF ReaderSends
<1> HIDE DEF q
<1>6. Moves(i)
  BY Zenon, <1>1, <1>4, <1>5, FinishMoves DEF Moves, Serving
<1>7. inbox' \in Seq(Slot \X (Speech \cup {Nothing}))
  <2> DEFINE T == Slot \X (Speech \cup {Nothing})
             item == <<i, rd[i].held>>
  <2>1. item \in T /\ inbox \in Seq(T)
    BY Zenon, <1>2, <1>3
  <2>2. inbox' = inbox \/ inbox' = Append(inbox, item)
    BY Zenon DEF ReaderSends
  <2> HIDE DEF T, item
  <2>3. inbox' \in Seq(T)
    BY <2>1, <2>2
  <2> QED
    BY Zenon, <2>3 DEF T
<1>8. Follows(ROf(i), ROf(i)) /\ conn' = [conn EXCEPT ![rd[i].conn] = ROf(i)]
  BY Zenon, <1>1, <1>2, FollowsItself DEF ROf
<1> QED
  BY Zenon, <1>1, <1>6, <1>7, <1>8 DEF ServeStep, Moves, ROf

(* So is ending the connection once the loop is left.                      *)
LEMMA EndsServes ==
    ASSUME PeerInv, NEW i \in Slot, ReaderEnds(i)
    PROVE  ServeStep(i)
<1> DEFINE d == Disconnected(ROf(i), rd[i].why)
           s == [d EXCEPT !.requests = {}]
           q == [rd[i] EXCEPT !.pc = "release", !.why = "none", !.held = Nothing]
<1>1. rd[i].pc \in Serving /\ OthersSame /\ rd[i].pc = "end"
  BY Zenon DEF ReaderEnds, Serving
<1>2. /\ rd[i] \in ReaderState /\ ROf(i) \in Connection /\ StageOK(ROf(i))
      /\ rd[i].conn \in 1 .. made
      /\ inbox \in Seq(Slot \X (Speech \cup {Nothing}))
  BY Zenon, <1>1, ReaderFacts
<1>3. rd[i].why \in Verdict \ {"none"}
  BY Zenon, <1>1, <1>2 DEF ReaderState, PeerInv, ReaderOK
<1>4. q \in ReaderState /\ q.conn = rd[i].conn /\ q.pc = "release"
  BY Zenon, <1>2 DEF ReaderState, Serving, Verdict
<1>5. conn' = [conn EXCEPT ![rd[i].conn] = s] /\ rd' = [rd EXCEPT ![i] = q]
  BY Zenon, <1>2 DEF ReaderEnds, ROf
<1>6. /\ d \in Connection
      /\ d.index = ROf(i).index /\ d.stage = ROf(i).stage /\ d.ready = ROf(i).ready
      /\ d.offered = ROf(i).offered
      /\ ~d.open /\ d.ended # "none"
  BY Zenon, <1>2, <1>3, DisconnectedOK
<1> HIDE DEF d, q
<1>7. /\ s \in Connection
      /\ s.index = d.index /\ s.stage = d.stage /\ s.ready = d.ready
      /\ s.offered = d.offered
      /\ ~s.open /\ s.ended # "none"
  BY Zenon, <1>6 DEF Connection
<1> HIDE DEF s
<1>8. Follows(ROf(i), s)
  BY Zenon, <1>2, <1>6, <1>7 DEF Follows, StageOK
<1>9. Follows(conn[rd[i].conn], s) /\ q.pc \in Serving
  BY Zenon, <1>4, <1>8 DEF ROf, Serving
<1>10. inbox' \in Seq(Slot \X (Speech \cup {Nothing}))
  BY Zenon, <1>1, <1>2 DEF OthersSame
<1> QED
  BY Zenon, <1>1, <1>4, <1>5, <1>7, <1>9, <1>10 DEF ServeStep, OthersSame

-----------------------------------------------------------------------------
(* The steps that leave the readers and the table alone.                   *)

Unserved(c) == slot[conn[c].index] = c /\ rd[conn[c].index].conn = 0

Fresh(r) == r.stage = "AwaitingVersion" /\ r.outbox = <<>>

(* A connection that no reader has taken stays as it was claimed.          *)
Kept ==
    \/ UNCHANGED conn
    \/ \E c \in 1 .. made : \E s :
          /\ Follows(conn[c], s) /\ conn' = [conn EXCEPT ![c] = s]
          /\ Unserved(c) => Fresh(s)

(* A step that ends connections but moves no reader keeps the invariant.   *)
LEMMA KeptInv ==
    ASSUME PeerInv, Kept, UNCHANGED <<slot, made, rd>>,
           occupied' \in [Kind -> Int], cl' \in [Kind -> Claimer],
           wr' \in [Slot -> WriterState],
           inbox' \in Seq(Slot \X (Speech \cup {Nothing})),
           \A i \in Slot : \/ wr'[i] = wr[i]
                           \/ /\ wr'[i].pc \in {"drain", "write", "vacant"}
                                    <=> wr'[i].conn # 0
                              /\ wr'[i].conn \in {0, slot[i], wr[i].conn}
    PROVE  PeerInv'
<1>1. /\ slot \in [Slot -> Nat] /\ made \in Nat /\ rd \in [Slot -> ReaderState]
      /\ wr \in [Slot -> WriterState] /\ conn \in Seq(Connection) /\ Len(conn) = made
  BY Zenon DEF PeerInv, PeerTypes
<1>2. /\ conn' \in Seq(Connection) /\ Len(conn') = made'
      /\ \A d \in 1 .. made : Follows(conn[d], conn'[d])
      /\ \A d \in 1 .. made : conn'[d] = conn[d] \/ (Unserved(d) => Fresh(conn'[d]))
      /\ TableOK'
  <2>1. CASE UNCHANGED conn
    BY Zenon, <1>1, <2>1, FollowsItself DEF PeerInv, TableOK
  <2>2. ASSUME NEW c \in 1 .. made, NEW s, Follows(conn[c], s),
               conn' = [conn EXCEPT ![c] = s], Unserved(c) => Fresh(s)
        PROVE  <1>2
    <3>1. /\ conn' \in Seq(Connection) /\ Len(conn') = made'
          /\ conn'[c] = s
          /\ \A d \in 1 .. made : d # c => conn'[d] = conn[d]
          /\ \A d \in 1 .. made : Follows(conn[d], conn'[d])
          /\ TableOK'
      BY Zenon, <2>2, OneChanges
    <3> QED
      BY Zenon, <2>2, <3>1
  <2> QED
    BY Zenon, <2>1, <2>2 DEF Kept
<1>3. PeerTypes'
  BY Zenon, <1>1, <1>2 DEF PeerTypes
<1>4. ASSUME NEW d \in 1 .. made
      PROVE  /\ conn[d] \in Connection /\ conn[d].index \in Slot
             /\ conn'[d].index = conn[d].index /\ StageOK(conn'[d])
             /\ conn'[d].open => conn[d].open
             /\ conn'[d].ended = "none" => conn[d].ended = "none"
  <2>1. conn[d] \in Connection /\ Follows(conn[d], conn'[d])
    BY <1>1, <1>2
  <2>2. conn[d].index \in Slot
    BY Zenon, <2>1 DEF Connection
  <2> QED
    BY Zenon, <2>1, <2>2 DEF Follows
<1>5. ReaderOK'
  <2> SUFFICES ASSUME NEW j \in Slot
               PROVE  /\ rd[j].pc \in Serving <=> rd[j].conn # 0
                      /\ rd[j].conn # 0 => slot[j] = rd[j].conn
                      /\ rd[j].pc = "end" => rd[j].why # "none"
                      /\ rd[j].pc = "release" => /\ conn'[rd[j].conn].ended # "none"
                                                 /\ ~conn'[rd[j].conn].open
    BY Zenon DEF ReaderOK
  <2>1. rd[j].conn # 0 => rd[j].conn \in 1 .. made
    BY <1>1 DEF PeerInv, ReaderOK, TableOK
  <2> QED
    BY Zenon, <1>4, <2>1 DEF PeerInv, ReaderOK, Serving
<1>6. WriterOK'
  <2> SUFFICES ASSUME NEW i \in Slot
               PROVE  /\ wr'[i].pc \in {"drain", "write", "vacant"} <=> wr'[i].conn # 0
                      /\ wr'[i].conn # 0 => /\ wr'[i].conn <= made
                                            /\ conn'[wr'[i].conn].index = i
    BY Zenon DEF WriterOK
  <2>1. /\ slot[i] # 0 => slot[i] \in 1 .. made /\ conn[slot[i]].index = i
        /\ wr[i].conn # 0 => wr[i].conn \in 1 .. made /\ conn[wr[i].conn].index = i
    BY SMTT(20), <1>1 DEF PeerInv, TableOK, WriterOK, WriterState
  <2>2. /\ slot[i] # 0 => slot[i] <= made /\ conn'[slot[i]].index = i
        /\ wr[i].conn # 0 => wr[i].conn <= made /\ conn'[wr[i].conn].index = i
    BY SMTT(20), <1>1, <1>4, <2>1
  <2> QED
    BY Zenon, <2>2 DEF PeerInv, WriterOK
<1>7. ConnOK'
  <2> SUFFICES ASSUME NEW d \in 1 .. made
               PROVE  LET r == conn'[d] IN
                      /\ StageOK(r)
                      /\ slot'[r.index] # d => ~r.open
                      /\ slot'[r.index] = d /\ rd'[r.index].conn = 0 =>
                            r.stage = "AwaitingVersion" /\ r.outbox = <<>>
    BY Zenon DEF ConnOK
  <2>1. /\ slot[conn[d].index] # d => ~conn[d].open
        /\ Unserved(d) => Fresh(conn[d])
    BY Zenon DEF PeerInv, ConnOK, Unserved, Fresh
  <2> QED
    BY <1>2, <1>4, <2>1 DEF Unserved, Fresh
<1> QED
  BY Zenon, <1>2, <1>3, <1>5, <1>6, <1>7 DEF PeerInv

(* The types the invariant gives.                                          *)
LEMMA PeerFacts ==
    ASSUME PeerInv
    PROVE  /\ slot \in [Slot -> Nat] /\ occupied \in [Kind -> Int]
           /\ conn \in Seq(Connection) /\ made \in Nat /\ Len(conn) = made
           /\ cl \in [Kind -> Claimer] /\ rd \in [Slot -> ReaderState]
           /\ wr \in [Slot -> WriterState]
           /\ inbox \in Seq(Slot \X (Speech \cup {Nothing}))
BY Zenon DEF PeerInv, PeerTypes

(* A counter's width is positive.                                          *)
LEMMA WordFacts == Word \in Nat \ {0}
BY Zenon, PeerAssumption

(* What a claimer does to its own state.                                   *)
LEMMA ClaimerTypes ==
    ASSUME PeerInv, NEW k \in Kind, NEW pc \in {"poll", "claim", "count", "exit"},
           NEW group \in Netgroup \cup {0}, NEW errors \in Nat
    PROVE  /\ [cl EXCEPT ![k].pc = pc] \in [Kind -> Claimer]
           /\ [cl EXCEPT ![k].pc = pc, ![k].errors = errors] \in [Kind -> Claimer]
           /\ [cl EXCEPT ![k].errors = errors, ![k].pc = pc] \in [Kind -> Claimer]
           /\ [cl EXCEPT ![k].pc = pc, ![k].group = group, ![k].errors = errors]
                 \in [Kind -> Claimer]
<1>1. cl \in [Kind -> Claimer]
  BY Zenon, PeerFacts
<1>2. cl[k] \in Claimer
  BY Zenon, <1>1
<1>3. [cl EXCEPT ![k].pc = pc] \in [Kind -> Claimer]
  BY Zenon, <1>1, <1>2 DEF Claimer
<1>4. [cl EXCEPT ![k].pc = pc, ![k].errors = errors] \in [Kind -> Claimer]
  BY Zenon, <1>1, <1>2 DEF Claimer
<1>5. [cl EXCEPT ![k].errors = errors, ![k].pc = pc] \in [Kind -> Claimer]
  BY Zenon, <1>1, <1>2 DEF Claimer
<1>6. [cl EXCEPT ![k].pc = pc, ![k].group = group, ![k].errors = errors]
         \in [Kind -> Claimer]
  BY Zenon, <1>1, <1>2 DEF Claimer
<1> QED
  BY Zenon, <1>3, <1>4, <1>5, <1>6

(* The connector and the listener, short of a claim, keep the invariant.   *)
LEMMA ClaimersKeep ==
    ASSUME PeerInv,
           \/ \E k \in Kind : \/ ClaimerIdle(k) \/ ClaimCount(k)
                              \/ \E group \in Netgroup : ClaimerTakes(k, group)
           \/ AcceptFails \/ ListenerBegins
    PROVE  PeerInv'
<1>1. UNCHANGED <<slot, conn, made, rd, wr, inbox>>
  BY Zenon DEF ClaimerIdle, ClaimCount, ClaimerTakes, AcceptFails, ListenerBegins
<1>2. Again \in {"poll", "claim", "count", "exit"} /\ "Inbound" \in Kind
  BY Zenon DEF Again, Kind
<1>3. cl' \in [Kind -> Claimer]
  <2>1. ASSUME NEW k \in Kind, ClaimerIdle(k) \/ ClaimCount(k) PROVE <1>3
    <3>1. \/ cl' = [cl EXCEPT ![k].pc = Again, ![k].errors = 0]
          \/ cl' = [cl EXCEPT ![k].pc = Again]
      BY Zenon, <2>1 DEF ClaimerIdle, ClaimCount
    <3> DEFINE pc == Again
    <3>2. pc \in {"poll", "claim", "count", "exit"}
      BY Zenon, <1>2
    <3>3. \/ cl' = [cl EXCEPT ![k].pc = pc, ![k].errors = 0]
          \/ cl' = [cl EXCEPT ![k].pc = pc]
      BY Zenon, <3>1
    <3> HIDE DEF pc
    <3>4. 0 \in Nat /\ 0 \in Netgroup \cup {0}
      BY Zenon
    <3>5. CASE cl' = [cl EXCEPT ![k].pc = pc, ![k].errors = 0]
      BY ZenonT(30), <3>2, <3>4, <3>5, ClaimerTypes
    <3>6. CASE cl' = [cl EXCEPT ![k].pc = pc]
      BY Zenon, <3>2, <3>4, <3>6, ClaimerTypes
    <3> QED
      BY Zenon, <3>3, <3>5, <3>6
  <2>2. ASSUME NEW k \in Kind, NEW group \in Netgroup, ClaimerTakes(k, group) PROVE <1>3
    <3>1. cl' = [cl EXCEPT ![k].pc = "claim", ![k].group = group, ![k].errors = 0]
      BY Zenon, <2>2 DEF ClaimerTakes
    <3> QED
      BY Zenon, <3>1, ClaimerTypes
  <2>3. ASSUME AcceptFails PROVE <1>3
    <3>1. cl["Inbound"].errors \in Nat
      BY Zenon, <1>2, PeerFacts DEF Claimer
    <3> QED
      <4> DEFINE n == cl["Inbound"].errors + 1
                 e == IF n >= MaxAcceptErrors THEN 0 ELSE n
                 pc == IF n >= MaxAcceptErrors THEN "exit" ELSE Again
      <4>1. cl' = [cl EXCEPT !["Inbound"].errors = e, !["Inbound"].pc = pc]
        BY Zenon, <2>3 DEF AcceptFails
      <4>2. e \in Nat /\ pc \in {"poll", "claim", "count", "exit"}
        BY <1>2, <3>1
      <4> HIDE DEF e, pc
      <4>3. 0 \in Netgroup \cup {0}
        BY Zenon
      <4> QED
        BY ZenonT(30), <1>2, <4>1, <4>2, <4>3, ClaimerTypes
  <2>4. ASSUME ListenerBegins PROVE <1>3
    BY Zenon, <1>2, <2>4, ClaimerTypes DEF ListenerBegins
  <2> QED
    BY Zenon, <2>1, <2>2, <2>3, <2>4
<1>4. occupied' \in [Kind -> Int]
  <2>1. occupied \in [Kind -> Int]
    BY Zenon, PeerFacts
  <2>2. ASSUME NEW k \in Kind PROVE (occupied[k] + 1) % Word \in Int
    BY <2>1, WordFacts
  <2>3. \/ UNCHANGED occupied
        \/ \E k \in Kind : occupied' = [occupied EXCEPT ![k] = (occupied[k] + 1) % Word]
    BY Zenon DEF ClaimerIdle, ClaimCount, ClaimerTakes, AcceptFails, ListenerBegins
  <2> QED
    BY Zenon, <2>1, <2>2, <2>3
<1> QED
  BY Zenon, <1>1, <1>3, <1>4, PeerFacts, KeptInv DEF Kept

-----------------------------------------------------------------------------
(* The steps of a writer.                                                  *)

(* A writer's connection is one of its own slot.                           *)
LEMMA WriterFacts ==
    ASSUME PeerInv, NEW i \in Slot, wr[i].conn # 0
    PROVE  /\ wr[i].conn \in 1 .. made /\ WOf(i) \in Connection
           /\ WOf(i).index = i /\ StageOK(WOf(i))
           /\ Unserved(wr[i].conn) => Fresh(WOf(i))
<1>1. wr[i].conn \in 1 .. made /\ WOf(i).index = i
  BY PeerFacts DEF PeerInv, WriterOK, WriterState, WOf
<1> QED
  <2>1. conn[wr[i].conn] \in Connection
    BY <1>1, PeerFacts
  <2>2. StageOK(WOf(i)) /\ (Unserved(wr[i].conn) => Fresh(WOf(i)))
    BY Zenon, <1>1 DEF WOf, PeerInv, ConnOK, Unserved, Fresh
  <2> QED
    BY Zenon, <1>1, <2>1, <2>2 DEF WOf

(* A step of a writer keeps the invariant.                                 *)
LEMMA WriterKeeps ==
    ASSUME PeerInv, NEW i \in Slot, Writer(i)
    PROVE  PeerInv'
<1>1. UNCHANGED <<slot, occupied, made, cl, rd, inbox>>
  BY Zenon DEF Writer, WriterTakes, WriterPops, WriterWrites, WriterParks
<1>2. /\ wr[i] \in WriterState /\ slot[i] \in Nat
      /\ wr[i].pc \in {"drain", "write", "vacant"} <=> wr[i].conn # 0
  BY Zenon, PeerFacts DEF PeerInv, WriterOK
<1> SUFFICES /\ Kept
             /\ \E w \in WriterState :
                   /\ wr' = [wr EXCEPT ![i] = w]
                   /\ w.pc \in {"drain", "write", "vacant"} <=> w.conn # 0
                   /\ w.conn \in {0, slot[i], wr[i].conn}
  <2>1. PICK w \in WriterState :
                   /\ wr' = [wr EXCEPT ![i] = w]
                   /\ w.pc \in {"drain", "write", "vacant"} <=> w.conn # 0
                   /\ w.conn \in {0, slot[i], wr[i].conn}
    BY Zenon
  <2>2. /\ wr' \in [Slot -> WriterState] /\ wr'[i] = w
        /\ \A j \in Slot : j # i => wr'[j] = wr[j]
    BY Zenon, <2>1, PeerFacts
  <2> QED
    BY Zenon, <1>1, <2>1, <2>2, PeerFacts, KeptInv
<1>3. CASE WriterTakes(i)
  <2> DEFINE w == [wr[i] EXCEPT !.pc = "drain", !.conn = slot[i]]
             x == [wr[i] EXCEPT !.pc = "exit"]
  <2>1. Kept /\ wr[i].pc = "wait"
    BY Zenon, <1>3 DEF WriterTakes, Kept
  <2>2. \/ slot[i] # 0 /\ wr' = [wr EXCEPT ![i] = w]
        \/ wr' = [wr EXCEPT ![i] = x]
    BY Zenon, <1>3 DEF WriterTakes
  <2>3. /\ w \in WriterState /\ w.pc = "drain" /\ w.conn = slot[i]
        /\ x \in WriterState /\ x.pc = "exit" /\ x.conn = wr[i].conn
    BY Zenon, <1>2 DEF WriterState
  <2> QED
    BY Zenon, <1>2, <2>1, <2>2, <2>3
<1>4. CASE WriterPops(i)
  <2> DEFINE w == [wr[i] EXCEPT !.pc = "vacant"]
             x == [wr[i] EXCEPT !.pc = "write", !.frame = Head(WOf(i).outbox)]
             s == [WOf(i) EXCEPT !.outbox = Tail(@)]
  <2>1. wr[i].conn # 0 /\ wr[i].pc = "drain"
    BY Zenon, <1>2, <1>4 DEF WriterPops
  <2>2. /\ wr[i].conn \in 1 .. made /\ WOf(i) \in Connection
        /\ StageOK(WOf(i)) /\ (Unserved(wr[i].conn) => Fresh(WOf(i)))
    BY Zenon, <2>1, WriterFacts
  <2>3. \/ wr' = [wr EXCEPT ![i] = w] /\ UNCHANGED conn
        \/ /\ WOf(i).outbox # <<>> /\ wr' = [wr EXCEPT ![i] = x]
           /\ conn' = [conn EXCEPT ![wr[i].conn] = s]
    BY Zenon, <1>4 DEF WriterPops, WOf
  <2>4. w \in WriterState /\ w.pc = "vacant" /\ w.conn = wr[i].conn
    BY Zenon, <1>2 DEF WriterState
  <2>5. CASE WOf(i).outbox # <<>>
    <3>1. WOf(i).outbox \in Seq(SUBSET Hash)
      BY Zenon, <2>2 DEF Connection
    <3>2. Head(WOf(i).outbox) \in SUBSET Hash /\ Tail(WOf(i).outbox) \in Seq(SUBSET Hash)
      BY <2>5, <3>1
    <3>3. x \in WriterState /\ x.pc = "write" /\ x.conn = wr[i].conn
      BY Zenon, <1>2, <3>2 DEF WriterState
    <3>4. /\ s \in Connection /\ s.index = WOf(i).index /\ s.stage = WOf(i).stage
          /\ s.ready = WOf(i).ready /\ s.offered = WOf(i).offered
          /\ s.open = WOf(i).open /\ s.ended = WOf(i).ended
      BY Zenon, <2>2, <3>2 DEF Connection
    <3>5. Follows(conn[wr[i].conn], s)
      BY Zenon, <2>2, <3>4 DEF Follows, StageOK, WOf
    <3>6. ~Unserved(wr[i].conn)
      BY Zenon, <2>2, <2>5 DEF Fresh
    <3> HIDE DEF s, x, w
    <3>7. Kept
      BY Zenon, <2>2, <2>3, <3>5, <3>6 DEF Kept
    <3> QED
      BY Zenon, <2>1, <2>3, <2>4, <3>3, <3>7
  <2> HIDE DEF s, x, w
  <2>6. CASE WOf(i).outbox = <<>>
    BY Zenon, <2>1, <2>3, <2>4, <2>6 DEF Kept
  <2> QED
    BY Zenon, <2>5, <2>6
<1>5. CASE WriterWrites(i)
  <2> DEFINE w == [wr[i] EXCEPT !.pc = "drain", !.frame = {}]
             x == [wr[i] EXCEPT !.pc = "vacant", !.frame = {}]
             s == [WOf(i) EXCEPT !.asked = @ \cup wr[i].frame]
             d == Disconnected(WOf(i), Blame("WriteFailed"))
  <2>1. wr[i].conn # 0 /\ wr[i].pc = "write"
    BY Zenon, <1>2, <1>5 DEF WriterWrites
  <2>2. /\ wr[i].conn \in 1 .. made /\ WOf(i) \in Connection
        /\ StageOK(WOf(i)) /\ (Unserved(wr[i].conn) => Fresh(WOf(i)))
    BY Zenon, <2>1, WriterFacts
  <2>3. \/ wr' = [wr EXCEPT ![i] = w] /\ conn' = [conn EXCEPT ![wr[i].conn] = s]
        \/ wr' = [wr EXCEPT ![i] = x] /\ conn' = [conn EXCEPT ![wr[i].conn] = d]
    BY Zenon, <1>5 DEF WriterWrites, WOf
  <2>4. /\ w \in WriterState /\ w.pc = "drain" /\ w.conn = wr[i].conn
        /\ x \in WriterState /\ x.pc = "vacant" /\ x.conn = wr[i].conn
    BY Zenon, <1>2 DEF WriterState
  <2>5. wr[i].frame \in SUBSET Hash
    BY Zenon, <1>2 DEF WriterState
  <2>6. /\ s \in Connection /\ s.index = WOf(i).index /\ s.stage = WOf(i).stage
        /\ s.ready = WOf(i).ready /\ s.offered = WOf(i).offered
        /\ s.open = WOf(i).open /\ s.ended = WOf(i).ended /\ s.outbox = WOf(i).outbox
    BY Zenon, <2>2, <2>5 DEF Connection
  <2>7. /\ d \in Connection /\ d.index = WOf(i).index /\ d.stage = WOf(i).stage
        /\ d.ready = WOf(i).ready /\ d.offered = WOf(i).offered
        /\ ~d.open /\ d.ended # "none" /\ d.outbox = WOf(i).outbox
    BY Zenon, <2>2, BlameOK, DisconnectedOK
  <2> HIDE DEF s, d, x, w
  <2>8. /\ Follows(conn[wr[i].conn], s) /\ (Unserved(wr[i].conn) => Fresh(s))
        /\ Follows(conn[wr[i].conn], d) /\ (Unserved(wr[i].conn) => Fresh(d))
    BY Zenon, <2>2, <2>6, <2>7 DEF Follows, StageOK, WOf, Fresh
  <2>9. Kept
    BY Zenon, <2>2, <2>3, <2>8 DEF Kept
  <2> QED
    BY Zenon, <2>1, <2>3, <2>4, <2>9
<1>6. CASE WriterParks(i)
  <2> DEFINE w == [wr[i] EXCEPT !.pc = "wait", !.conn = 0]
             d == Dropped(WOf(i))
  <2>1. wr[i].conn # 0 /\ wr[i].pc = "vacant"
    BY Zenon, <1>2, <1>6 DEF WriterParks
  <2>2. wr[i].conn \in 1 .. made /\ WOf(i) \in Connection /\ WOf(i).index = i
    BY Zenon, <2>1, WriterFacts
  <2>3. /\ wr' = [wr EXCEPT ![i] = w]
        /\ \/ UNCHANGED conn
           \/ wr[i].conn # slot[i] /\ conn' = [conn EXCEPT ![wr[i].conn] = d]
    BY Zenon, <1>6 DEF WriterParks, WOf
  <2>4. w \in WriterState /\ w.pc = "wait" /\ w.conn = 0
    BY Zenon, <1>2 DEF WriterState
  <2>5. d \in Connection /\ d.index = WOf(i).index /\ StageOK(d) /\ ~d.open
        /\ d.ended # "none"
    BY Zenon, <2>2, DroppedOK
  <2> HIDE DEF w, d
  <2>6. Follows(conn[wr[i].conn], d)
    BY Zenon, <2>5 DEF Follows, WOf
  <2>7. wr[i].conn # slot[i] => ~Unserved(wr[i].conn)
    BY Zenon, <2>2 DEF Unserved, WOf
  <2>8. Kept
    BY Zenon, <2>2, <2>3, <2>6, <2>7 DEF Kept
  <2> QED
    BY Zenon, <2>3, <2>4, <2>8
<1> QED
  BY Zenon, <1>3, <1>4, <1>5, <1>6 DEF Writer

-----------------------------------------------------------------------------
(* The main and the chain thread.                                          *)

(* The connection in a slot is that slot's.                                *)
LEMMA SlotFacts ==
    ASSUME PeerInv, NEW i \in Slot, slot[i] # 0
    PROVE  LET c == slot[i] IN
           /\ c \in 1 .. made /\ conn[c] \in Connection /\ conn[c].index = i
           /\ StageOK(conn[c]) /\ (Unserved(c) => Fresh(conn[c]))
<1>1. slot[i] \in 1 .. made /\ conn[slot[i]].index = i
  BY PeerFacts DEF PeerInv, TableOK
<1>2. conn[slot[i]] \in Connection
  BY <1>1, PeerFacts
<1>3. StageOK(conn[slot[i]]) /\ (Unserved(slot[i]) => Fresh(conn[slot[i]]))
  BY Zenon, <1>1 DEF PeerInv, ConnOK, Unserved, Fresh
<1> QED
  BY Zenon, <1>1, <1>2, <1>3

(* Disconnecting a slot ends its connection and no other.                  *)
LEMMA DisconnectKept ==
    ASSUME PeerInv, NEW i \in Slot, slot[i] # 0, NEW why,
           conn' = [conn EXCEPT ![slot[i]] = Disconnected(@, Blame(why))]
    PROVE  Kept
<1> DEFINE c == slot[i]
           d == Disconnected(conn[c], Blame(why))
<1>1. /\ c \in 1 .. made /\ conn[c] \in Connection
      /\ StageOK(conn[c]) /\ (Unserved(c) => Fresh(conn[c]))
  BY Zenon, SlotFacts
<1>2. /\ d \in Connection /\ d.index = conn[c].index /\ d.stage = conn[c].stage
      /\ d.ready = conn[c].ready /\ d.offered = conn[c].offered
      /\ ~d.open /\ d.ended # "none" /\ d.outbox = conn[c].outbox
  BY <1>1, BlameOK, DisconnectedOK
<1>3. conn' = [conn EXCEPT ![c] = d]
  BY Zenon
<1> HIDE DEF c, d
<1>4. Follows(conn[c], d) /\ (Unserved(c) => Fresh(d))
  BY Zenon, <1>1, <1>2 DEF Follows, StageOK, Fresh
<1> QED
  BY Zenon, <1>1, <1>3, <1>4 DEF Kept

(* Asking a peer leaves all of its connection but the requests, the outbox *)
(* and whether it has ended.                                               *)
LEMMA AskOK ==
    ASSUME NEW r \in Connection, NEW blocks \in SUBSET Hash
    PROVE  LET s == Ask(r, blocks) IN
           /\ s \in Connection
           /\ s.index = r.index /\ s.stage = r.stage /\ s.ready = r.ready
           /\ s.offered = r.offered /\ s.services = r.services
           /\ s.requests = r.requests \cup blocks
           /\ s.open => r.open
           /\ s.ended = "none" => r.ended = "none"
<1> DEFINE a == [r EXCEPT !.requests = @ \cup blocks]
           p == Push(a, blocks)
           d == Disconnected(p, Blame("OutboxFull"))
<1>1. /\ a \in Connection
      /\ a.index = r.index /\ a.stage = r.stage /\ a.ready = r.ready
      /\ a.offered = r.offered /\ a.services = r.services
      /\ a.requests = r.requests \cup blocks /\ a.open = r.open /\ a.ended = r.ended
  BY Zenon DEF Connection
<1>2. Ask(r, blocks) = IF p.closed THEN d ELSE p
  BY Zenon DEF Ask
<1> HIDE DEF a
<1>3. /\ p \in Connection
      /\ p.index = a.index /\ p.stage = a.stage /\ p.ready = a.ready
      /\ p.offered = a.offered /\ p.services = a.services
      /\ p.requests = a.requests /\ p.open = a.open /\ p.ended = a.ended
  BY Zenon, <1>1, PushOK
<1> HIDE DEF p
<1>4. /\ d \in Connection
      /\ d.index = p.index /\ d.stage = p.stage /\ d.ready = p.ready
      /\ d.offered = p.offered /\ d.services = p.services
      /\ d.requests = p.requests /\ ~d.open /\ d.ended # "none"
  BY <1>3, BlameOK, DisconnectedOK
<1> HIDE DEF d
<1> QED
  BY Zenon, <1>1, <1>2, <1>3, <1>4

(* The chain thread's tick ends connections and nothing more.              *)
LEMMA TickKept ==
    ASSUME PeerInv, Tick
    PROVE  Kept
<1>1. CASE UNCHANGED conn
  BY Zenon, <1>1 DEF Kept
<1>2. ASSUME NEW i \in Slot, slot[i] # 0,
             conn' = [conn EXCEPT ![slot[i]] = Disconnected(@, Blame("BlockStalling"))]
      PROVE  Kept
  BY Zenon, <1>2, DisconnectKept
<1>3. ASSUME NEW i \in Slot, slot[i] # 0, NEW h \in Hash, conn[slot[i]].ready,
             conn' = [conn EXCEPT ![slot[i]] = Ask(@, {h})]
      PROVE  Kept
  <2> DEFINE c == slot[i]
             s == Ask(conn[c], {h})
  <2>1. /\ c \in 1 .. made /\ conn[c] \in Connection
        /\ StageOK(conn[c]) /\ (Unserved(c) => Fresh(conn[c]))
    BY Zenon, <1>3, SlotFacts
  <2>2. /\ s \in Connection
        /\ s.index = conn[c].index /\ s.stage = conn[c].stage /\ s.ready = conn[c].ready
        /\ s.offered = conn[c].offered
        /\ s.open => conn[c].open
        /\ s.ended = "none" => conn[c].ended = "none"
    BY <2>1, AskOK
  <2>3. conn' = [conn EXCEPT ![c] = s] /\ conn[c].ready
    BY Zenon, <1>3
  <2> HIDE DEF c, s
  <2>4. Follows(conn[c], s) /\ ~Unserved(c)
    BY Zenon, <2>1, <2>2, <2>3 DEF Follows, StageOK, Fresh
  <2> QED
    BY Zenon, <2>1, <2>3, <2>4 DEF Kept
<1> QED
  BY Zenon, <1>1, <1>2, <1>3 DEF Tick

(* What is left of the queue once a message is received is a queue.        *)
LEMMA RecvOK ==
    ASSUME PeerInv
    PROVE  Recv \in Seq(Slot \X (Speech \cup {Nothing}))
<1> DEFINE T == Slot \X (Speech \cup {Nothing})
<1>1. inbox \in Seq(T)
  BY Zenon, PeerFacts
<1> HIDE DEF T
<1>2. Recv \in Seq(T)
  BY <1>1 DEF Recv
<1> QED
  BY Zenon, <1>2 DEF T

(* The signal, the main thread and the chain thread keep the invariant.    *)
LEMMA ControlKeeps ==
    ASSUME PeerInv, ControlOK,
           \/ Signal \/ Main \/ Chain \/ ValidationLeaves \/ ControlLeaves
    PROVE  PeerInv'
<1>1. UNCHANGED <<slot, occupied, made, cl, rd, wr>>
  BY Zenon DEF Signal, Main, Chain, ValidationLeaves, ControlLeaves, MainCloses, MainDisconnects,
         MainClosesQueue, MainJoins, MainEnds, ChainTurns, ChainLeaves, ChainFlushes, pvars
<1>2. inbox' = inbox \/ inbox' = Recv
  BY Zenon DEF Signal, Main, Chain, ValidationLeaves, ControlLeaves, MainCloses, MainDisconnects,
         MainClosesQueue, MainJoins, MainEnds, ChainTurns, ChainLeaves, ChainFlushes, pvars
<1>3. inbox' \in Seq(Slot \X (Speech \cup {Nothing}))
  BY Zenon, <1>2, RecvOK, PeerFacts
<1>4. Kept
  <2>1. UNCHANGED conn \/ MainDisconnects \/ Tick
    BY Zenon DEF Signal, Main, Chain, ValidationLeaves, ControlLeaves, MainCloses,
           MainClosesQueue, MainJoins, MainEnds, ChainTurns, ChainLeaves, ChainFlushes, pvars
  <2>2. CASE MainDisconnects
    <3>1. main.left \subseteq Nat /\ main.left # {} /\ main.left \subseteq Slot
      BY Zenon, <2>2, PeerAssumption DEF MainDisconnects, ControlOK
    <3>2. Min(main.left) \in Slot
      BY Zenon, <3>1, LeastNumber
    <3>3. \/ UNCHANGED conn
          \/ /\ slot[Min(main.left)] # 0
             /\ conn' = [conn EXCEPT ![slot[Min(main.left)]] =
                             Disconnected(@, Blame("NodeStopping"))]
      BY Zenon, <2>2 DEF MainDisconnects
    <3> QED
      BY Zenon, <3>2, <3>3, DisconnectKept DEF Kept
  <2> QED
    BY Zenon, <2>1, <2>2, TickKept DEF Kept
<1> QED
  BY Zenon, <1>1, <1>3, <1>4, PeerFacts, KeptInv

-----------------------------------------------------------------------------
(* The steps that take a slot, and that give it back.                      *)

(* A reader with no connection stays without one.                          *)
LEMMA IdleInv ==
    ASSUME PeerInv, NEW i \in Slot, NEW pc \in {"wait", "exit"},
           rd[i].pc \in {"wait", "discount"},
           rd' = [rd EXCEPT ![i].pc = pc],
           UNCHANGED <<slot, conn, made, cl, wr, inbox>>,
           occupied' \in [Kind -> Int]
    PROVE  PeerInv'
<1>1. /\ rd \in [Slot -> ReaderState] /\ rd[i].conn = 0 /\ pc \notin Serving
      /\ pc \notin {"end", "release"}
  BY Zenon, PeerFacts DEF PeerInv, ReaderOK, Serving
<1>2. /\ rd' \in [Slot -> ReaderState]
      /\ \A j \in Slot : rd'[j].conn = rd[j].conn
      /\ \A j \in Slot : rd'[j] = rd[j] \/ (rd'[j].conn = 0 /\ rd'[j].pc = pc)
  BY Zenon, <1>1 DEF ReaderState
<1>3. PeerTypes'
  BY Zenon, <1>2, PeerFacts DEF PeerTypes
<1>4. ReaderOK'
  BY Zenon, <1>1, <1>2 DEF PeerInv, ReaderOK
<1>5. TableOK' /\ WriterOK'
  BY Zenon DEF PeerInv, TableOK, WriterOK
<1>6. ConnOK'
  <2> SUFFICES ASSUME NEW d \in 1 .. made
               PROVE  LET r == conn[d] IN
                      /\ StageOK(r)
                      /\ slot[r.index] # d => ~r.open
                      /\ slot[r.index] = d /\ rd'[r.index].conn = 0 =>
                            r.stage = "AwaitingVersion" /\ r.outbox = <<>>
    BY Zenon DEF ConnOK
  <2>1. conn[d] \in Connection
    BY PeerFacts
  <2>2. conn[d].index \in Slot
    BY Zenon, <2>1 DEF Connection
  <2> QED
    BY Zenon, <1>2, <2>2 DEF PeerInv, ConnOK
<1> QED
  BY Zenon, <1>3, <1>4, <1>5, <1>6 DEF PeerInv

(* A reader that leaves, or counts its slot down, keeps the invariant.     *)
LEMMA LeavesInv ==
    ASSUME PeerInv, NEW i \in Slot, ReaderLeaves(i) \/ ReaderDiscounts(i)
    PROVE  PeerInv'
<1>1. CASE ReaderLeaves(i)
  BY Zenon, <1>1, PeerFacts, IdleInv DEF ReaderLeaves, OthersSame
<1>2. CASE ReaderDiscounts(i)
  <2>1. KindOf(i) \in Kind /\ occupied \in [Kind -> Int]
    BY Zenon, KindFacts, PeerFacts
  <2>2. (occupied[KindOf(i)] - 1) % Word \in Int
    BY <2>1, WordFacts
  <2>3. occupied' \in [Kind -> Int]
    BY Zenon, <1>2, <2>1, <2>2 DEF ReaderDiscounts
  <2> QED
    BY Zenon, <1>2, <2>3, IdleInv DEF ReaderDiscounts
<1> QED
  BY Zenon, <1>1, <1>2

(* A reader that takes its slot's connection keeps the invariant.          *)
LEMMA TakesInv ==
    ASSUME PeerInv, NEW i \in Slot, ReaderTakes(i)
    PROVE  PeerInv'
<1> DEFINE c == slot[i]
           s == IF i \in Outbound THEN Push(conn[c], {}) ELSE conn[c]
           refused == i \in Outbound /\ s.closed
           q == [rd[i] EXCEPT !.conn = c, !.pc = IF refused THEN "end" ELSE "top",
                              !.why = IF refused THEN Blame("OutboxFull") ELSE @]
<1>1. /\ rd[i].pc = "wait" /\ c # 0
      /\ conn' = [conn EXCEPT ![c] = s]
      /\ rd' = [rd EXCEPT ![i] = q]
      /\ UNCHANGED <<slot, occupied, made, cl, wr, inbox>>
  BY Zenon DEF ReaderTakes, OthersSame
<1>2. /\ c \in 1 .. made /\ conn[c] \in Connection /\ conn[c].index = i
      /\ StageOK(conn[c])
  BY Zenon, <1>1, SlotFacts
<1>3. Follows(conn[c], s)
  BY Zenon, <1>2, PushFollows, FollowsItself
<1>4. /\ q \in ReaderState /\ q.conn = c /\ q.pc \in {"end", "top"}
      /\ q.pc = "end" => q.why # "none"
  <2>1. rd[i] \in ReaderState /\ c \in Nat
    BY Zenon, <1>2, PeerFacts
  <2> HIDE DEF c, refused
  <2> QED
    BY Zenon, <2>1, BlameOK DEF ReaderState, Serving, Verdict
<1> HIDE DEF c, s, q
<1>5. /\ conn' \in Seq(Connection) /\ Len(conn') = made'
      /\ conn'[c] = s
      /\ \A d \in 1 .. made : d # c => conn'[d] = conn[d]
      /\ \A d \in 1 .. made : Follows(conn[d], conn'[d])
      /\ TableOK'
  BY Zenon, <1>1, <1>2, <1>3, OneChanges
<1>6. /\ rd' \in [Slot -> ReaderState] /\ rd'[i] = q
      /\ \A j \in Slot : j # i => rd'[j] = rd[j]
  BY Zenon, <1>1, <1>4, PeerFacts
<1>7. PeerTypes'
  BY Zenon, <1>1, <1>5, <1>6, PeerFacts DEF PeerTypes
<1>8. ReaderOK'
  <2> SUFFICES ASSUME NEW j \in Slot
               PROVE  /\ rd'[j].pc \in Serving <=> rd'[j].conn # 0
                      /\ rd'[j].conn # 0 => slot'[j] = rd'[j].conn
                      /\ rd'[j].pc = "end" => rd'[j].why # "none"
                      /\ rd'[j].pc = "release" => /\ conn'[rd'[j].conn].ended # "none"
                                                 /\ ~conn'[rd'[j].conn].open
    BY Zenon DEF ReaderOK
  <2>1. CASE j = i
    BY Zenon, <1>1, <1>4, <1>6, <2>1 DEF c, Serving
  <2>2. CASE j # i
    <3>1. rd'[j] = rd[j] /\ slot'[j] = slot[j]
      BY Zenon, <1>1, <1>6, <2>2
    <3>2. rd[j].conn # 0 => rd[j].conn \in 1 .. made /\ conn[rd[j].conn].index = j
      BY PeerFacts DEF PeerInv, ReaderOK, TableOK
    <3>3. rd[j].conn # 0 => conn'[rd[j].conn] = conn[rd[j].conn]
      BY ZenonT(30), <1>2, <1>5, <2>2, <3>2
    <3> QED
      BY ZenonT(30), <3>1, <3>3 DEF PeerInv, ReaderOK, Serving
  <2> QED
    BY Zenon, <2>1, <2>2
<1>9. WriterOK'
  BY <1>1, <1>5, PeerFacts DEF PeerInv, WriterOK, Follows, WriterState
<1>10. ConnOK'
  <2> SUFFICES ASSUME NEW d \in 1 .. made
               PROVE  LET r == conn'[d] IN
                      /\ StageOK(r)
                      /\ slot'[r.index] # d => ~r.open
                      /\ slot'[r.index] = d /\ rd'[r.index].conn = 0 =>
                            r.stage = "AwaitingVersion" /\ r.outbox = <<>>
    BY Zenon, <1>1 DEF ConnOK
  <2>1. Follows(conn[d], conn'[d])
    BY Zenon, <1>5
  <2>2. CASE d = c
    <3>1. conn'[d].index = i /\ slot'[i] = d /\ rd'[i].conn # 0
      BY ZenonT(30), <1>1, <1>2, <1>4, <1>6, <2>1, <2>2 DEF Follows, c
    <3> QED
      BY Zenon, <2>1, <3>1 DEF Follows
  <2>3. CASE d # c
    <3>1. conn'[d] = conn[d]
      BY Zenon, <1>5, <2>3
    <3>2. conn[d] \in Connection
      BY Zenon, <2>1, <3>1 DEF Follows
    <3>3. conn[d].index \in Slot
      BY Zenon, <3>2 DEF Connection
    <3>4. conn[d].index = i => slot[i] # d
      BY Zenon, <2>3 DEF c
    <3> QED
      BY SMTT(20), <1>1, <1>6, <3>1, <3>3, <3>4 DEF PeerInv, ConnOK
  <2> QED
    BY Zenon, <2>2, <2>3
<1> QED
  BY Zenon, <1>5, <1>7, <1>8, <1>9, <1>10 DEF PeerInv

(* A connection leaves its slot ended; the last of its threads drops it.   *)
LEMMA ReleasesInv ==
    ASSUME PeerInv, NEW i \in Slot, ReaderReleases(i)
    PROVE  PeerInv'
<1> DEFINE c == rd[i].conn
           s == IF wr[i].conn = c THEN conn[c] ELSE Dropped(conn[c])
           q == [rd[i] EXCEPT !.pc = "discount", !.conn = 0]
<1>1. rd[i].pc = "release" /\ rd[i].pc \in Serving
  BY Zenon DEF ReaderReleases, Serving
<1>2. /\ c \in 1 .. made /\ slot[i] = c /\ conn[c] \in Connection
      /\ conn[c].index = i /\ StageOK(conn[c]) /\ rd[i] \in ReaderState
  BY Zenon, <1>1, ReaderFacts DEF ROf
<1>3. ~conn[c].open
  BY Zenon, <1>1 DEF PeerInv, ReaderOK
<1>4. /\ slot' = [slot EXCEPT ![i] = 0] /\ rd' = [rd EXCEPT ![i] = q]
      /\ UNCHANGED <<occupied, made, cl, wr, inbox>>
  BY Zenon DEF ReaderReleases
<1>5. conn' = [conn EXCEPT ![c] = s] /\ Follows(conn[c], s) /\ ~s.open
  <2>1. conn' = IF wr[i].conn = c THEN conn ELSE [conn EXCEPT ![c] = Dropped(conn[c])]
    BY Zenon, <1>2 DEF ReaderReleases
  <2>2. CASE wr[i].conn = c
    BY Zenon, <1>2, <1>3, <2>1, <2>2, FollowsItself
  <2>3. CASE wr[i].conn # c
    <3>1. conn' = [conn EXCEPT ![c] = s] /\ s = Dropped(conn[c])
      BY Zenon, <2>1, <2>3
    <3>2. Dropped(conn[c]) \in Connection /\ Dropped(conn[c]).index = conn[c].index
          /\ StageOK(Dropped(conn[c])) /\ ~Dropped(conn[c]).open
          /\ Dropped(conn[c]).ended # "none"
      BY Zenon, <1>2, DroppedOK
    <3> HIDE DEF s
    <3> QED
      BY Zenon, <3>1, <3>2 DEF Follows
  <2> QED
    BY Zenon, <2>2, <2>3
<1>6. q \in ReaderState /\ q.conn = 0 /\ q.pc = "discount"
  BY Zenon, <1>2 DEF ReaderState
<1> HIDE DEF c, s, q
<1>7. /\ conn \in Seq(Connection) /\ Len(conn) = made /\ slot \in [Slot -> Nat]
      /\ rd \in [Slot -> ReaderState] /\ wr \in [Slot -> WriterState] /\ made \in Nat
  BY Zenon, PeerFacts
<1>8. /\ conn' \in Seq(Connection) /\ Len(conn') = made' /\ conn'[c] = s
      /\ \A d \in 1 .. made : d # c => conn'[d] = conn[d]
  BY <1>2, <1>4, <1>5, <1>7 DEF Follows
<1>9. \A d \in 1 .. made : Follows(conn[d], conn'[d])
  BY Zenon, <1>5, <1>8, FollowsItself
<1>10. /\ rd' \in [Slot -> ReaderState] /\ rd'[i] = q
       /\ \A j \in Slot : j # i => rd'[j] = rd[j]
       /\ slot' \in [Slot -> Nat] /\ slot'[i] = 0
       /\ \A j \in Slot : j # i => slot'[j] = slot[j]
  BY Zenon, <1>4, <1>6, <1>7
<1>11. PeerTypes'
  BY Zenon, <1>4, <1>8, <1>10, PeerFacts DEF PeerTypes
<1>12. TableOK'
  BY SMTT(20), <1>4, <1>7, <1>9, <1>10 DEF PeerInv, TableOK, Follows
<1>13. ReaderOK'
  <2> SUFFICES ASSUME NEW j \in Slot
               PROVE  /\ rd'[j].pc \in Serving <=> rd'[j].conn # 0
                      /\ rd'[j].conn # 0 => slot'[j] = rd'[j].conn
                      /\ rd'[j].pc = "end" => rd'[j].why # "none"
                      /\ rd'[j].pc = "release" => /\ conn'[rd'[j].conn].ended # "none"
                                                 /\ ~conn'[rd'[j].conn].open
    BY Zenon DEF ReaderOK
  <2>1. CASE j = i
    BY ZenonT(30), <1>6, <1>10, <2>1 DEF Serving
  <2>2. CASE j # i
    <3>1. rd'[j] = rd[j] /\ slot'[j] = slot[j]
      BY Zenon, <1>10, <2>2
    <3>2. rd[j].conn # 0 => rd[j].conn \in 1 .. made /\ conn[rd[j].conn].index = j
      BY PeerFacts DEF PeerInv, ReaderOK, TableOK
    <3>3. rd[j].conn # 0 => conn'[rd[j].conn] = conn[rd[j].conn]
      BY ZenonT(30), <1>2, <1>8, <2>2, <3>2
    <3> QED
      BY Zenon, <3>1, <3>3 DEF PeerInv, ReaderOK, Serving
  <2> QED
    BY Zenon, <2>1, <2>2
<1>14. WriterOK'
  BY SMTT(20), <1>4, <1>7, <1>9 DEF PeerInv, WriterOK, Follows, WriterState
<1>15. ConnOK'
  <2> SUFFICES ASSUME NEW d \in 1 .. made
               PROVE  LET r == conn'[d] IN
                      /\ StageOK(r)
                      /\ slot'[r.index] # d => ~r.open
                      /\ slot'[r.index] = d /\ rd'[r.index].conn = 0 =>
                            r.stage = "AwaitingVersion" /\ r.outbox = <<>>
    BY Zenon, <1>4 DEF ConnOK
  <2>1. Follows(conn[d], conn'[d])
    BY Zenon, <1>9
  <2>2. CASE d = c
    <3>1. conn'[d] = s /\ StageOK(s) /\ s.index = i
      BY ZenonT(30), <1>2, <1>5, <1>8, <2>2 DEF Follows
    <3>2. slot'[i] # d /\ ~s.open
      BY SMTT(20), <1>2, <1>5, <1>10, <2>2
    <3> QED
      BY Zenon, <3>1, <3>2
  <2>3. CASE d # c
    <3>1. conn'[d] = conn[d]
      BY ZenonT(30), <1>8, <2>3
    <3>2. conn[d] \in Connection
      BY Zenon, <2>1, <3>1 DEF Follows
    <3>3. conn[d].index \in Slot
      BY Zenon, <3>2 DEF Connection
    <3>4. conn[d].index = i => slot[i] # d
      BY Zenon, <1>2, <2>3
    <3> QED
      BY SMTT(20), <1>10, <3>1, <3>3, <3>4 DEF PeerInv, ConnOK
  <2> QED
    BY Zenon, <2>2, <2>3
<1> QED
  BY Zenon, <1>11, <1>12, <1>13, <1>14, <1>15 DEF PeerInv

(* A claim makes a connection that no thread has seen.                     *)
LEMMA ClaimInv ==
    ASSUME PeerInv, NEW k \in Kind, Claim(k)
    PROVE  PeerInv'
<1>1. cl \in [Kind -> Claimer] /\ cl[k] \in Claimer
      /\ Again \in {"poll", "claim", "count", "exit"}
  BY Zenon, PeerFacts DEF Again
<1>2. cl' \in [Kind -> Claimer]
  <2> DEFINE pc == Again
  <2>1. cl' = [cl EXCEPT ![k].pc = pc] \/ cl' = [cl EXCEPT ![k].pc = "count"]
    BY Zenon DEF Claim
  <2>2. pc \in {"poll", "claim", "count", "exit"}
    BY Zenon, <1>1
  <2> HIDE DEF pc
  <2> QED
    BY <1>1, <2>1, <2>2 DEF Claimer
<1>3. CASE UNCHANGED <<slot, conn, made>>
  BY Zenon, <1>2, <1>3, PeerFacts, KeptInv DEF Kept, Claim
<1>4. ASSUME NEW i \in Free(k),
             conn' = Append(conn, NewConnection(i, cl[k].group)),
             made' = made + 1, slot' = [slot EXCEPT ![i] = made + 1]
      PROVE  PeerInv'
  <2> DEFINE n == NewConnection(i, cl[k].group)
  <2>1. i \in Slot /\ slot[i] = 0 /\ UNCHANGED <<occupied, rd, wr, inbox>>
    BY Zenon, <1>4, KindFacts DEF Free, Claim
  <2>2. cl[k].group \in Netgroup \cup {0}
    BY Zenon, <1>1 DEF Claimer
  <2>3. n \in Connection /\ StageOK(n)
    BY Zenon, <2>1, <2>2, NewConnectionOK
  <2>4. n.index = i /\ n.stage = "AwaitingVersion" /\ n.outbox = <<>>
    BY Zenon DEF NewConnection
  <2>5. conn' = Append(conn, n)
    BY Zenon, <1>4
  <2> HIDE DEF n
  <2>6. /\ conn \in Seq(Connection) /\ Len(conn) = made /\ slot \in [Slot -> Nat]
        /\ rd \in [Slot -> ReaderState] /\ wr \in [Slot -> WriterState] /\ made \in Nat
    BY Zenon, PeerFacts
  <2>7. /\ conn' \in Seq(Connection) /\ Len(conn') = made' /\ conn'[made + 1] = n
        /\ \A d \in 1 .. made : conn'[d] = conn[d]
    BY SMTT(20), <1>4, <2>3, <2>5, <2>6
  <2>8. /\ slot' \in [Slot -> Nat] /\ slot'[i] = made + 1
        /\ \A j \in Slot : j # i => slot'[j] = slot[j]
        /\ made' \in Nat /\ made < made'
    BY <1>4, <2>1, <2>6
  <2>9. PeerTypes'
    BY Zenon, <1>2, <2>1, <2>7, <2>8, PeerFacts DEF PeerTypes
  <2>10. TableOK'
    <3> SUFFICES ASSUME NEW j \in Slot, slot'[j] # 0
                 PROVE  slot'[j] <= made' /\ conn'[slot'[j]].index = j
      BY Zenon DEF TableOK
    <3>1. CASE j = i
      BY SMTT(20), <1>4, <2>4, <2>6, <2>7, <2>8, <3>1
    <3>2. CASE j # i
      <4>1. slot[j] \in 1 .. made /\ conn[slot[j]].index = j
        BY <2>6, <2>8, <3>2 DEF PeerInv, TableOK
      <4> QED
        BY SMTT(20), <1>4, <2>6, <2>7, <2>8, <3>2, <4>1
    <3> QED
      BY Zenon, <3>1, <3>2
  <2>11. ReaderOK'
    <3> SUFFICES ASSUME NEW j \in Slot
                 PROVE  /\ rd[j].pc \in Serving <=> rd[j].conn # 0
                        /\ rd[j].conn # 0 => slot'[j] = rd[j].conn
                        /\ rd[j].pc = "end" => rd[j].why # "none"
                        /\ rd[j].pc = "release" => /\ conn'[rd[j].conn].ended # "none"
                                                   /\ ~conn'[rd[j].conn].open
      BY Zenon, <2>1 DEF ReaderOK
    <3>1. rd[j].conn # 0 => rd[j].conn \in 1 .. made /\ slot[j] = rd[j].conn
      <4>1. rd[j].conn # 0 => slot[j] = rd[j].conn
        BY Zenon DEF PeerInv, ReaderOK
      <4>2. slot[j] # 0 => slot[j] \in 1 .. made
        BY <2>6 DEF PeerInv, TableOK
      <4> QED
        BY Zenon, <4>1, <4>2
    <3>2. rd[j].conn # 0 => j # i
      BY ZenonT(30), <2>1, <3>1
    <3> QED
      BY Zenon, <2>7, <2>8, <3>1, <3>2 DEF PeerInv, ReaderOK, Serving
  <2>12. WriterOK'
    <3> SUFFICES ASSUME NEW j \in Slot
                 PROVE  /\ wr[j].pc \in {"drain", "write", "vacant"} <=> wr[j].conn # 0
                        /\ wr[j].conn # 0 => /\ wr[j].conn <= made'
                                             /\ conn'[wr[j].conn].index = j
      BY Zenon, <2>1 DEF WriterOK
    <3>1. wr[j].conn # 0 => wr[j].conn \in 1 .. made /\ conn[wr[j].conn].index = j
      BY <2>6 DEF PeerInv, WriterOK, WriterState
    <3> QED
      BY SMTT(20), <1>4, <2>6, <2>7, <3>1 DEF PeerInv, WriterOK
  <2>13. ConnOK'
    <3> SUFFICES ASSUME NEW d \in 1 .. made'
                 PROVE  LET r == conn'[d] IN
                        /\ StageOK(r)
                        /\ slot'[r.index] # d => ~r.open
                        /\ slot'[r.index] = d /\ rd[r.index].conn = 0 =>
                              r.stage = "AwaitingVersion" /\ r.outbox = <<>>
      BY Zenon, <2>1 DEF ConnOK
    <3>1. CASE d = made + 1
      BY Zenon, <2>3, <2>4, <2>7, <2>8, <3>1
    <3>2. CASE d \in 1 .. made
      <4>1. conn'[d] = conn[d] /\ conn[d] \in Connection
        BY <2>6, <2>7, <3>2
      <4>2. conn[d].index \in Slot
        BY Zenon, <4>1 DEF Connection
      <4>3. slot'[conn[d].index] = d <=> slot[conn[d].index] = d
        BY SMTT(20), <2>1, <2>6, <2>8, <3>2, <4>2
      <4> QED
        BY ZenonT(30), <3>2, <4>1, <4>3 DEF PeerInv, ConnOK
    <3>3. d = made + 1 \/ d \in 1 .. made
      BY <1>4, <2>6
    <3> QED
      BY Zenon, <3>1, <3>2, <3>3
  <2> QED
    BY Zenon, <2>9, <2>10, <2>11, <2>12, <2>13 DEF PeerInv
<1> QED
  BY Zenon, <1>3, <1>4 DEF Claim

-----------------------------------------------------------------------------
(* Where the connections are, after every step.                            *)

(* A node that starts has no connection.                                   *)
LEMMA InitPeerInv == NodeInit => PeerInv
<1> SUFFICES ASSUME NodeInit PROVE PeerInv
  BY Zenon
<1>1. /\ slot = [i \in Slot |-> 0] /\ occupied = [k \in Kind |-> 0]
      /\ conn = <<>> /\ made = 0
      /\ cl = [k \in Kind |-> [pc |-> "poll", group |-> 0, errors |-> 0]]
      /\ rd = [i \in Slot |-> [pc |-> "wait", conn |-> 0, full |-> FALSE,
                               held |-> Nothing, why |-> "none"]]
      /\ wr = [i \in Slot |-> [pc |-> "wait", conn |-> 0, frame |-> {}]]
      /\ inbox = <<>>
  BY Zenon DEF NodeInit, PeerInit
<1>2. PeerTypes
  <2>1. conn \in Seq(Connection) /\ Len(conn) = made
    BY <1>1
  <2>2. inbox \in Seq(Slot \X (Speech \cup {Nothing}))
    BY <1>1
  <2>3. cl \in [Kind -> Claimer] /\ occupied \in [Kind -> Int]
    BY <1>1 DEF Claimer
  <2>4. rd \in [Slot -> ReaderState]
    BY Zenon, <1>1 DEF ReaderState, Verdict
  <2>5. wr \in [Slot -> WriterState]
    BY Zenon, <1>1 DEF WriterState
  <2> QED
    <3>1. slot \in [Slot -> Nat] /\ made \in Nat
      BY Zenon, <1>1
    <3> QED
      BY Zenon, <2>1, <2>2, <2>3, <2>4, <2>5, <3>1 DEF PeerTypes
<1>3. TableOK /\ ReaderOK /\ WriterOK /\ ConnOK
  BY <1>1 DEF TableOK, ReaderOK, WriterOK, ConnOK, Serving
<1> QED
  BY Zenon, <1>2, <1>3 DEF PeerInv

(* A reader at its work, or one that takes, leaves or gives back its slot. *)
LEMMA ReaderSteps ==
    ASSUME PeerInv, NEW i \in Slot, Reader(i) \/ Hear(i)
    PROVE  \/ ServeStep(i)
           \/ ReaderTakes(i) \/ ReaderLeaves(i)
           \/ ReaderReleases(i) \/ ReaderDiscounts(i)
<1>1. CASE ReaderStops(i) \/ ReadIdle(i) \/ ReadEof(i) \/ ReadBroken(i)
  BY Zenon, <1>1, QuietServes
<1>2. CASE ReaderTicks(i) \/ ReaderSends(i) \/ ReaderEnds(i)
  BY Zenon, <1>2, TicksServes, SendsServes, EndsServes
<1>3. CASE Receive(i)
  <2>1. PICK m \in Speech :
        \/ ReadOverCap(i, m) \/ ReceiveVersion(i, m) \/ ReceiveVerack(i, m)
        \/ ReceiveNegotiation(i, m) \/ ReceiveIgnored(i, m)
        \/ ReceivePing(i, m) \/ ReceivePong(i, m) \/ ReceiveBlock(i, m)
        \/ ReceiveForwarded(i, m) \/ ReceiveRefused(i, m)
    BY Zenon, <1>3 DEF Receive
  <2> QED
    BY Zenon, <2>1, QuietServes, OverCapServes, VersionServes, VerackServes, PingPongServes,
       BlockServes
<1> QED
  BY Zenon, <1>1, <1>2, <1>3 DEF Reader, Hear

(* Every step of a reader keeps the invariant.                             *)
LEMMA ServingInv ==
    ASSUME PeerInv, NEW i \in Slot, Reader(i) \/ Hear(i)
    PROVE  PeerInv'
BY Zenon, ReaderSteps, ServeStepInv, TakesInv, LeavesInv, ReleasesInv

(* Every step of the node keeps what is said of the connections.           *)
LEMMA NextPeerInv ==
    ASSUME PeerInv, ControlOK, [NodeNext]_vars
    PROVE  PeerInv'
<1>1. CASE UNCHANGED vars
  <2>1. UNCHANGED pvars
    BY Zenon, <1>1 DEF vars
  <2> QED
    BY Zenon, <2>1, PeerFacts, KeptInv DEF Kept, pvars
<1>2. CASE Claimers
  BY Zenon, <1>2, ClaimersKeep, ClaimInv DEF Claimers
<1>3. ASSUME NEW i \in Slot, Reader(i) \/ Hear(i) \/ Writer(i) PROVE PeerInv'
  BY Zenon, <1>3, ServingInv, WriterKeeps
<1>4. CASE \/ Signal \/ Main \/ Chain \/ ValidationLeaves \/ ControlLeaves
  BY Zenon, <1>4, ControlKeeps
<1>5. CASE ListenerBegins
  BY Zenon, <1>5, ClaimersKeep
<1> QED
  BY Zenon, <1>1, <1>2, <1>3, <1>4, <1>5 DEF NodeNext, Peers, Stopped

-----------------------------------------------------------------------------
(* The bound on the connections made.                                      *)

Claiming == {k \in Kind : cl[k].pc = "claim"}

(* At most two threads claim slots.                                        *)
LEMMA ClaimingFinite ==
    /\ IsFiniteSet(Claiming) /\ Cardinality(Claiming) \in Nat
    /\ \A S : S \subseteq Claiming => /\ IsFiniteSet(S) /\ Cardinality(S) \in Nat
                                      /\ Cardinality(S) <= Cardinality(Claiming)
<1>1. IsFiniteSet(Kind)
  <2>1. IsFiniteSet({"Inbound"}) /\ Kind = {"Inbound"} \cup {"Outbound"}
    BY Zenon, FS_Singleton DEF Kind
  <2> QED
    BY Zenon, <2>1, FS_AddElement
<1>2. IsFiniteSet(Claiming)
  BY Zenon, <1>1, FS_Subset DEF Claiming
<1> QED
  BY Zenon, <1>2, FS_Subset, FS_CardinalityType

(* Every step keeps the number of connections within its bound.            *)
LEMMA NextMade ==
    ASSUME PeerInv, MadeOK, [NodeNext]_vars
    PROVE  MadeOK'
<1>0. /\ cl \in [Kind -> Claimer] /\ made \in Nat /\ MaxConn \in Nat
      /\ made + Cardinality(Claiming) <= MaxConn
  BY Zenon, PeerFacts, PeerAssumption DEF MadeOK, Claiming
<1>1. SUFFICES \/ made' = made /\ Claiming' \subseteq Claiming
               \/ \E k \in Kind : /\ Claiming' = Claiming \cup {k} /\ made' = made
                                  /\ made + Cardinality(Claiming) < MaxConn
               \/ \E k \in Claiming : Claiming' = Claiming \ {k} /\ made' = made + 1
  <2>1. MadeOK' <=> made' + Cardinality(Claiming') <= MaxConn
    BY Zenon DEF MadeOK, Claiming
  <2>2. CASE made' = made /\ Claiming' \subseteq Claiming
    BY SMTT(20), <1>0, <2>1, <2>2, ClaimingFinite
  <2>3. ASSUME NEW k \in Kind, Claiming' = Claiming \cup {k}, made' = made,
               made + Cardinality(Claiming) < MaxConn
        PROVE  MadeOK'
    <3>1. Cardinality(Claiming') \in {Cardinality(Claiming), Cardinality(Claiming) + 1}
      BY Zenon, <2>3, ClaimingFinite, FS_AddElement
    <3> QED
      BY SMTT(20), <1>0, <2>1, <2>3, <3>1, ClaimingFinite
  <2>4. ASSUME NEW k \in Claiming, Claiming' = Claiming \ {k}, made' = made + 1
        PROVE  MadeOK'
    <3>1. Cardinality(Claiming') = Cardinality(Claiming) - 1
      BY Zenon, <2>4, ClaimingFinite, FS_RemoveElement
    <3> QED
      BY <1>0, <2>1, <2>4, <3>1, ClaimingFinite
  <2> QED
    BY Zenon, <1>1, <2>2, <2>3, <2>4
<1>2. ASSUME NEW k \in Kind, ClaimerIdle(k) \/ ClaimCount(k)
      PROVE  made' = made /\ Claiming' \subseteq Claiming
  BY <1>0, <1>2 DEF ClaimerIdle, ClaimCount, Again, Claiming, Claimer
<1>3. ASSUME AcceptFails \/ ListenerBegins
      PROVE  made' = made /\ Claiming' \subseteq Claiming
  BY <1>0, <1>3 DEF AcceptFails, ListenerBegins, Again, Claiming, Claimer
<1>4. ASSUME NEW k \in Kind, NEW group, ClaimerTakes(k, group)
      PROVE  /\ Claiming' = Claiming \cup {k} /\ made' = made
             /\ made + Cardinality(Claiming) < MaxConn
  BY Zenon, <1>0, <1>4 DEF ClaimerTakes, Claiming, Claimer
<1>5. ASSUME NEW k \in Kind, Claim(k)
      PROVE  /\ k \in Claiming /\ Claiming' = Claiming \ {k}
             /\ made' = made \/ made' = made + 1
  BY <1>0, <1>5 DEF Claim, Claiming, Claimer, Again
<1>6. ASSUME UNCHANGED <<made, cl>> PROVE made' = made /\ Claiming' \subseteq Claiming
  BY Zenon, <1>6 DEF Claiming
<1>7. CASE Claimers \/ ListenerBegins
  BY Zenon, <1>2, <1>3, <1>4, <1>5, <1>7 DEF Claimers
<1>8. CASE UNCHANGED vars
  BY Zenon, <1>6, <1>8 DEF vars, pvars
<1>9. ASSUME NEW i \in Slot, Reader(i) \/ Hear(i) \/ Writer(i)
      PROVE  UNCHANGED <<made, cl>>
  <2>1. CASE Writer(i)
    BY Zenon, <2>1 DEF Writer, WriterTakes, WriterPops, WriterWrites, WriterParks
  <2>2. CASE ServeStep(i)
    BY Zenon, <2>2 DEF ServeStep
  <2>3. CASE \/ ReaderTakes(i) \/ ReaderLeaves(i)
             \/ ReaderReleases(i) \/ ReaderDiscounts(i)
    BY Zenon, <2>3 DEF ReaderTakes, ReaderLeaves, ReaderReleases, ReaderDiscounts, OthersSame
  <2> QED
    BY Zenon, <1>9, <2>1, <2>2, <2>3, ReaderSteps
<1>10. CASE \/ Signal \/ Main \/ Chain \/ ValidationLeaves \/ ControlLeaves
  <2>1. UNCHANGED <<made, cl>>
    BY Zenon, <1>10 DEF Signal, Main, Chain, ValidationLeaves, ControlLeaves, MainCloses,
       MainDisconnects, MainClosesQueue, MainJoins, MainEnds, ChainTurns, ChainLeaves,
       ChainFlushes, pvars
  <2> QED
    BY Zenon, <1>6, <2>1
<1> QED
  BY Zenon, <1>6, <1>7, <1>8, <1>9, <1>10 DEF NodeNext, Peers, Stopped

-----------------------------------------------------------------------------
(* The threads of the node.                                                *)

(* A peer thread that has left takes no further step.                      *)
LEMMA ExitedStays ==
    ASSUME PeerInv, AllExited
    PROVE  ~Peers /\ ~ListenerBegins /\ ~Chain /\ ~ControlLeaves
<1>1. ~Claimers /\ ~ListenerBegins
  BY Zenon DEF AllExited, Claimers, ClaimerIdle, ClaimerTakes, AcceptFails, Claim, ClaimCount,
         ListenerBegins, Kind
<1>2. ASSUME NEW i \in Slot PROVE ~Writer(i)
  BY Zenon DEF AllExited, Writer, WriterTakes, WriterPops, WriterWrites, WriterParks
<1>3. ASSUME NEW i \in Slot PROVE ~Reader(i) /\ ~Hear(i)
  <2>1. rd[i].pc = "exit"
    BY Zenon DEF AllExited
  <2>2. ~ServeStep(i)
    BY Zenon, <2>1 DEF ServeStep, Serving
  <2>3. ~(\/ ReaderTakes(i) \/ ReaderLeaves(i)
          \/ ReaderReleases(i) \/ ReaderDiscounts(i))
    BY Zenon, <2>1 DEF ReaderTakes, ReaderLeaves, ReaderReleases, ReaderDiscounts
  <2> QED
    BY Zenon, <2>2, <2>3, ReaderSteps
<1>4. ~Chain /\ ~ControlLeaves
  BY Zenon DEF AllExited, Chain, ChainTurns, ChainLeaves, ChainFlushes, ControlLeaves
<1> QED
  BY Zenon, <1>1, <1>2, <1>3, <1>4 DEF Peers

(* At the start every thread runs.                                         *)
LEMMA InitControl == NodeInit => ControlOK
BY DEF NodeInit, ControlOK

(* Every step keeps the order the threads leave in.                        *)
LEMMA NextControl ==
    ASSUME PeerInv, ControlOK, [NodeNext]_vars
    PROVE  ControlOK'
<1>1. ASSUME UNCHANGED nvars,
             AllExited => AllExited' \/ ~(main.pc \in {"validation", "done"} /\ ~late)
      PROVE  ControlOK'
  BY Zenon, <1>1 DEF ControlOK, nvars
<1>2. CASE UNCHANGED vars
  <2>1. UNCHANGED nvars /\ (AllExited => AllExited')
    BY Zenon, <1>2 DEF vars, pvars, nvars, AllExited
  <2> QED
    BY Zenon, <1>1, <2>1
<1>3. CASE (Peers /\ UNCHANGED nvars) \/ ListenerBegins
  <2>1. UNCHANGED nvars /\ ~AllExited
    BY Zenon, <1>3, ExitedStays DEF ListenerBegins
  <2> QED
    BY Zenon, <1>1, <2>1
<1>4. CASE Signal
  BY Zenon, <1>4 DEF Signal, ControlOK, AllExited, pvars
<1>5. CASE MainCloses
  BY Zenon, <1>5 DEF MainCloses, ControlOK
<1>6. CASE MainDisconnects
  BY Zenon, <1>6 DEF MainDisconnects, ControlOK
<1>7. CASE MainClosesQueue
  BY Zenon, <1>7 DEF MainClosesQueue, ControlOK
<1>8. CASE MainJoins
  BY Zenon, <1>8 DEF MainJoins, ControlOK, AllExited, pvars
<1>9. CASE MainEnds
  BY Zenon, <1>9 DEF MainEnds, ControlOK, AllExited, pvars
<1>10. CASE Chain
  <2>1. ~AllExited
    BY Zenon, <1>10, ExitedStays
  <2>2. /\ UNCHANGED <<main, va, synced, late>> /\ ch' \in {"top", "flush", "exit"}
        /\ ch' = "exit" /\ dirty' => broken'
    BY Zenon, <1>10 DEF Chain, ChainTurns, ChainLeaves, ChainFlushes, ControlOK
  <2> QED
    BY Zenon, <2>1, <2>2 DEF ControlOK
<1>11. CASE ValidationLeaves
  BY Zenon, <1>11 DEF ValidationLeaves, ControlOK, AllExited, pvars
<1>12. CASE ControlLeaves
  <2>1. ~AllExited
    BY Zenon, <1>12, ExitedStays
  <2> QED
    BY Zenon, <1>12, <2>1 DEF ControlLeaves, ControlOK
<1> QED
  BY ZenonT(30), <1>2, <1>3, <1>4, <1>5, <1>6, <1>7, <1>8, <1>9, <1>10, <1>11, <1>12
  DEF NodeNext, Main, Stopped

-----------------------------------------------------------------------------
(* The theorems.                                                           *)

(* The invariant holds at the start.                                       *)
LEMMA InitThreadInv == NodeInit => ThreadInv
<1> SUFFICES ASSUME NodeInit PROVE ThreadInv
  BY Zenon
<1>1. PeerInv /\ ControlOK
  BY Zenon, InitPeerInv, InitControl
<1>2. made = 0 /\ \A k \in Kind : cl[k].pc = "poll"
  BY Zenon DEF NodeInit, PeerInit
<1>3. MadeOK
  <2>1. Claiming = {} /\ MaxConn \in Nat
    BY Zenon, <1>2, PeerAssumption DEF Claiming
  <2>2. Cardinality(Claiming) = 0
    BY Zenon, <2>1, FS_EmptySet
  <2>3. MadeOK <=> made + Cardinality(Claiming) <= MaxConn
    BY Zenon DEF MadeOK, Claiming
  <2> QED
    BY <1>2, <2>1, <2>2, <2>3
<1> QED
  BY Zenon, <1>1, <1>3 DEF ThreadInv

(* The invariant holds in every reachable state: each connection is in its *)
(* slot, with the reader and the writer that serve it, or ended and out of *)
(* it, whatever order the peer threads, the chain thread and the shutdown  *)
(* take their steps in (slots.rs, net.rs, runtime/mod.rs).                 *)
THEOREM ThreadInvariant == NodeSpec => []ThreadInv
<1>1. ThreadInv /\ [NodeNext]_vars => ThreadInv'
  BY Zenon, NextPeerInv, NextMade, NextControl DEF ThreadInv
<1> QED
  BY <1>1, InitThreadInv, PTL DEF NodeSpec

(* A reader past wait_for_connection has its slot's connection, so that    *)
(* the slot it releases is its own (net.rs reader, slots.rs release).      *)
THEOREM ReaderHoldsItsSlotTheorem == NodeSpec => []ReaderHoldsItsSlot
<1>1. ThreadInv => ReaderHoldsItsSlot
  BY Zenon DEF ThreadInv, PeerInv, ReaderOK, ReaderHoldsItsSlot
<1> QED
  BY <1>1, ThreadInvariant, PTL

-----------------------------------------------------------------------------
(* What is counted.                                                        *)

NodeInv == ThreadInv /\ SlotsCounted

-----------------------------------------------------------------------------
(* Counting modulo the width of a counter.                                 *)

(* Division with remainder.                                                *)
LEMMA Quotient ==
    ASSUME NEW W \in Int, W > 0, NEW x \in Int
    PROVE  /\ x \div W \in Int /\ x % W \in 0 .. W - 1
           /\ x = W * (x \div W) + (x % W)
OBVIOUS

(* The remainder of a multiple and a bit.                                  *)
LEMMA Remainder ==
    ASSUME NEW W \in Nat \ {0}, NEW q \in Int, NEW m \in 0 .. W - 1
    PROVE  (W * q + m) % W = m
OBVIOUS

(* The order of counting and of wrapping around does not matter.           *)
LEMMA CountUp ==
    ASSUME NEW x \in Int
    PROVE  ((x % Word) + 1) % Word = (x + 1) % Word
<1> DEFINE W == Word
           q == x \div W
           m == x % W
<1>1. W \in Nat \ {0} /\ W \in Int /\ W > 0
  BY WordFacts
<1>2. q \in Int /\ m \in 0 .. W - 1 /\ x = W * q + m
  BY Zenon, <1>1, Quotient
<1> SUFFICES (m + 1) % W = (x + 1) % W
  BY Zenon
<1> HIDE DEF W, q, m
<1>3. CASE m + 1 < W
  <2>1. x + 1 = W * q + (m + 1) /\ m + 1 = W * 0 + (m + 1) /\ m + 1 \in 0 .. W - 1
    BY <1>1, <1>2, <1>3
  <2> QED
    BY SMTT(20), <1>1, <1>2, <2>1, Remainder
<1>4. CASE m + 1 = W
  <2>1. x + 1 = W * (q + 1) + 0 /\ m + 1 = W * 1 + 0
    BY <1>1, <1>2, <1>4
  <2>2. 0 \in 0 .. W - 1 /\ q + 1 \in Int /\ 1 \in Int
    BY <1>1, <1>2
  <2>3. (W * (q + 1) + 0) % W = 0 /\ (W * 1 + 0) % W = 0
    BY Zenon, <1>1, <2>2, Remainder
  <2> QED
    BY Zenon, <2>1, <2>3
<1> QED
  BY SMTT(20), <1>1, <1>2, <1>3, <1>4

(* The same for counting down.                                             *)
LEMMA CountDown ==
    ASSUME NEW x \in Int
    PROVE  ((x % Word) - 1) % Word = (x - 1) % Word
<1> DEFINE W == Word
           q == x \div W
           m == x % W
<1>1. W \in Nat \ {0} /\ W \in Int /\ W > 0
  BY WordFacts
<1>2. q \in Int /\ m \in 0 .. W - 1 /\ x = W * q + m
  BY Zenon, <1>1, Quotient
<1> SUFFICES (m - 1) % W = (x - 1) % W
  BY Zenon
<1> HIDE DEF W, q, m
<1>3. CASE m > 0
  <2>1. x - 1 = W * q + (m - 1) /\ m - 1 = W * 0 + (m - 1) /\ m - 1 \in 0 .. W - 1
    BY <1>1, <1>2, <1>3
  <2> QED
    BY SMTT(20), <1>1, <1>2, <2>1, Remainder
<1>4. CASE m = 0
  <2>1. x - 1 = W * (q - 1) + (W - 1) /\ m - 1 = W * (-1) + (W - 1)
    BY <1>1, <1>2, <1>4
  <2>2. W - 1 \in 0 .. W - 1 /\ q - 1 \in Int /\ -1 \in Int
    BY <1>1, <1>2
  <2>3. (W * (q - 1) + (W - 1)) % W = W - 1 /\ (W * (-1) + (W - 1)) % W = W - 1
    BY Zenon, <1>1, <2>2, Remainder
  <2> QED
    BY Zenon, <2>1, <2>3
<1> QED
  BY SMTT(20), <1>1, <1>2, <1>3, <1>4

-----------------------------------------------------------------------------
(* The counters.                                                           *)

Taken(k) == {i \in SlotsOf(k) : slot[i] # 0}
Leaving(k) == {i \in SlotsOf(k) : rd[i].pc = "discount"}
Uncounted(k) == IF cl[k].pc = "count" THEN 1 ELSE 0
Balance(k) == Cardinality(Taken(k)) + Cardinality(Leaving(k)) - Uncounted(k)

(* The counters count the slots taken, less the one not counted yet, plus  *)
(* the ones being left.                                                    *)
LEMMA CountedIsBalance ==
    /\ SlotsCounted <=> \A k \in Kind : occupied[k] = Balance(k) % Word
    /\ SlotsCounted' <=> \A k \in Kind : occupied'[k] = Balance(k)' % Word
BY Zenon DEF SlotsCounted, Balance, Taken, Leaving, Uncounted

(* The slots of a kind are finitely many.                                  *)
LEMMA FiniteSlots ==
    ASSUME NEW k \in Kind, NEW S, S \subseteq SlotsOf(k)
    PROVE  /\ IsFiniteSet(S) /\ Cardinality(S) \in Nat
           /\ Cardinality(S) <= Cardinality(Slot)
<1>1. S \subseteq Slot /\ IsFiniteSet(Slot)
  BY Zenon, KindFacts, PeerAssumption
<1> QED
  BY Zenon, <1>1, FS_Subset, FS_CardinalityType

(* A slot enters or leaves a set of slots.                                 *)
LEMMA OneMore ==
    ASSUME NEW k \in Kind, NEW S, NEW T, S \subseteq SlotsOf(k), NEW i, i \notin S,
           T = S \cup {i}
    PROVE  Cardinality(T) = Cardinality(S) + 1
BY Zenon, FiniteSlots, FS_AddElement

(* A set of slots without one of them has one element less.                *)
LEMMA OneLess ==
    ASSUME NEW k \in Kind, NEW S, NEW T, S \subseteq SlotsOf(k), NEW i, i \in S,
           T = S \ {i}
    PROVE  Cardinality(T) = Cardinality(S) - 1
BY Zenon, FiniteSlots, FS_RemoveElement

(* What the counters should say is an integer.                             *)
LEMMA BalanceType ==
    ASSUME NEW k \in Kind
    PROVE  /\ Cardinality(Taken(k)) \in Nat /\ Cardinality(Leaving(k)) \in Nat
           /\ Uncounted(k) \in {0, 1} /\ Balance(k) \in Int
<1>1. Cardinality(Taken(k)) \in Nat /\ Cardinality(Leaving(k)) \in Nat
  BY Zenon, FiniteSlots DEF Taken, Leaving
<1>2. Uncounted(k) \in {0, 1}
  BY Zenon DEF Uncounted
<1> QED
  BY <1>1, <1>2 DEF Balance

(* A step that takes no slot and gives none back.                          *)
Uninvolved ==
    /\ UNCHANGED occupied
    /\ \A i \in Slot : /\ slot'[i] # 0 <=> slot[i] # 0
                       /\ rd'[i].pc = "discount" <=> rd[i].pc = "discount"
    /\ \A k \in Kind : cl'[k].pc = "count" <=> cl[k].pc = "count"

(* A step that moves no slot, reader or claimer past a count leaves it     *)
(* right.                                                                  *)
LEMMA UninvolvedCounted ==
    ASSUME SlotsCounted, Uninvolved
    PROVE  SlotsCounted'
<1> SUFFICES ASSUME NEW k \in Kind PROVE Balance(k)' = Balance(k)
  BY Zenon, CountedIsBalance DEF Uninvolved
<1>1. Taken(k)' = Taken(k) /\ Leaving(k)' = Leaving(k) /\ Uncounted(k)' = Uncounted(k)
  BY Zenon, KindFacts DEF Taken, Leaving, Uncounted, Uninvolved
<1> QED
  BY Zenon, <1>1 DEF Balance

(* A claimed slot is counted up once.                                      *)
LEMMA ClaimersCounted ==
    ASSUME PeerInv, SlotsCounted, Claimers \/ ListenerBegins
    PROVE  SlotsCounted'
<1>0. cl \in [Kind -> Claimer] /\ "Inbound" \in Kind
  BY Zenon, PeerFacts DEF Kind
<1>1. ASSUME NEW k \in Kind, ClaimerIdle(k) PROVE SlotsCounted'
  <2>1. Uninvolved
    BY Zenon, <1>0, <1>1 DEF ClaimerIdle, Uninvolved, Again, Claimer
  <2> QED
    BY Zenon, <2>1, UninvolvedCounted
<1>2. ASSUME NEW k \in Kind, NEW group, ClaimerTakes(k, group) PROVE SlotsCounted'
  <2>1. Uninvolved
    BY Zenon, <1>0, <1>2 DEF ClaimerTakes, Uninvolved, Claimer
  <2> QED
    BY Zenon, <2>1, UninvolvedCounted
<1>3. CASE AcceptFails
  <2>1. Uninvolved
    BY Zenon, <1>0, <1>3 DEF AcceptFails, Uninvolved, Again, Claimer
  <2> QED
    BY Zenon, <2>1, UninvolvedCounted
<1>4. CASE ListenerBegins
  <2>1. Uninvolved
    BY Zenon, <1>0, <1>4 DEF ListenerBegins, Uninvolved, Claimer
  <2> QED
    BY Zenon, <2>1, UninvolvedCounted
<1>5. ASSUME NEW k \in Kind, Claim(k) PROVE SlotsCounted'
  <2>1. cl[k].pc = "claim" /\ UNCHANGED <<occupied, rd>>
    BY Zenon, <1>5 DEF Claim
  <2>2. CASE cl' = [cl EXCEPT ![k].pc = Again] /\ UNCHANGED slot
    <3>1. Uninvolved
      BY Zenon, <1>0, <2>1, <2>2 DEF Uninvolved, Again, Claimer
    <3> QED
      BY Zenon, <3>1, UninvolvedCounted
  <2>3. ASSUME NEW i \in Free(k), slot' = [slot EXCEPT ![i] = made + 1],
               cl' = [cl EXCEPT ![k].pc = "count"]
        PROVE  SlotsCounted'
    <3>1. i \in SlotsOf(k) /\ i \in Slot /\ slot[i] = 0 /\ made + 1 # 0
      BY <2>3, KindFacts, PeerFacts DEF Free
    <3>2. /\ slot'[i] # 0 /\ \A j \in Slot : j # i => slot'[j] = slot[j]
          /\ cl'[k].pc = "count" /\ \A l \in Kind : l # k => cl'[l] = cl[l]
      BY Zenon, <1>0, <2>3, <3>1, PeerFacts DEF Claimer
    <3> SUFFICES ASSUME NEW l \in Kind PROVE Balance(l)' = Balance(l)
      BY Zenon, <2>1, CountedIsBalance
    <3>3. Leaving(l)' = Leaving(l)
      BY Zenon, <2>1 DEF Leaving
    <3>4. CASE l = k
      <4>1. Taken(l)' = Taken(l) \cup {i} /\ i \notin Taken(l) /\ Taken(l) \subseteq SlotsOf(l)
        BY Zenon, <3>1, <3>2, <3>4, KindFacts DEF Taken
      <4>2. Cardinality(Taken(l)') = Cardinality(Taken(l)) + 1
        BY Zenon, <4>1, OneMore
      <4>3. Uncounted(l) = 0 /\ Uncounted(l)' = 1
        BY Zenon, <2>1, <3>2, <3>4 DEF Uncounted
      <4> QED
        BY SMTT(20), <3>3, <4>2, <4>3, BalanceType DEF Balance
    <3>5. CASE l # k
      <4>1. i \notin SlotsOf(l)
        BY Zenon, <3>1, <3>5, KindFacts
      <4>2. Taken(l)' = Taken(l) /\ Uncounted(l)' = Uncounted(l)
        BY Zenon, <3>2, <3>5, <4>1, KindFacts DEF Taken, Uncounted
      <4> QED
        BY Zenon, <3>3, <4>2 DEF Balance
    <3> QED
      BY Zenon, <3>4, <3>5
  <2> QED
    BY Zenon, <1>5, <2>2, <2>3 DEF Claim
<1>6. ASSUME NEW k \in Kind, ClaimCount(k) PROVE SlotsCounted'
  <2>1. /\ cl[k].pc = "count" /\ UNCHANGED <<slot, rd>>
        /\ occupied' = [occupied EXCEPT ![k] = (@ + 1) % Word]
        /\ cl' = [cl EXCEPT ![k].pc = Again]
    BY Zenon, <1>6 DEF ClaimCount
  <2>2. /\ cl'[k].pc # "count" /\ \A l \in Kind : l # k => cl'[l] = cl[l]
    BY Zenon, <1>0, <2>1 DEF Claimer, Again
  <2> SUFFICES ASSUME NEW l \in Kind PROVE occupied'[l] = Balance(l)' % Word
    BY Zenon, CountedIsBalance
  <2>3. Taken(l)' = Taken(l) /\ Leaving(l)' = Leaving(l)
    BY Zenon, <2>1 DEF Taken, Leaving
  <2>4. occupied[l] = Balance(l) % Word /\ occupied \in [Kind -> Int]
    BY Zenon, CountedIsBalance, PeerFacts
  <2>5. CASE l = k
    <3>1. Uncounted(l) = 1 /\ Uncounted(l)' = 0
      BY Zenon, <2>1, <2>2, <2>5 DEF Uncounted
    <3>2. Balance(l)' = Balance(l) + 1 /\ Balance(l) \in Int
      BY <2>3, <3>1, BalanceType DEF Balance
    <3>3. occupied'[l] = (occupied[l] + 1) % Word
      BY Zenon, <2>1, <2>4, <2>5
    <3> QED
      BY Zenon, <2>4, <3>2, <3>3, CountUp
  <2>6. CASE l # k
    <3>1. Uncounted(l)' = Uncounted(l) /\ occupied'[l] = occupied[l]
      BY Zenon, <2>1, <2>2, <2>4, <2>6 DEF Uncounted
    <3> QED
      BY Zenon, <2>3, <2>4, <3>1 DEF Balance
  <2> QED
    BY Zenon, <2>5, <2>6
<1> QED
  BY Zenon, <1>1, <1>2, <1>3, <1>4, <1>5, <1>6 DEF Claimers

(* Serving a connection counts nothing.                                    *)
LEMMA ServeStepCounted ==
    ASSUME PeerInv, SlotsCounted, NEW i \in Slot, ServeStep(i)
    PROVE  SlotsCounted'
<1>1. PICK q : rd' = [rd EXCEPT ![i] = q] /\ q.pc \in Serving
  BY Zenon DEF ServeStep
<1>2. rd[i].pc \in Serving /\ UNCHANGED <<slot, occupied, cl>>
  BY Zenon DEF ServeStep
<1>3. rd'[i] = q /\ \A j \in Slot : j # i => rd'[j] = rd[j]
  BY Zenon, <1>1, PeerFacts
<1>4. Uninvolved
  BY Zenon, <1>1, <1>2, <1>3 DEF Uninvolved, Serving
<1> QED
  BY Zenon, <1>4, UninvolvedCounted

(* A released slot is counted down once.                                   *)
LEMMA ReaderCounted ==
    ASSUME PeerInv, SlotsCounted, NEW i \in Slot,
           \/ ReaderTakes(i) \/ ReaderLeaves(i)
           \/ ReaderReleases(i) \/ ReaderDiscounts(i)
    PROVE  SlotsCounted'
<1>0. rd \in [Slot -> ReaderState] /\ slot \in [Slot -> Nat]
  BY Zenon, PeerFacts
<1>1. CASE ReaderTakes(i) \/ ReaderLeaves(i)
  <2>1. UNCHANGED <<slot, occupied, cl>> /\ rd[i].pc = "wait"
    BY Zenon, <1>1 DEF ReaderTakes, ReaderLeaves, OthersSame
  <2>2. rd'[i].pc # "discount" /\ \A j \in Slot : j # i => rd'[j] = rd[j]
    BY <1>0, <1>1 DEF ReaderTakes, ReaderLeaves, ReaderState
  <2>3. Uninvolved
    BY Zenon, <2>1, <2>2 DEF Uninvolved
  <2> QED
    BY Zenon, <2>3, UninvolvedCounted
<1>2. CASE ReaderReleases(i)
  <2>1. /\ rd[i].pc = "release" /\ UNCHANGED <<occupied, cl>>
        /\ slot' = [slot EXCEPT ![i] = 0]
        /\ rd' = [rd EXCEPT ![i].pc = "discount", ![i].conn = 0]
    BY Zenon, <1>2 DEF ReaderReleases
  <2>2. slot[i] # 0
    BY Zenon, <2>1 DEF PeerInv, ReaderOK, Serving
  <2>3. /\ slot'[i] = 0 /\ rd'[i].pc = "discount"
        /\ \A j \in Slot : j # i => slot'[j] = slot[j] /\ rd'[j] = rd[j]
    BY Zenon, <1>0, <2>1 DEF ReaderState
  <2> SUFFICES ASSUME NEW k \in Kind PROVE Balance(k)' = Balance(k)
    BY Zenon, <2>1, CountedIsBalance
  <2>4. Uncounted(k)' = Uncounted(k)
    BY Zenon, <2>1 DEF Uncounted
  <2>5. CASE i \in SlotsOf(k)
    <3>1. /\ Taken(k)' = Taken(k) \ {i} /\ i \in Taken(k) /\ Taken(k) \subseteq SlotsOf(k)
          /\ Leaving(k)' = Leaving(k) \cup {i} /\ i \notin Leaving(k)
          /\ Leaving(k) \subseteq SlotsOf(k)
      BY Zenon, <2>1, <2>2, <2>3, <2>5, KindFacts DEF Taken, Leaving
    <3>2. Cardinality(Taken(k)') = Cardinality(Taken(k)) - 1
      BY Zenon, <3>1, OneLess
    <3>3. Cardinality(Leaving(k)') = Cardinality(Leaving(k)) + 1
      BY Zenon, <3>1, OneMore
    <3> QED
      BY <2>4, <3>2, <3>3, BalanceType DEF Balance
  <2>6. CASE i \notin SlotsOf(k)
    <3>1. Taken(k)' = Taken(k) /\ Leaving(k)' = Leaving(k)
      BY Zenon, <2>3, <2>6, KindFacts DEF Taken, Leaving
    <3> QED
      BY Zenon, <2>4, <3>1 DEF Balance
  <2> QED
    BY Zenon, <2>5, <2>6
<1>3. CASE ReaderDiscounts(i)
  <2>1. /\ rd[i].pc = "discount" /\ UNCHANGED <<slot, cl>>
        /\ occupied' = [occupied EXCEPT ![KindOf(i)] = (@ - 1) % Word]
        /\ rd' = [rd EXCEPT ![i].pc = "wait"]
    BY Zenon, <1>3 DEF ReaderDiscounts
  <2>2. rd'[i].pc # "discount" /\ \A j \in Slot : j # i => rd'[j] = rd[j]
    BY Zenon, <1>0, <2>1 DEF ReaderState
  <2> SUFFICES ASSUME NEW k \in Kind PROVE occupied'[k] = Balance(k)' % Word
    BY Zenon, CountedIsBalance
  <2>3. occupied[k] = Balance(k) % Word /\ occupied \in [Kind -> Int]
    BY Zenon, CountedIsBalance, PeerFacts
  <2>4. Uncounted(k)' = Uncounted(k) /\ Taken(k)' = Taken(k)
    BY Zenon, <2>1 DEF Uncounted, Taken
  <2>5. CASE k = KindOf(i)
    <3>1. i \in SlotsOf(k)
      BY Zenon, <2>5, KindFacts
    <3>2. Leaving(k)' = Leaving(k) \ {i} /\ i \in Leaving(k) /\ Leaving(k) \subseteq SlotsOf(k)
      BY Zenon, <2>1, <2>2, <3>1, KindFacts DEF Leaving
    <3>3. Cardinality(Leaving(k)') = Cardinality(Leaving(k)) - 1
      BY Zenon, <3>2, OneLess
    <3>4. Balance(k)' = Balance(k) - 1 /\ Balance(k) \in Int
      BY <2>4, <3>3, BalanceType DEF Balance
    <3>5. occupied'[k] = (occupied[k] - 1) % Word
      BY Zenon, <2>1, <2>3, <2>5
    <3> QED
      BY Zenon, <2>3, <3>4, <3>5, CountDown
  <2>6. CASE k # KindOf(i)
    <3>1. i \notin SlotsOf(k)
      BY Zenon, <2>6, KindFacts
    <3>2. Leaving(k)' = Leaving(k)
      BY Zenon, <2>2, <3>1, KindFacts DEF Leaving
    <3>3. occupied'[k] = occupied[k]
      BY Zenon, <2>1, <2>3, <2>6, KindFacts
    <3> QED
      BY Zenon, <2>3, <2>4, <3>2, <3>3 DEF Balance
  <2> QED
    BY Zenon, <2>5, <2>6
<1> QED
  BY Zenon, <1>1, <1>2, <1>3

(* Every step leaves the counts right.                                     *)
LEMMA NextCounted ==
    ASSUME PeerInv, SlotsCounted, [NodeNext]_vars
    PROVE  SlotsCounted'
<1>1. ASSUME UNCHANGED <<slot, occupied, cl, rd>> PROVE SlotsCounted'
  BY Zenon, <1>1, UninvolvedCounted DEF Uninvolved
<1>2. CASE UNCHANGED vars
  BY Zenon, <1>1, <1>2 DEF vars, pvars
<1>3. CASE Claimers \/ ListenerBegins
  BY Zenon, <1>3, ClaimersCounted
<1>4. ASSUME NEW i \in Slot, Reader(i) \/ Hear(i) PROVE SlotsCounted'
  BY Zenon, <1>4, ReaderSteps, ServeStepCounted, ReaderCounted
<1>5. ASSUME NEW i \in Slot, Writer(i) PROVE SlotsCounted'
  BY Zenon, <1>1, <1>5 DEF Writer, WriterTakes, WriterPops, WriterWrites, WriterParks
<1>6. CASE \/ Signal \/ Main \/ Chain \/ ValidationLeaves \/ ControlLeaves
  <2>1. UNCHANGED <<slot, occupied, cl, rd>>
    BY Zenon, <1>6 DEF Signal, Main, Chain, ValidationLeaves, ControlLeaves, MainCloses,
       MainDisconnects, MainClosesQueue, MainJoins, MainEnds, ChainTurns, ChainLeaves,
       ChainFlushes, pvars
  <2> QED
    BY Zenon, <1>1, <2>1
<1> QED
  BY Zenon, <1>2, <1>3, <1>4, <1>5, <1>6 DEF NodeNext, Peers, Stopped

-----------------------------------------------------------------------------
(* The theorems.                                                           *)

(* At the start nothing is taken and nothing counted.                      *)
LEMMA InitCounted == NodeInit => SlotsCounted
<1> SUFFICES ASSUME NodeInit PROVE SlotsCounted
  BY Zenon
<1>2. /\ slot = [i \in Slot |-> 0] /\ occupied = [k \in Kind |-> 0]
      /\ \A k \in Kind : cl[k].pc = "poll"
      /\ \A i \in Slot : rd[i].pc = "wait"
  BY Zenon DEF NodeInit, PeerInit
<1> SUFFICES ASSUME NEW k \in Kind PROVE occupied[k] = Balance(k) % Word
  BY Zenon, CountedIsBalance
<1>3. Taken(k) = {} /\ Leaving(k) = {} /\ Uncounted(k) = 0
  BY Zenon, <1>2, KindFacts DEF Taken, Leaving, Uncounted
<1>4. Balance(k) = 0
  BY <1>3, FS_EmptySet DEF Balance
<1>5. 0 % Word = 0
  BY WordFacts
<1> QED
  BY Zenon, <1>2, <1>4, <1>5

(* The thread invariant and the counts hold together.                      *)
LEMMA NodeInvariant == NodeSpec => []NodeInv
<1>1. NodeInv /\ [NodeNext]_vars => SlotsCounted'
  BY Zenon, NextCounted DEF NodeInv, ThreadInv
<1> QED
  BY <1>1, InitCounted, ThreadInvariant, PTL DEF NodeSpec, NodeInv

(* The counters of the slot table count, modulo their width, the slots     *)
(* taken, but for the claims and the releases that are between the lock    *)
(* and the counter (slots.rs claim, release).                              *)
THEOREM SlotsCountedTheorem == NodeSpec => []SlotsCounted
<1>1. NodeInv => SlotsCounted
  BY Zenon DEF NodeInv
<1> QED
  BY <1>1, NodeInvariant, PTL

(* A shutdown that met its deadline left no served connection open, no     *)
(* counter off, no header uncommitted that the index did not refuse, and   *)
(* the undo files synced (runtime/mod.rs shutdown_all, join_all).          *)
THEOREM CleanStopTheorem == NodeSpec => []CleanStop
<1>1. ASSUME NodeInv, main.pc = "done" PROVE synced
  BY Zenon, <1>1 DEF NodeInv, ThreadInv, ControlOK
<1>2. ASSUME NodeInv, main.pc = "done", ~late
      PROVE  AllExited /\ (dirty => broken)
  BY Zenon, <1>2 DEF NodeInv, ThreadInv, ControlOK, AllExited
<1>3. ASSUME NodeInv, AllExited, NEW k \in Kind
      PROVE  occupied[k] = Cardinality({i \in SlotsOf(k) : slot[i] # 0})
  <2>1. occupied[k] = Balance(k) % Word
    BY Zenon, <1>3, CountedIsBalance DEF NodeInv
  <2>2. Leaving(k) = {} /\ Uncounted(k) = 0
    BY Zenon, <1>3, KindFacts DEF AllExited, Leaving, Uncounted
  <2>3. Cardinality(Taken(k)) \in Nat /\ Cardinality(Taken(k)) <= Cardinality(Slot)
    BY Zenon, FiniteSlots DEF Taken
  <2>4. Balance(k) = Cardinality(Taken(k))
    BY SMTT(20), <2>2, <2>3, FS_EmptySet DEF Balance
  <2>5. Cardinality(Slot) \in Nat /\ Word \in Nat /\ Cardinality(Slot) < Word
    BY PeerAssumption, FS_CardinalityType
  <2>6. Balance(k) % Word = Balance(k)
    BY <2>3, <2>4, <2>5
  <2> QED
    BY Zenon, <2>1, <2>4, <2>6 DEF Taken
<1>4. ASSUME NodeInv, AllExited, NEW c \in 1 .. made
      PROVE  \/ ~conn[c].open /\ slot[conn[c].index] # c
             \/ conn[c].stage = "AwaitingVersion" /\ conn[c].outbox = <<>>
  <2>1. conn[c] \in Connection
    BY <1>4, PeerFacts DEF NodeInv, ThreadInv
  <2>2. conn[c].index \in Slot
    BY Zenon, <2>1 DEF Connection
  <2>3. rd[conn[c].index].conn = 0
    BY Zenon, <1>4, <2>2 DEF NodeInv, ThreadInv, PeerInv, ReaderOK, AllExited, Serving
  <2> QED
    BY Zenon, <1>4, <2>3 DEF NodeInv, ThreadInv, PeerInv, ConnOK
<1>5. NodeInv => CleanStop
  BY Zenon, <1>1, <1>2, <1>3, <1>4 DEF CleanStop
<1> QED
  BY <1>5, NodeInvariant, PTL

-----------------------------------------------------------------------------
(* The queue to the chain thread.                                          *)

(* f[n] is what the first n items of q weigh.                              *)
Sums(q, f, n) ==
    f = [m \in 0 .. n |-> IF m = 0 THEN 0 ELSE f[m - 1] + Weight(q[m][2])]

(* The weight a queue holds is the last of its partial sums.               *)
LEMMA HeldSums ==
    ASSUME NEW q, NEW f, Sums(q, f, Len(q))
    PROVE  \E g : Sums(q, g, Len(q)) /\ Held(q) = g[Len(q)]
BY Zenon DEF Sums, Held

(* A message's weight is a natural number.                                 *)
LEMMA WeightType == \A m : Weight(m) \in Nat
BY Zenon, PeerAssumption DEF Weight

(* Every queue has partial sums.                                           *)
LEMMA SumsExist ==
    ASSUME NEW q, NEW n \in Nat
    PROVE  \E f \in [0 .. n -> Nat] : Sums(q, f, n)
<1> DEFINE Has(m) == \E f \in [0 .. m -> Nat] : Sums(q, f, m)
           Bad == {m \in Nat : ~Has(m)}
<1> SUFFICES Bad = {}
  BY Zenon
<1> SUFFICES ASSUME Bad # {} PROVE FALSE
  BY Zenon
<1>1. PICK m \in Bad : \A l \in Bad : m <= l
  BY Zenon, LeastNumber
<1>2. CASE m = 0
  <2> DEFINE f == [l \in 0 .. 0 |-> 0]
  <2>1. f \in [0 .. 0 -> Nat] /\ Sums(q, f, 0)
    BY DEF Sums
  <2> QED
    BY Zenon, <1>1, <1>2, <2>1
<1>3. CASE m # 0
  <2>1. m \in Nat /\ m - 1 \in Nat /\ m - 1 \notin Bad
    BY SMTT(20), <1>1, <1>3
  <2>2. PICK g \in [0 .. m - 1 -> Nat] : Sums(q, g, m - 1)
    BY Zenon, <2>1
  <2> DEFINE w == Weight(q[m][2])
             f == [l \in 0 .. m |-> IF l < m THEN g[l] ELSE g[m - 1] + w]
  <2>3. w \in Nat
    BY Zenon, WeightType
  <2>4. f \in [0 .. m -> Nat]
    BY <2>1, <2>2, <2>3
  <2>5. Sums(q, f, m)
    <3> SUFFICES ASSUME NEW l \in 0 .. m
                 PROVE  f[l] = IF l = 0 THEN 0 ELSE f[l - 1] + Weight(q[l][2])
      BY Zenon DEF Sums
    <3>1. CASE l = m
      BY SMTT(20), <1>3, <2>1, <3>1
    <3>2. CASE l # m
      <4>1. l \in 0 .. m - 1 /\ l < m
        BY <2>1, <3>2
      <4>2. g[l] = IF l = 0 THEN 0 ELSE g[l - 1] + Weight(q[l][2])
        BY Zenon, <2>2, <4>1 DEF Sums
      <4>3. f[l] = g[l]
        BY Zenon, <4>1
      <4>4. l # 0 => l - 1 \in 0 .. m /\ l - 1 < m
        BY <2>1, <4>1
      <4>5. l # 0 => f[l - 1] = g[l - 1]
        BY Zenon, <4>4
      <4> HIDE DEF f
      <4> QED
        BY Zenon, <4>2, <4>3, <4>5
    <3> QED
      BY Zenon, <3>1, <3>2
  <2> QED
    BY Zenon, <1>1, <2>4, <2>5
<1> QED
  BY Zenon, <1>2, <1>3

(* The first n items of p are those of q after its first d: their sums     *)
(* differ by what those d weigh.                                           *)
Shifted(p, q, n, d) == \A l \in 1 .. n : p[l] = q[l + d]

(* The partial sums of a part of a queue differ by what comes before it.   *)
LEMMA SumsShift ==
    ASSUME NEW p, NEW q, NEW f, NEW g, NEW n \in Nat, NEW m \in Nat, NEW d \in Nat,
           Sums(p, f, n), Sums(q, g, m), n + d <= m, g[d] \in Nat,
           Shifted(p, q, n, d)
    PROVE  \A l \in 0 .. n : f[l] \in Nat /\ g[l + d] = f[l] + g[d]
<1> DEFINE Right(l) == f[l] \in Nat /\ g[l + d] = f[l] + g[d]
           Bad == {l \in 0 .. n : ~Right(l)}
<1> SUFFICES Bad = {}
  BY Zenon
<1> SUFFICES ASSUME Bad # {} PROVE FALSE
  BY Zenon
<1>0. Bad \subseteq Nat
  OBVIOUS
<1>1. PICK l \in Bad : \A k \in Bad : l <= k
  BY Zenon, <1>0, LeastNumber
<1>2. \A k \in 0 .. n : f[k] = IF k = 0 THEN 0 ELSE f[k - 1] + Weight(p[k][2])
  BY Zenon DEF Sums
<1>3. \A k \in 0 .. m : g[k] = IF k = 0 THEN 0 ELSE g[k - 1] + Weight(q[k][2])
  BY Zenon DEF Sums
<1>4. l \in 0 .. n
  BY Zenon, <1>1
<1>5. CASE l = 0
  <2>1. f[0] = 0 /\ 0 + d = d
    BY <1>2
  <2> QED
    BY SMTT(20), <1>1, <1>5, <2>1
<1>6. CASE l # 0
  <2>1. l - 1 \in 0 .. n /\ l - 1 \notin Bad /\ l \in 1 .. n /\ l + d \in 0 .. m /\ l + d # 0
        /\ (l - 1) + d = (l + d) - 1
    BY <1>1, <1>4, <1>6
  <2>2. f[l - 1] \in Nat /\ g[(l + d) - 1] = f[l - 1] + g[d]
    BY Zenon, <2>1
  <2>3. f[l] = f[l - 1] + Weight(p[l][2]) /\ Weight(p[l][2]) \in Nat
    BY Zenon, <1>2, <1>4, <1>6, WeightType
  <2>4. g[l + d] = g[(l + d) - 1] + Weight(q[l + d][2]) /\ q[l + d] = p[l]
    BY Zenon, <1>3, <2>1 DEF Shifted
  <2>5. Right(l)
    BY <2>2, <2>3, <2>4
  <2> QED
    BY Zenon, <1>1, <2>5
<1> QED
  BY Zenon, <1>5, <1>6

(* What a queue holds grows by what is sent, and shrinks with the message  *)
(* that is received.                                                       *)
LEMMA HeldOf ==
    ASSUME NEW T, NEW q \in Seq(T)
    PROVE  \E f : Sums(q, f, Len(q)) /\ Held(q) = f[Len(q)]
<1>1. Len(q) \in Nat
  OBVIOUS
<1>2. PICK f : Sums(q, f, Len(q))
  BY Zenon, <1>1, SumsExist
<1> QED
  BY Zenon, <1>2, HeldSums

(* A message appended adds its weight.                                     *)
LEMMA HeldAppend ==
    ASSUME NEW T, NEW q \in Seq(T), NEW x \in T
    PROVE  /\ Held(q) \in Nat
           /\ Held(Append(q, x)) = Held(q) + Weight(x[2])
<1> DEFINE r == Append(q, x)
           n == Len(q)
<1>1. r \in Seq(T) /\ Len(r) = n + 1 /\ n \in Nat /\ r[n + 1] = x
      /\ \A l \in 1 .. n : q[l] = r[l]
  OBVIOUS
<1>2. PICK f : Sums(q, f, n) /\ Held(q) = f[n]
  BY Zenon, HeldOf
<1> HIDE DEF r, n
<1>3. PICK g : Sums(r, g, n + 1) /\ Held(r) = g[n + 1]
  BY Zenon, <1>1, HeldOf
<1>4. /\ g[0] = 0
      /\ g[n + 1] = g[n] + Weight(x[2])
  <2>1. 0 \in 0 .. n + 1 /\ n + 1 \in 0 .. n + 1 /\ n + 1 # 0 /\ (n + 1) - 1 = n
    BY <1>1
  <2>2. \A k \in 0 .. n + 1 : g[k] = IF k = 0 THEN 0 ELSE g[k - 1] + Weight(r[k][2])
    BY Zenon, <1>3 DEF Sums
  <2> QED
    BY Zenon, <1>1, <2>1, <2>2
<1>5. \A l \in 0 .. n : f[l] \in Nat /\ g[l + 0] = f[l] + g[0]
  <2> DEFINE m == n + 1
             d == 0
  <2>1. /\ d \in Nat /\ m \in Nat /\ n + d <= m /\ g[d] \in Nat
        /\ Shifted(q, r, n, d)
    BY <1>1, <1>4 DEF Shifted
  <2>2. Sums(q, f, n) /\ Sums(r, g, m) /\ n \in Nat
    BY Zenon, <1>1, <1>2, <1>3
  <2> HIDE DEF m, d
  <2>3. \A l \in 0 .. n : f[l] \in Nat /\ g[l + d] = f[l] + g[d]
    BY SMTT(20), <2>1, <2>2, SumsShift
  <2> QED
    BY Zenon, <2>3 DEF d
<1>6. f[n] \in Nat /\ g[n] = f[n]
  BY SMTT(20), <1>1, <1>4, <1>5
<1> QED
  BY Zenon, <1>2, <1>3, <1>4, <1>6 DEF r

(* A message received takes weight away.                                   *)
LEMMA HeldTail ==
    ASSUME NEW T, NEW q \in Seq(T), q # <<>>
    PROVE  /\ Held(q) \in Nat /\ Held(Tail(q)) \in Nat
           /\ Held(Tail(q)) <= Held(q)
<1> DEFINE p == Tail(q)
           m == Len(q)
<1>1. p \in Seq(T) /\ m \in Nat /\ m >= 1 /\ Len(p) = m - 1
      /\ \A l \in 1 .. m - 1 : p[l] = q[l + 1]
  OBVIOUS
<1>2. PICK g : Sums(q, g, m) /\ Held(q) = g[m]
  BY Zenon, HeldOf
<1> HIDE DEF p, m
<1>3. PICK f : Sums(p, f, m - 1) /\ Held(p) = f[m - 1]
  BY Zenon, <1>1, HeldOf
<1>4. g[1] \in Nat
  <2>1. \A k \in 0 .. m : g[k] = IF k = 0 THEN 0 ELSE g[k - 1] + Weight(q[k][2])
    BY Zenon, <1>2 DEF Sums
  <2>2. g[0] = 0 /\ g[1] = g[0] + Weight(q[1][2])
    BY <1>1, <2>1
  <2> QED
    BY <2>2, WeightType
<1>5. \A l \in 0 .. m - 1 : f[l] \in Nat /\ g[l + 1] = f[l] + g[1]
  <2> DEFINE n == m - 1
             d == 1
  <2>1. /\ d \in Nat /\ n \in Nat /\ m \in Nat /\ n + d <= m /\ g[d] \in Nat
        /\ Shifted(p, q, n, d)
    BY <1>1, <1>4 DEF Shifted
  <2>2. Sums(p, f, n) /\ Sums(q, g, m)
    BY Zenon, <1>2, <1>3
  <2> HIDE DEF n, d
  <2>3. \A l \in 0 .. n : f[l] \in Nat /\ g[l + d] = f[l] + g[d]
    BY SMTT(20), <2>1, <2>2, SumsShift
  <2> QED
    BY Zenon, <2>3 DEF n, d
<1>6. f[m - 1] \in Nat /\ g[m] = f[m - 1] + g[1]
  BY <1>1, <1>5
<1> QED
  BY SMTT(20), <1>2, <1>3, <1>4, <1>6 DEF p

(* The queue changes only by a receive, or by an append that fits.         *)
LEMMA InboxSteps ==
    ASSUME [NodeNext]_vars
    PROVE  \/ inbox' = inbox
           \/ inbox' = Recv
           \/ \E i \in Slot : Fits(rd[i].held) /\ inbox' = Append(inbox, <<i, rd[i].held>>)
<1>1. CASE UNCHANGED vars \/ ListenerBegins
  BY Zenon, <1>1 DEF vars, pvars, ListenerBegins
<1>2. CASE Claimers
  BY Zenon, <1>2 DEF Claimers, ClaimerIdle, ClaimerTakes, AcceptFails, Claim, ClaimCount
<1>3. ASSUME NEW i \in Slot, Reader(i)
      PROVE  \/ inbox' = inbox
             \/ Fits(rd[i].held) /\ inbox' = Append(inbox, <<i, rd[i].held>>)
  BY Zenon, <1>3 DEF Reader, ReaderTakes, ReaderLeaves, ReaderStops, ReaderTicks, ReadIdle,
              ReaderSends, ReaderEnds, ReaderReleases, ReaderDiscounts, OthersSame
<1>4. ASSUME NEW i \in Slot, Hear(i) PROVE inbox' = inbox
  BY Zenon, <1>4 DEF Hear, ReadEof, ReadBroken, Receive, ReadOverCap, ReceiveVersion,
              ReceiveVerack, ReceiveNegotiation, ReceiveIgnored, ReceivePing, ReceivePong,
              ReceiveBlock, ReceiveForwarded, ReceiveRefused, OthersSame
<1>5. ASSUME NEW i \in Slot, Writer(i) PROVE inbox' = inbox
  BY Zenon, <1>5 DEF Writer, WriterTakes, WriterPops, WriterWrites, WriterParks
<1>6. CASE \/ Signal \/ Main \/ Chain \/ ValidationLeaves \/ ControlLeaves
  BY Zenon, <1>6 DEF Signal, Main, Chain, ValidationLeaves, ControlLeaves, MainCloses,
     MainDisconnects, MainClosesQueue, MainJoins, MainEnds, ChainTurns, ChainLeaves,
     ChainFlushes, pvars
<1> QED
  BY Zenon, <1>1, <1>2, <1>3, <1>4, <1>5, <1>6 DEF NodeNext, Peers, Stopped

(* The queue to the chain thread holds no more than its items and, but for *)
(* a message that is alone in it, no more than its bytes (queue.rs fits,   *)
(* send, recv).                                                            *)
THEOREM QueueBoundedTheorem == NodeSpec => []QueueBounded
<1>1. NodeInit => QueueBounded
  <2> SUFFICES ASSUME NodeInit PROVE QueueBounded
    BY Zenon
  <2>1. Len(inbox) = 0 /\ QueueItems \in Nat
    BY Zenon, PeerAssumption DEF NodeInit, PeerInit
  <2> QED
    BY <2>1 DEF QueueBounded
<1>2. ASSUME NodeInv, QueueBounded, [NodeNext]_vars PROVE QueueBounded'
  <2> DEFINE T == Slot \X (Speech \cup {Nothing})
  <2>1. inbox \in Seq(T) /\ rd \in [Slot -> ReaderState]
    BY Zenon, <1>2, PeerFacts DEF NodeInv, ThreadInv
  <2>2. ASSUME NEW i \in Slot PROVE <<i, rd[i].held>> \in T
    BY Zenon, <2>1 DEF ReaderState
  <2>3. QueueItems \in Nat /\ QueueBytes \in Nat
    BY Zenon, PeerAssumption
  <2> HIDE DEF T
  <2>4. CASE inbox' = inbox
    BY Zenon, <1>2, <2>4 DEF QueueBounded
  <2>5. CASE inbox' = Recv
    <3>1. CASE inbox = <<>>
      BY Zenon, <1>2, <2>5, <3>1 DEF QueueBounded, Recv
    <3>2. CASE inbox # <<>>
      <4>1. inbox' = Tail(inbox) /\ Len(inbox') = Len(inbox) - 1 /\ Len(inbox) \in Nat
        BY <2>1, <2>5, <3>2 DEF Recv
      <4>2. Held(inbox) \in Nat /\ Held(inbox') \in Nat /\ Held(inbox') <= Held(inbox)
        BY Zenon, <2>1, <3>2, <4>1, HeldTail
      <4>3. Len(inbox') <= QueueItems
        BY SMTT(20), <1>2, <2>3, <4>1 DEF QueueBounded
      <4>4. Len(inbox') > 1 => Held(inbox') <= QueueBytes
        BY SMTT(20), <1>2, <2>3, <4>1, <4>2 DEF QueueBounded
      <4> QED
        BY Zenon, <4>3, <4>4 DEF QueueBounded
    <3> QED
      BY Zenon, <3>1, <3>2
  <2>6. ASSUME NEW i \in Slot, Fits(rd[i].held),
               inbox' = Append(inbox, <<i, rd[i].held>>)
        PROVE  QueueBounded'
    <3>1. Len(inbox') = Len(inbox) + 1 /\ Len(inbox) \in Nat
      BY <2>1, <2>2, <2>6
    <3>2. Held(inbox') = Held(inbox) + Weight(rd[i].held)
      <4>1. Held(inbox') = Held(inbox) + Weight(<<i, rd[i].held>>[2])
        BY Zenon, <2>1, <2>2, <2>6, HeldAppend
      <4> QED
        BY Zenon, <4>1
    <3>3. Len(inbox') <= QueueItems
      BY <2>3, <2>6, <3>1 DEF Fits
    <3>4. Len(inbox') > 1 => inbox # <<>>
      BY <3>1
    <3>5. Len(inbox') > 1 => Held(inbox') <= QueueBytes
      BY Zenon, <2>6, <3>2, <3>4 DEF Fits
    <3> QED
      BY Zenon, <3>3, <3>5 DEF QueueBounded
  <2> QED
    BY Zenon, <1>2, <2>4, <2>5, <2>6, InboxSteps
<1> QED
  BY <1>1, <1>2, NodeInvariant, PTL DEF NodeSpec
=============================================================================
