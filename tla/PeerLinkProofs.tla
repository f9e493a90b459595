--------------------------- MODULE PeerLinkProofs ---------------------------
(***************************************************************************)
(* The peer threads implement PeerLink: every step of Peer and Node is a   *)
(* step of PeerLink, or changes nothing that PeerLink speaks of, for every *)
(* number of slots and every set of messages and blocks.                   *)
(***************************************************************************)
EXTENDS NodeProofs, NodeLink

(* Changing some of what is known.                                         *)
LEMMA KnownFields ==
    ASSUME NEW a, NEW b, NEW d, NEW h
    PROVE  LET l == Known(a, b, d, h) IN
           l.ready = a /\ l.services = b /\ l.doomed = d /\ l.requests = h
BY Zenon DEF Known

Doomed(l, x) == [l EXCEPT !.doomed = x]
Owes(l, x) == [l EXCEPT !.requests = x]
OwesDoomed(l, x, y) == [l EXCEPT !.requests = x, !.doomed = y]
Greeted(l, x, y) == [l EXCEPT !.ready = x, !.services = y]

(* Only that the link is doomed changes.                                   *)
LEMMA KnownDoomed ==
    ASSUME NEW a, NEW b, NEW d, NEW h, NEW x
    PROVE  Doomed(Known(a, b, d, h), x) = Known(a, b, x, h)
BY DEF Known, Doomed

(* Only the requests change.                                               *)
LEMMA KnownOwes ==
    ASSUME NEW a, NEW b, NEW d, NEW h, NEW x
    PROVE  Owes(Known(a, b, d, h), x) = Known(a, b, d, x)
BY DEF Known, Owes

(* The requests change, and that the link is doomed.                       *)
LEMMA KnownOwesDoomed ==
    ASSUME NEW a, NEW b, NEW d, NEW h, NEW x, NEW y
    PROVE  OwesDoomed(Known(a, b, d, h), x, y) = Known(a, b, y, x)
<1>1. [Known(a, b, d, h) EXCEPT !.requests = x] = Known(a, b, d, x)
  BY DEF Known
<1>2. [Known(a, b, d, x) EXCEPT !.doomed = y] = Known(a, b, y, x)
  BY DEF Known
<1>3. [Known(a, b, d, h) EXCEPT !.requests = x, !.doomed = y] = Known(a, b, y, x)
  BY Zenon, <1>1, <1>2
<1> QED
  BY Zenon, <1>3 DEF OwesDoomed

(* The handshake's outcome changes.                                        *)
LEMMA KnownGreeted ==
    ASSUME NEW a, NEW b, NEW d, NEW h, NEW x, NEW y
    PROVE  Greeted(Known(a, b, d, h), x, y) = Known(x, y, d, h)
<1>1. [Known(a, b, d, h) EXCEPT !.ready = x] = Known(x, b, d, h)
  BY DEF Known
<1>2. [Known(x, b, d, h) EXCEPT !.services = y] = Known(x, y, d, h)
  BY DEF Known
<1>3. [Known(a, b, d, h) EXCEPT !.ready = x, !.services = y] = Known(x, y, d, h)
  BY Zenon, <1>1, <1>2
<1> QED
  BY Zenon, <1>3 DEF Greeted

-----------------------------------------------------------------------------
(* The steps of PeerLink.                                                  *)

LinkStep == Link!LinkNext \/ UNCHANGED <<made, slot, links, holds, inbox>>

(* PeerLink's initial states, of the mapped state.                         *)
LEMMA MapInit ==
    Link!LinkInit <=> /\ made = 0 /\ slot = [i \in Slot |-> 0]
                      /\ links = [i \in Slot |-> Blank]
                      /\ holds = [i \in Slot |-> <<>>]
                      /\ inbox = <<>>
BY Zenon DEF Link!LinkInit, Link!Fresh, Blank, Known

(* A step that changes nothing PeerLink speaks of stutters.                *)
LEMMA MapVars ==
    UNCHANGED <<made, slot, links, holds, inbox>> => UNCHANGED Link!lvars
BY Zenon DEF Link!lvars

(* What PeerLink sees of slot i becomes v and p; of the others, nothing.   *)
Shows(i, v, p) ==
    /\ links' = [links EXCEPT ![i] = v]
    /\ holds' = [holds EXCEPT ![i] = p]
    /\ UNCHANGED <<made, slot>>

(* A step of a reader that shows nothing new stutters.                     *)
LEMMA MapSame ==
    ASSUME NEW i \in Slot, Shows(i, links[i], holds[i]), UNCHANGED inbox
    PROVE  LinkStep
<1>1. links' = links /\ holds' = holds
  BY Zenon DEF Shows, links, holds
<1> QED
  BY Zenon, <1>1 DEF LinkStep, Shows

(* A connection that begins to end is Doom.                                *)
LEMMA MapDoom ==
    ASSUME NEW i \in Slot, slot[i] # 0, NEW a, NEW b, NEW d, NEW e, NEW h,
           links[i] = Known(a, b, d, h),
           Shows(i, Known(a, b, e, h), holds[i]), UNCHANGED inbox
    PROVE  d = FALSE /\ e = TRUE => LinkStep
<1>1. links[i].doomed = d
  BY KnownFields
<1>2. Doomed(links[i], e) = Known(a, b, e, h)
  BY KnownDoomed
<1>3. links' = [links EXCEPT ![i].doomed = e]
  BY Zenon, <1>2 DEF Shows, Doomed
<1>4. holds' = holds /\ UNCHANGED <<made, slot>>
  BY Zenon DEF Shows, holds
<1>5. ASSUME d = FALSE, e = TRUE PROVE Link!Doom(i)
  BY Zenon, <1>1, <1>3, <1>4, <1>5
  DEF Link!Doom
<1> QED
  BY Zenon, <1>5 DEF LinkStep, Link!LinkNext, Link!LinkPeers

(* A finished handshake is Greet.                                          *)
LEMMA MapGreet ==
    ASSUME NEW i \in Slot, slot[i] # 0, NEW a, NEW b, NEW d, NEW e, NEW h,
           NEW s \in Offered, links[i] = Known(a, b, d, h),
           Shows(i, Known(e, s, d, h), holds[i]), UNCHANGED inbox
    PROVE  a = FALSE /\ e = TRUE => LinkStep
<1>1. links[i].ready = a
  BY SMTT(20), KnownFields
<1>2. Greeted(links[i], e, s) = Known(e, s, d, h)
  BY SMTT(20), KnownGreeted
<1>3. links' = [links EXCEPT ![i].ready = e, ![i].services = s]
  BY Zenon, <1>2 DEF Shows, Greeted
<1>4. holds' = holds /\ UNCHANGED <<made, slot>>
  BY Zenon DEF Shows, holds
<1>5. ASSUME a = FALSE, e = TRUE PROVE Link!Greet(i)
  BY ZenonT(30), <1>1, <1>3, <1>4, <1>5
  DEF Link!Greet, Offered
<1> QED
  BY Zenon, <1>5 DEF LinkStep, Link!LinkNext, Link!LinkPeers

(* A message read for the chain thread is Take.                            *)
LEMMA MapTake ==
    ASSUME NEW i \in Slot, NEW m \in Speech, slot[i] # 0, NEW l, l = links[i], l.ready,
           holds[i] = <<>>,
           \/ m.kind # "block" /\ Shows(i, l, <<m>>)
           \/ /\ m.kind = "block" /\ m.hash \in l.requests
              /\ Shows(i, Owes(l, l.requests \ {m.hash}), <<m>>),
           UNCHANGED inbox
    PROVE  LinkStep
<1>1. holds' = [holds EXCEPT ![i] = <<m>>] /\ UNCHANGED <<made, slot>>
  BY Zenon DEF Shows
<1>2. CASE m.kind # "block" /\ Shows(i, l, <<m>>)
  <2>1. UNCHANGED links
    BY Zenon, <1>2 DEF Shows, links
  <2>2. Link!Take(i, m)
    BY ZenonT(30), <1>1, <1>2, <2>1
    DEF Link!Take
  <2> QED
    BY Zenon, <2>2 DEF LinkStep, Link!LinkNext, Link!LinkPeers
<1>3. CASE /\ m.kind = "block" /\ m.hash \in l.requests
           /\ Shows(i, Owes(l, l.requests \ {m.hash}), <<m>>)
  <2>1. links' = [links EXCEPT ![i].requests = @ \ {m.hash}]
    BY Zenon, <1>3 DEF Shows, Owes
  <2>2. Link!Take(i, m)
    BY Zenon, <1>1, <1>3, <2>1
    DEF Link!Take
  <2> QED
    BY Zenon, <2>2 DEF LinkStep, Link!LinkNext, Link!LinkPeers
<1> QED
  BY ZenonT(30), <1>2, <1>3

(* A requested block that is malformed is Spoil.                           *)
LEMMA MapSpoil ==
    ASSUME NEW i \in Slot, slot[i] # 0, NEW l, l = links[i], NEW x \in l.requests, NEW e,
           Shows(i, OwesDoomed(l, l.requests \ {x}, e), holds[i]), UNCHANGED inbox
    PROVE  e = TRUE => LinkStep
<1>1. links' = [links EXCEPT ![i].requests = @ \ {x}, ![i].doomed = e]
  BY Zenon DEF Shows, OwesDoomed
<1>2. holds' = holds /\ UNCHANGED <<made, slot>>
  BY Zenon DEF Shows, holds
<1>3. ASSUME e = TRUE PROVE Link!Spoil(i)
  BY Zenon, <1>1, <1>2, <1>3
  DEF Link!Spoil
<1> QED
  BY Zenon, <1>3 DEF LinkStep, Link!LinkNext, Link!LinkPeers

(* A message put in the queue is Enqueue.                                  *)
LEMMA MapEnqueue ==
    ASSUME NEW i \in Slot, holds[i] # <<>>, Len(inbox) < QueueItems,
           inbox' = Append(inbox, <<i, holds[i][1]>>), Shows(i, links[i], <<>>)
    PROVE  LinkStep
<1>1. UNCHANGED links /\ holds' = [holds EXCEPT ![i] = <<>>] /\ UNCHANGED <<made, slot>>
  BY Zenon DEF Shows, links
<1>2. Link!Enqueue(i)
  BY Zenon, <1>1 DEF Link!Enqueue
<1> QED
  BY Zenon, <1>2 DEF LinkStep, Link!LinkNext, Link!LinkPeers

(* A message dropped by a reader that is to end is Discard.                *)
LEMMA MapDiscard ==
    ASSUME NEW i \in Slot, holds[i] # <<>>, NEW e,
           Shows(i, Doomed(links[i], e), <<>>), UNCHANGED inbox
    PROVE  e = TRUE => LinkStep
<1>1. /\ links' = [links EXCEPT ![i].doomed = e]
      /\ holds' = [holds EXCEPT ![i] = <<>>] /\ UNCHANGED <<made, slot>>
  BY Zenon DEF Shows, Doomed
<1>2. ASSUME e = TRUE PROVE Link!Discard(i)
  BY Zenon, <1>1, <1>2 DEF Link!Discard
<1> QED
  BY Zenon, <1>2 DEF LinkStep, Link!LinkNext

(* Requests given up by a connection that ends are GiveUp.                 *)
LEMMA MapGiveUp ==
    ASSUME NEW i \in Slot, slot[i] # 0, holds[i] = <<>>, links[i].doomed,
           Shows(i, Owes(links[i], {}), <<>>), UNCHANGED inbox
    PROVE  LinkStep
<1>1. links' = [links EXCEPT ![i].requests = {}] /\ UNCHANGED <<made, slot>>
  BY Zenon DEF Shows, Owes
<1>2. holds' = holds
  BY Zenon DEF Shows, holds
<1>3. Link!GiveUp(i)
  BY Zenon, <1>1, <1>2 DEF Link!GiveUp
<1> QED
  BY Zenon, <1>3 DEF LinkStep, Link!LinkNext, Link!LinkPeers

(* A slot left is Vacate.                                                  *)
LEMMA MapVacate ==
    ASSUME NEW i \in Slot, slot[i] # 0, holds[i] = <<>>, links[i].doomed,
           slot' = [slot EXCEPT ![i] = 0], links' = [links EXCEPT ![i] = Blank],
           UNCHANGED <<made, holds, inbox>>
    PROVE  LinkStep
<1>1. Link!Vacate(i)
  BY Zenon DEF Link!Vacate, Link!Fresh, Blank, Known
<1> QED
  BY Zenon, <1>1 DEF LinkStep, Link!LinkNext, Link!LinkPeers

(* A slot claimed is Arrive.                                               *)
LEMMA MapArrive ==
    ASSUME NEW i \in Slot, slot[i] = 0, made < MaxConn, made' = made + 1,
           slot' = [slot EXCEPT ![i] = made + 1],
           UNCHANGED <<links, holds, inbox>>
    PROVE  LinkStep
<1>1. Link!Arrive(i)
  BY Zenon DEF Link!Arrive
<1> QED
  BY Zenon, <1>1 DEF LinkStep, Link!LinkNext, Link!LinkPeers

(* A receive, with requests to one slot or none, is the chain thread's     *)
(* step.                                                                   *)
LEMMA MapChain ==
    ASSUME inbox' = inbox \/ (inbox # <<>> /\ inbox' = Tail(inbox)),
           \/ UNCHANGED links
           \/ \E i \in Slot, over \in BOOLEAN : \E blocks \in SUBSET Hash :
                 /\ slot[i] # 0
                 /\ links' = [links EXCEPT ![i].requests = @ \cup blocks,
                                           ![i].doomed = @ \/ over],
           UNCHANGED <<made, slot, holds>>
    PROVE  LinkStep
<1>1. inbox' \in {inbox} \cup {Tail(q) : q \in {inbox} \ {<<>>}}
  BY Zenon
<1>2. Link!LinkChain
  BY Zenon, <1>1 DEF Link!LinkChain
<1> QED
  BY Zenon, <1>2 DEF LinkStep, Link!LinkNext

-----------------------------------------------------------------------------
(* A step that changes one connection and its reader.                      *)

Becomes(i, s, q) ==
    /\ slot[i] # 0
    /\ conn' = [conn EXCEPT ![slot[i]] = s]
    /\ rd' = [rd EXCEPT ![i] = q]
    /\ UNCHANGED <<made, slot>>

(* A step of one reader changes what is shown of its slot alone.           *)
LEMMA OneView ==
    ASSUME PeerInv, NEW i \in Slot, NEW s, NEW q, Becomes(i, s, q)
    PROVE  /\ Shows(i, View(s, q), Pending(q))
           /\ links[i] = View(conn[slot[i]], rd[i]) /\ holds[i] = Pending(rd[i])
<1> USE DEF Becomes
<1>1. slot[i] \in 1 .. Len(conn) /\ conn[slot[i]].index = i
  BY Zenon, SlotFacts, PeerFacts
<1>2. \A j \in Slot : slot[j] # 0 => /\ slot[j] \in 1 .. Len(conn)
                                     /\ conn[slot[j]].index = j
  BY ZenonT(30), SlotFacts, PeerFacts
<1>3. \A j \in Slot : rd'[j] = IF j = i THEN q ELSE rd[j]
  BY Zenon, PeerFacts
<1>4. conn'[slot[i]] = s
  BY SMTT(20), <1>1, PeerFacts
<1>5. ASSUME NEW j \in Slot, j # i PROVE ViewAt(j)' = ViewAt(j)
  <2>1. CASE slot[j] = 0
    BY Zenon, <2>1 DEF ViewAt
  <2>2. CASE slot[j] # 0
    <3>1. slot[j] # slot[i]
      BY ZenonT(30), <1>1, <1>2, <1>5, <2>2
    <3>2. conn'[slot[j]] = conn[slot[j]]
      BY SMTT(20), <1>2, <2>2, <3>1, PeerFacts
    <3>3. rd'[j] = rd[j] /\ slot'[j] = slot[j]
      BY Zenon, <1>3, <1>5
    <3> QED
      BY SMTT(20), <3>2, <3>3, <2>2 DEF ViewAt
  <2> QED
    BY Zenon, <2>1, <2>2
<1>6. ViewAt(i)' = View(s, q) /\ ViewAt(i) = View(conn[slot[i]], rd[i])
  <2>1. rd'[i] = q /\ slot'[i] = slot[i]
    BY Zenon, <1>3
  <2> QED
    BY Zenon, <1>4, <2>1 DEF ViewAt
<1>7. \A j \in Slot : ViewAt(j)' = IF j = i THEN View(s, q) ELSE ViewAt(j)
  BY Zenon, <1>5, <1>6
<1>8. links' = [links EXCEPT ![i] = View(s, q)]
  <2> HIDE DEF ViewAt
  <2> QED
    BY Zenon, <1>7 DEF links
<1>9. \A j \in Slot : Pending(rd'[j]) = IF j = i THEN Pending(q) ELSE Pending(rd[j])
  BY <1>3
<1>10. holds' = [holds EXCEPT ![i] = Pending(q)]
  <2> HIDE DEF Pending
  <2> QED
    BY Zenon, <1>9 DEF holds
<1> QED
  BY ZenonT(30), <1>6, <1>8, <1>10 DEF Shows, links, holds

(* Whether PeerLink takes it to be over.                                   *)
Over(r, q) == r.ended # "none" \/ q.pc = "end"

(* What PeerLink sees of a connection.                                     *)
LEMMA ViewKnown ==
    ASSUME NEW r, NEW q
    PROVE  View(r, q) = Known(r.ready, r.services, Over(r, q), r.requests)
BY Zenon DEF View, Over

(* A connection that stays as PeerLink knows it, or is over from now on.   *)
LEMMA FadesMapped ==
    ASSUME PeerInv, NEW i \in Slot, NEW s, NEW q, Becomes(i, s, q),
           NEW r, r = conn[slot[i]],
           s.ready = r.ready, s.services = r.services, s.requests = r.requests,
           Over(r, rd[i]) => Over(s, q), Pending(q) = Pending(rd[i]), UNCHANGED inbox
    PROVE  LinkStep
<1> DEFINE v == View(s, q)
<1>1. /\ Shows(i, v, holds[i]) /\ links[i] = View(r, rd[i])
  BY Zenon, OneView
<1>2. slot[i] # 0
  BY Zenon DEF Becomes
<1>3. links[i] = Known(r.ready, r.services, Over(r, rd[i]), r.requests)
  BY Zenon, <1>1, ViewKnown
<1>4. v = Known(r.ready, r.services, Over(s, q), r.requests)
  BY Zenon, ViewKnown
<1>5. CASE Over(s, q) = Over(r, rd[i])
  BY ZenonT(30), <1>1, <1>3, <1>4, <1>5, MapSame
<1>6. CASE Over(s, q) # Over(r, rd[i])
  <2> DEFINE d == Over(r, rd[i])
  <2> DEFINE e == Over(s, q)
  <2>1. d = FALSE /\ e = TRUE
    BY Zenon, <1>6 DEF Over
  <2> HIDE DEF d, e, v
  <2>2. links[i] = Known(r.ready, r.services, d, r.requests)
    BY Zenon, <1>3 DEF d
  <2>3. Shows(i, Known(r.ready, r.services, e, r.requests), holds[i])
    BY ZenonT(30), <1>1, <1>4 DEF e
  <2>4. d = FALSE /\ e = TRUE => LinkStep
    BY ZenonT(30), <1>2, <2>2, <2>3, MapDoom
  <2> QED
    BY Zenon, <2>1, <2>4
<1> QED
  BY Zenon, <1>5, <1>6

-----------------------------------------------------------------------------
(* A reader goes on, or gives its connection up.                           *)

GoesOn(i) ==
    \E q : rd' = [rd EXCEPT ![i] = q] /\ q.pc \in {"top", "read", "end"}

(* Going back to the top of the loop goes on.                              *)
LEMMA ContinueGoesOn ==
    ASSUME PeerInv, NEW i \in Slot, Continue(i)
    PROVE  GoesOn(i)
<1> DEFINE q == [rd[i] EXCEPT !.pc = "top"]
<1>1. rd' = [rd EXCEPT ![i] = q] /\ q.pc = "top"
  BY Zenon, PeerFacts DEF Continue, ReaderState
<1> QED
  BY Zenon, <1>1 DEF GoesOn

(* So does leaving the loop.                                               *)
LEMMA FinishGoesOn ==
    ASSUME PeerInv, NEW i \in Slot, NEW why, Finish(i, why)
    PROVE  GoesOn(i)
<1> DEFINE q == [rd[i] EXCEPT !.pc = "end", !.why = Blame(why)]
<1>1. rd' = [rd EXCEPT ![i] = q] /\ q.pc = "end"
  BY ZenonT(30), PeerFacts DEF Finish, ReaderState
<1> QED
  BY Zenon, <1>1 DEF GoesOn

(* Nothing PeerLink knows changes with s.                                  *)
Alike(r, s) ==
    /\ s.ready = r.ready /\ s.services = r.services /\ s.requests = r.requests
    /\ s.ended = "none" => r.ended = "none"

(* A reader that goes on, with no change PeerLink sees, stutters or dooms. *)
LEMMA GoesOnMapped ==
    ASSUME PeerInv, NEW i \in Slot, rd[i].pc \in {"top", "read"}, GoesOn(i),
           NEW s, conn' = [conn EXCEPT ![rd[i].conn] = s], Alike(ROf(i), s), OthersSame
    PROVE  LinkStep
<1>1. PICK q : rd' = [rd EXCEPT ![i] = q] /\ q.pc \in {"top", "read", "end"}
  BY Zenon DEF GoesOn
<1>2. slot[i] = rd[i].conn /\ slot[i] # 0
  BY SMTT(20), ReaderFacts, PeerFacts DEF Serving
<1>3. Becomes(i, s, q)
  BY Zenon, <1>1, <1>2 DEF Becomes, OthersSame
<1>4. Over(ROf(i), rd[i]) => Over(s, q)
  BY Zenon DEF Over, Alike
<1>5. Pending(q) = Pending(rd[i])
  BY Zenon, <1>1 DEF Pending
<1> QED
  BY SMTT(20), <1>2, <1>3, <1>4, <1>5, FadesMapped DEF Alike, OthersSame, ROf

(* A reader that goes on without touching its connection stutters or       *)
(* dooms.                                                                  *)
LEMMA QuietGoesOn ==
    ASSUME PeerInv, NEW i \in Slot, rd[i].pc \in {"top", "read"}, GoesOn(i),
           UNCHANGED conn, OthersSame
    PROVE  LinkStep
<1>1. rd[i].conn \in 1 .. made
  BY Zenon, ReaderFacts DEF Serving
<1>2. conn' = [conn EXCEPT ![rd[i].conn] = ROf(i)]
  BY Zenon, <1>1, FollowsItself DEF ROf
<1>3. Alike(ROf(i), ROf(i))
  BY Zenon DEF Alike
<1> QED
  BY Zenon, <1>2, <1>3, GoesOnMapped

(* The steps that leave the connection as it is.                           *)
LEMMA QuietMapped ==
    ASSUME PeerInv, NEW i \in Slot,
           \/ ReaderStops(i) \/ ReadIdle(i) \/ ReadEof(i) \/ ReadBroken(i)
           \/ \E m \in Speech : \/ ReceiveNegotiation(i, m) \/ ReceiveIgnored(i, m)
                                \/ ReceiveRefused(i, m)
    PROVE  LinkStep
<1>1. rd[i].pc \in {"top", "read"} /\ UNCHANGED conn /\ OthersSame
  BY Zenon DEF ReaderStops, ReadIdle, ReadEof, ReadBroken, ReceiveNegotiation,
         ReceiveIgnored, ReceiveRefused, Ready, Complete
<1>2. Continue(i) \/ \E why : Finish(i, why)
  BY Zenon DEF ReaderStops, ReadIdle, ReadEof, ReadBroken, ReceiveNegotiation,
         ReceiveIgnored, ReceiveRefused
<1>3. GoesOn(i)
  BY Zenon, <1>2, ContinueGoesOn, FinishGoesOn
<1> QED
  BY Zenon, <1>1, <1>3, QuietGoesOn

(* A message over the cap is a step of PeerLink or none.                   *)
LEMMA OverCapMapped ==
    ASSUME PeerInv, NEW i \in Slot, NEW m \in Speech, ReadOverCap(i, m)
    PROVE  LinkStep
<1> DEFINE q == [rd[i] EXCEPT !.pc = "end", !.why = Blame("OverCap"), !.held = m]
<1>1. rd' = [rd EXCEPT ![i] = q] /\ q.pc = "end"
  BY Zenon, PeerFacts DEF ReadOverCap, ReaderState
<1>2. GoesOn(i)
  BY Zenon, <1>1 DEF GoesOn
<1> QED
  BY Zenon, <1>2, QuietGoesOn DEF ReadOverCap

(* The steps that push a frame.                                            *)
LEMMA PushAlike ==
    ASSUME NEW r \in Connection, NEW frame \in SUBSET Hash
    PROVE  Alike(r, Push(r, frame))
BY Zenon, PushOK DEF Alike

(* An answer to the peer is a step of PeerLink or none.                    *)
LEMMA AnswerMapped ==
    ASSUME PeerInv, NEW i \in Slot, rd[i].pc \in {"top", "read"}, NEW s,
           Alike(ROf(i), s), Answer(i, s), OthersSame
    PROVE  LinkStep
<1>1. conn' = [conn EXCEPT ![rd[i].conn] = s]
  BY Zenon DEF Answer
<1>2. Continue(i) \/ Finish(i, "OutboxFull")
  BY Zenon DEF Answer
<1>3. GoesOn(i)
  BY Zenon, <1>2, ContinueGoesOn, FinishGoesOn
<1> QED
  BY Zenon, <1>1, <1>3, GoesOnMapped

(* A check of the deadlines is a step of PeerLink or none.                 *)
LEMMA TicksMapped ==
    ASSUME PeerInv, NEW i \in Slot, ReaderTicks(i)
    PROVE  LinkStep
<1>1. PICK pings \in BOOLEAN :
        LET r == IF pings THEN Push(ROf(i), {}) ELSE ROf(i) IN
        /\ rd[i].pc = "top"
        /\ conn' = [conn EXCEPT ![rd[i].conn] =
                       [r EXCEPT !.ping = @ \/ (pings /\ ~r.closed)]]
        /\ \/ r.closed /\ Finish(i, "OutboxFull")
           \/ ~r.closed /\ \E why \in Expired(ROf(i)) : Finish(i, why)
           \/ ~r.closed /\ rd' = [rd EXCEPT ![i].pc = "read", ![i].full = Cap(i)]
        /\ OthersSame
  BY Zenon DEF ReaderTicks
<1> DEFINE r == IF pings THEN Push(ROf(i), {}) ELSE ROf(i)
           s == [r EXCEPT !.ping = @ \/ (pings /\ ~r.closed)]
<1>2. ROf(i) \in Connection
  BY Zenon, <1>1, ReaderFacts DEF Serving
<1>3. r \in Connection /\ Alike(ROf(i), r)
  BY ZenonT(30), <1>2, PushOK, PushAlike DEF Alike
<1>4. Alike(ROf(i), s)
  BY Zenon, <1>3 DEF Alike, Connection
<1>5. GoesOn(i)
  <2>1. CASE rd' = [rd EXCEPT ![i].pc = "read", ![i].full = Cap(i)]
    <3> DEFINE q == [rd[i] EXCEPT !.pc = "read", !.full = Cap(i)]
    <3>1. rd' = [rd EXCEPT ![i] = q] /\ q.pc = "read"
      BY Zenon, <2>1, PeerFacts DEF ReaderState
    <3> QED
      BY Zenon, <3>1 DEF GoesOn
  <2>2. CASE \E why : Finish(i, why)
    BY Zenon, <2>2, FinishGoesOn
  <2> QED
    BY Zenon, <1>1, <2>1, <2>2
<1>6. conn' = [conn EXCEPT ![rd[i].conn] = s]
  BY Zenon, <1>1
<1> HIDE DEF s, r
<1> QED
  BY ZenonT(30), <1>1, <1>4, <1>5, <1>6, GoesOnMapped

(* A version message is a step of PeerLink or none.                        *)
LEMMA VersionMapped ==
    ASSUME PeerInv, NEW i \in Slot, NEW m \in Speech, ReceiveVersion(i, m)
    PROVE  LinkStep
<1> DEFINE r == [ROf(i) EXCEPT !.stage = "AwaitingVerack", !.offered = m.services]
           t == IF i \in Inbound THEN Push(r, {}) ELSE r
<1>1. rd[i].pc = "read" /\ m.kind = "version" /\ OthersSame
  BY Zenon DEF ReceiveVersion, Complete
<1>2. ROf(i) \in Connection
  BY Zenon, <1>1, ReaderFacts DEF Serving
<1>3. m.services \in Offers
  BY Zenon, <1>1 DEF Offers, Offered
<1>4. r \in Connection /\ Alike(ROf(i), r)
  BY Zenon, <1>2, <1>3 DEF Alike, Connection, Stage
<1>5. t \in Connection /\ Alike(ROf(i), t)
  <2> HIDE DEF r
  <2> QED
    BY SMTT(20), <1>4, PushOK, PushAlike DEF Alike
<1>6. Alike(ROf(i), Push(t, {}))
  <2> HIDE DEF t
  <2> QED
    BY Zenon, <1>5, PushAlike DEF Alike
<1>7. \/ Answer(i, Push(t, {}))
      \/ UNCHANGED conn /\ Finish(i, WhyNot(i, m))
  BY Zenon DEF ReceiveVersion
<1>8. CASE Answer(i, Push(t, {}))
  <2> HIDE DEF t
  <2> QED
    BY ZenonT(30), <1>1, <1>6, <1>8, AnswerMapped
<1>9. CASE UNCHANGED conn /\ Finish(i, WhyNot(i, m))
  BY ZenonT(30), <1>1, <1>9, FinishGoesOn, QuietGoesOn
<1> QED
  BY ZenonT(30), <1>7, <1>8, <1>9

(* A ping or a pong is a step of PeerLink or none.                         *)
LEMMA PingPongMapped ==
    ASSUME PeerInv, NEW i \in Slot, NEW m \in Speech,
           ReceivePing(i, m) \/ ReceivePong(i, m)
    PROVE  LinkStep
<1>1. rd[i].pc = "read" /\ OthersSame
  BY Zenon DEF ReceivePing, ReceivePong, Ready, Complete
<1>2. ROf(i) \in Connection
  BY Zenon, <1>1, ReaderFacts DEF Serving
<1>3. CASE ReceivePing(i, m)
  <2>1. Alike(ROf(i), Push(ROf(i), {}))
    BY ZenonT(30), <1>2, PushAlike
  <2> QED
    BY ZenonT(30), <1>1, <1>3, <2>1, AnswerMapped DEF ReceivePing
<1>4. CASE ReceivePong(i, m)
  <2> DEFINE s == [ROf(i) EXCEPT !.ping = @ /\ ~m.ours]
  <2>1. conn' = [conn EXCEPT ![rd[i].conn] = s]
    BY Zenon, <1>4 DEF ReceivePong, ROf
  <2>2. Alike(ROf(i), s)
    BY ZenonT(30), <1>2 DEF Alike, Connection
  <2>3. GoesOn(i)
    BY ZenonT(30), <1>4, ContinueGoesOn DEF ReceivePong
  <2> HIDE DEF s
  <2> QED
    BY ZenonT(30), <1>1, <2>1, <2>2, <2>3, GoesOnMapped
<1> QED
  BY Zenon, <1>3, <1>4

-----------------------------------------------------------------------------
(* The steps that PeerLink knows by name.                                  *)

(* A verack is Greet, Doom or nothing.                                     *)
LEMMA VerackMapped ==
    ASSUME PeerInv, NEW i \in Slot, NEW m \in Speech, ReceiveVerack(i, m)
    PROVE  LinkStep
<1> DEFINE r == ROf(i)
           s == [r EXCEPT !.stage = "Ready", !.services = r.offered, !.ready = TRUE]
           q == [rd[i] EXCEPT !.pc = "top"]
<1>1. rd[i].pc = "read" /\ OthersSame /\ r.stage = "AwaitingVerack"
  BY Zenon DEF ReceiveVerack, Complete
<1>2. /\ r \in Connection /\ StageOK(r) /\ rd[i] \in ReaderState
      /\ slot[i] = rd[i].conn /\ slot[i] # 0
  BY SMTT(20), <1>1, ReaderFacts, PeerFacts DEF Serving
<1>3. r.ready = FALSE /\ r.offered \in Offered
  BY Zenon, <1>1, <1>2 DEF StageOK, Connection
<1>4. Becomes(i, s, q)
  <2>1. conn' = [conn EXCEPT ![rd[i].conn] = s]
    BY ZenonT(30), PeerFacts, <1>1, ReaderFacts DEF ReceiveVerack, ROf, Serving
  <2>2. rd' = [rd EXCEPT ![i] = q]
    BY Zenon, PeerFacts DEF ReceiveVerack, Continue
  <2> QED
    BY ZenonT(30), <1>1, <1>2, <2>1, <2>2 DEF Becomes, OthersSame
<1>5. /\ s.ready = TRUE /\ s.services = r.offered /\ s.requests = r.requests
      /\ s.ended = r.ended
  BY Zenon, <1>2 DEF Connection
<1>6. q.pc = "top"
  BY Zenon, <1>2 DEF ReaderState
<1>7. Over(s, q) = Over(r, rd[i]) /\ Pending(q) = Pending(rd[i])
  BY Zenon, <1>1, <1>5, <1>6 DEF Over, Pending
<1>8. r = conn[slot[i]]
  BY Zenon, <1>2 DEF ROf
<1> HIDE DEF r, s, q
<1>9. Shows(i, View(s, q), holds[i]) /\ links[i] = View(r, rd[i])
  BY ZenonT(30), <1>4, <1>7, <1>8, OneView
<1> DEFINE a == r.ready
           d == Over(r, rd[i])
           e == s.ready
<1>10. View(s, q) = Known(e, r.offered, d, r.requests)
  <2> HIDE DEF a, d, e
  <2>1. View(s, q) = Known(s.ready, s.services, Over(s, q), s.requests)
    BY Zenon, ViewKnown
  <2>2. s.services = r.offered /\ Over(s, q) = d /\ s.ready = e /\ s.requests = r.requests
    BY Zenon, <1>5, <1>7 DEF d, e
  <2> QED
    BY Zenon, <2>1, <2>2
<1>11. links[i] = Known(a, r.services, d, r.requests)
  BY Zenon, <1>9, ViewKnown
<1>12. a = FALSE /\ e = TRUE
  BY Zenon, <1>3, <1>5
<1>13. r.offered \in Offered
  BY Zenon, <1>3
<1> HIDE DEF a, d, e
<1>14. UNCHANGED inbox
  BY Zenon, <1>1 DEF OthersSame
<1>15. Shows(i, Known(e, r.offered, d, r.requests), holds[i])
  BY Zenon, <1>9, <1>10
<1>16. a = FALSE /\ e = TRUE => LinkStep
  BY ZenonT(30), <1>2, <1>11, <1>13, <1>14, <1>15, MapGreet
<1> QED
  BY Zenon, <1>12, <1>16

(* A message that is forwarded; the connection is as it was.               *)
LEMMA ForwardedMapped ==
    ASSUME PeerInv, NEW i \in Slot, NEW m \in Speech, ReceiveForwarded(i, m)
    PROVE  LinkStep
<1>1. /\ rd[i].pc = "read" /\ ROf(i).stage = "Ready" /\ m.kind # "block"
      /\ OthersSame /\ UNCHANGED conn
  BY Zenon DEF ReceiveForwarded, Ready, Complete
<1>2. CASE \E why : Finish(i, why)
  BY Zenon, <1>1, <1>2, FinishGoesOn, QuietGoesOn
<1>3. CASE Forward(i, m)
  <2> DEFINE r == ROf(i)
             q == [rd[i] EXCEPT !.pc = "send", !.held = m]
  <2>1. /\ r \in Connection /\ StageOK(r) /\ rd[i] \in ReaderState
        /\ slot[i] = rd[i].conn /\ slot[i] # 0 /\ rd[i].conn \in 1 .. made
    BY SMTT(20), <1>1, ReaderFacts, PeerFacts DEF Serving
  <2>2. conn' = [conn EXCEPT ![rd[i].conn] = r]
    BY Zenon, <1>1, <2>1, FollowsItself DEF ROf
  <2>3. rd' = [rd EXCEPT ![i] = q] /\ q.pc = "send" /\ q.held = m
    BY Zenon, <1>3, <2>1, PeerFacts DEF Forward, ReaderState
  <2>4. Becomes(i, r, q)
    BY ZenonT(30), <1>1, <2>1, <2>2, <2>3 DEF Becomes, OthersSame
  <2>5. Pending(q) = <<m>> /\ Pending(rd[i]) = <<>> /\ Over(r, q) = Over(r, rd[i])
    BY Zenon, <1>1, <2>3 DEF Pending, Over
  <2>6. r = conn[slot[i]] /\ r.ready
    BY Zenon, <1>1, <2>1 DEF ROf, StageOK
  <2> HIDE DEF r, q
  <2>7. /\ Shows(i, View(r, q), <<m>>) /\ links[i] = View(r, rd[i]) /\ holds[i] = <<>>
    BY ZenonT(30), <2>4, <2>5, <2>6, OneView
  <2> DEFINE d == Over(r, rd[i])
  <2>8. /\ View(r, q) = Known(r.ready, r.services, d, r.requests)
        /\ View(r, rd[i]) = Known(r.ready, r.services, d, r.requests)
    BY Zenon, <2>5, ViewKnown
  <2> HIDE DEF d
  <2>9. Shows(i, links[i], <<m>>)
    BY Zenon, <2>7, <2>8
  <2>10. links[i].ready
    BY SMTT(20), <2>6, <2>7 DEF View, Known
  <2>11. UNCHANGED inbox
    BY Zenon, <1>1 DEF OthersSame
  <2> QED
    BY ZenonT(30), <1>1, <2>1, <2>7, <2>9, <2>10, <2>11, MapTake
<1> QED
  BY Zenon, <1>2, <1>3 DEF ReceiveForwarded

(* A block: not asked for, not valid, or forwarded.                        *)
LEMMA BlockMapped ==
    ASSUME PeerInv, NEW i \in Slot, NEW m \in Speech, ReceiveBlock(i, m)
    PROVE  LinkStep
<1> DEFINE r == ROf(i)
           x == r.requests \ {m.hash}
           s == [r EXCEPT !.requests = x]
<1>1. /\ rd[i].pc = "read" /\ r.stage = "Ready" /\ m.kind = "block"
      /\ OthersSame
  BY Zenon DEF ReceiveBlock, Ready, Complete
<1>2. /\ r \in Connection /\ StageOK(r) /\ rd[i] \in ReaderState
      /\ slot[i] = rd[i].conn /\ slot[i] # 0 /\ r = conn[slot[i]]
  BY SMTT(20), <1>1, ReaderFacts, PeerFacts DEF Serving, ROf
<1>3. conn' = [conn EXCEPT ![rd[i].conn] = s]
  BY Zenon DEF ReceiveBlock, RequestsAfter, ROf
<1>4. /\ s.ready = r.ready /\ s.services = r.services /\ s.requests = x
      /\ s.ended = r.ended /\ r.ready
  BY Zenon, <1>1, <1>2 DEF Connection, StageOK
<1>5. UNCHANGED inbox
  BY Zenon, <1>1 DEF OthersSame
<1>6. CASE m.hash \notin r.requests
  <2>1. Alike(r, s)
    BY Zenon, <1>4, <1>6 DEF Alike
  <2>2. Finish(i, "UnrequestedBlock")
    BY Zenon, <1>6 DEF ReceiveBlock
  <2> HIDE DEF s
  <2> QED
    BY ZenonT(30), <1>1, <1>3, <2>1, <2>2, FinishGoesOn, GoesOnMapped
<1>7. CASE m.hash \in r.requests
  <2>1. CASE Finish(i, "InvalidBlock")
    <3> DEFINE q == [rd[i] EXCEPT !.pc = "end", !.why = Blame("InvalidBlock")]
    <3>1. rd' = [rd EXCEPT ![i] = q] /\ q.pc = "end"
      BY ZenonT(30), <1>2, <2>1, PeerFacts DEF Finish, ReaderState
    <3>2. Becomes(i, s, q)
      BY ZenonT(30), <1>1, <1>2, <1>3, <3>1 DEF Becomes, OthersSame
    <3>3. Over(s, q) /\ Pending(q) = Pending(rd[i])
      BY Zenon, <1>1, <3>1 DEF Pending, Over
    <3> DEFINE d == Over(r, rd[i])
               e == Over(s, q)
    <3> HIDE DEF r, s, q, x
    <3>4. Shows(i, View(s, q), holds[i]) /\ links[i] = View(r, rd[i])
      BY ZenonT(30), <1>2, <3>2, <3>3, OneView
    <3>5. e = TRUE
      BY Zenon, <3>3 DEF Over
    <3>6. links[i] = Known(r.ready, r.services, d, r.requests)
      BY Zenon, <3>4, ViewKnown
    <3>7. View(s, q) = Known(r.ready, r.services, e, x)
      BY Zenon, <1>4, ViewKnown
    <3> HIDE DEF d, e
    <3>8. OwesDoomed(links[i], x, e) = View(s, q)
      BY SMTT(20), <3>6, <3>7, KnownOwesDoomed
    <3>9. links[i].requests = r.requests
      BY SMTT(20), <3>6, KnownFields
    <3>10. x = links[i].requests \ {m.hash} /\ m.hash \in links[i].requests
      BY Zenon, <1>7, <3>9 DEF x
    <3>11. Shows(i, OwesDoomed(links[i], links[i].requests \ {m.hash}, e), holds[i])
      BY Zenon, <3>4, <3>8, <3>10
    <3>12. e = TRUE => LinkStep
      BY ZenonT(30), <1>2, <1>5, <3>10, <3>11, MapSpoil
    <3> QED
      BY Zenon, <3>5, <3>12
  <2>2. CASE Forward(i, m)
    <3> DEFINE q == [rd[i] EXCEPT !.pc = "send", !.held = m]
    <3>1. rd' = [rd EXCEPT ![i] = q] /\ q.pc = "send" /\ q.held = m
      BY Zenon, <1>2, <2>2, PeerFacts DEF Forward, ReaderState
    <3>2. Becomes(i, s, q)
      BY ZenonT(30), <1>1, <1>2, <1>3, <3>1 DEF Becomes, OthersSame
    <3>3. Pending(q) = <<m>> /\ Pending(rd[i]) = <<>> /\ Over(s, q) = Over(r, rd[i])
      BY Zenon, <1>1, <1>4, <3>1 DEF Pending, Over
    <3> DEFINE d == Over(r, rd[i])
    <3> HIDE DEF r, s, q, x
    <3>4. Shows(i, View(s, q), <<m>>) /\ links[i] = View(r, rd[i]) /\ holds[i] = <<>>
      BY ZenonT(30), <1>2, <3>2, <3>3, OneView
    <3>5. links[i] = Known(r.ready, r.services, d, r.requests)
      BY Zenon, <3>4, ViewKnown
    <3>6. View(s, q) = Known(r.ready, r.services, d, x)
      BY Zenon, <1>4, <3>3, ViewKnown
    <3> HIDE DEF d
    <3>7. Owes(links[i], x) = View(s, q)
      BY SMTT(20), <3>5, <3>6, KnownOwes
    <3>8. links[i].requests = r.requests /\ links[i].ready = r.ready
      BY <3>5, KnownFields
    <3>9. x = links[i].requests \ {m.hash} /\ m.hash \in links[i].requests
      BY Zenon, <1>7, <3>8 DEF x
    <3>10. Shows(i, Owes(links[i], links[i].requests \ {m.hash}), <<m>>)
      BY Zenon, <3>4, <3>7, <3>9
    <3>11. links[i].ready
      BY Zenon, <1>4, <3>8
    <3> QED
      BY ZenonT(30), <1>1, <1>2, <1>5, <3>4, <3>9, <3>10, <3>11, MapTake
  <2> QED
    BY Zenon, <1>7, <2>1, <2>2 DEF ReceiveBlock
<1> QED
  BY Zenon, <1>6, <1>7

(* What is forwarded enters the queue, or is lost with the node's stop.    *)
LEMMA SendsMapped ==
    ASSUME PeerInv, NEW i \in Slot, ReaderSends(i)
    PROVE  LinkStep
<1> DEFINE r == ROf(i)
<1>1. rd[i].pc = "send" /\ UNCHANGED <<conn, made, slot>>
  BY Zenon DEF ReaderSends
<1>2. /\ rd[i] \in ReaderState /\ slot[i] = rd[i].conn /\ slot[i] # 0
      /\ rd[i].conn \in 1 .. made /\ r = conn[slot[i]]
  BY SMTT(20), <1>1, ReaderFacts, PeerFacts DEF Serving, ROf
<1>3. conn' = [conn EXCEPT ![slot[i]] = r]
  BY Zenon, <1>1, <1>2, FollowsItself DEF ROf
<1>4. Pending(rd[i]) = <<rd[i].held>>
  BY Zenon, <1>1 DEF Pending
<1>5. CASE Finish(i, "NodeStopping") /\ UNCHANGED inbox
  <2> DEFINE q == [rd[i] EXCEPT !.pc = "end", !.why = Blame("NodeStopping")]
  <2>1. rd' = [rd EXCEPT ![i] = q] /\ q.pc = "end"
    BY Zenon, <1>2, <1>5, PeerFacts DEF Finish, ReaderState
  <2>2. Becomes(i, r, q)
    BY ZenonT(30), <1>1, <1>2, <1>3, <2>1 DEF Becomes
  <2>3. Over(r, q) /\ Pending(q) = <<>>
    BY Zenon, <2>1 DEF Over, Pending
  <2> DEFINE d == Over(r, rd[i])
             e == Over(r, q)
  <2> HIDE DEF r, q
  <2>4. /\ Shows(i, View(r, q), <<>>) /\ links[i] = View(r, rd[i])
        /\ holds[i] = <<rd[i].held>>
    BY ZenonT(30), <1>2, <1>4, <2>2, <2>3, OneView
  <2>5. e = TRUE
    BY Zenon, <2>3 DEF Over
  <2>6. links[i] = Known(r.ready, r.services, d, r.requests)
    BY Zenon, <2>4, ViewKnown
  <2>7. View(r, q) = Known(r.ready, r.services, e, r.requests)
    BY Zenon, ViewKnown
  <2> HIDE DEF d, e
  <2>8. Doomed(links[i], e) = View(r, q)
    BY SMTT(20), <2>6, <2>7, KnownDoomed
  <2>9. holds[i] # <<>>
    BY <2>4
  <2>10. e = TRUE => LinkStep
    BY ZenonT(30), <1>5, <2>4, <2>8, <2>9, MapDiscard
  <2> QED
    BY Zenon, <2>5, <2>10
<1>6. CASE /\ Fits(rd[i].held) /\ inbox' = Append(inbox, <<i, rd[i].held>>)
           /\ rd' = [rd EXCEPT ![i].pc = "top", ![i].held = Nothing]
  <2> DEFINE q == [rd[i] EXCEPT !.pc = "top", !.held = Nothing]
  <2>1. rd' = [rd EXCEPT ![i] = q] /\ q.pc = "top"
    BY Zenon, <1>2, <1>6, PeerFacts DEF ReaderState
  <2>2. Becomes(i, r, q)
    BY Zenon, <1>1, <1>2, <1>3, <2>1 DEF Becomes
  <2>3. Over(r, q) = Over(r, rd[i]) /\ Pending(q) = <<>>
    BY Zenon, <1>1, <2>1 DEF Over, Pending
  <2> DEFINE d == Over(r, rd[i])
  <2> HIDE DEF r, q
  <2>4. /\ Shows(i, View(r, q), <<>>) /\ links[i] = View(r, rd[i])
        /\ holds[i] = <<rd[i].held>>
    BY ZenonT(30), <1>2, <1>4, <2>2, <2>3, OneView
  <2>5. /\ links[i] = Known(r.ready, r.services, d, r.requests)
        /\ View(r, q) = Known(r.ready, r.services, d, r.requests)
    BY Zenon, <2>3, <2>4, ViewKnown
  <2> HIDE DEF d
  <2>6. Shows(i, links[i], <<>>) /\ holds[i] # <<>> /\ holds[i][1] = rd[i].held
    BY <2>4, <2>5
  <2>7. Len(inbox) < QueueItems
    BY Zenon, <1>6 DEF Fits
  <2> QED
    BY ZenonT(30), <1>6, <2>6, <2>7, MapEnqueue
<1> QED
  BY Zenon, <1>5, <1>6 DEF ReaderSends

(* The end of a connection gives up its requests.                          *)
LEMMA EndsMapped ==
    ASSUME PeerInv, NEW i \in Slot, ReaderEnds(i)
    PROVE  LinkStep
<1> DEFINE r == ROf(i)
           t == Disconnected(r, rd[i].why)
           s == [t EXCEPT !.requests = {}]
           q == [rd[i] EXCEPT !.pc = "release", !.why = "none", !.held = Nothing]
<1>1. rd[i].pc = "end" /\ OthersSame
  BY Zenon DEF ReaderEnds
<1>2. /\ r \in Connection /\ rd[i] \in ReaderState
      /\ slot[i] = rd[i].conn /\ slot[i] # 0 /\ r = conn[slot[i]]
  BY SMTT(20), <1>1, ReaderFacts, PeerFacts DEF Serving, ROf
<1>3. rd[i].why \in Verdict \ {"none"}
  BY ZenonT(30), <1>1, <1>2 DEF ReaderState, PeerInv, ReaderOK
<1>4. /\ t \in Connection /\ t.ready = r.ready /\ t.services = r.services
      /\ t.ended # "none"
  BY ZenonT(30), <1>2, <1>3, DisconnectedOK
<1>5. /\ s.ready = r.ready /\ s.services = r.services /\ s.requests = {}
      /\ s.ended # "none"
  <2> HIDE DEF t
  <2> QED
    BY Zenon, <1>4 DEF Connection
<1>6. rd' = [rd EXCEPT ![i] = q] /\ q.pc = "release"
  BY Zenon, <1>2, PeerFacts DEF ReaderEnds, ReaderState
<1>7. conn' = [conn EXCEPT ![rd[i].conn] = s]
  BY Zenon DEF ReaderEnds, ROf
<1>8. Becomes(i, s, q)
  BY Zenon, <1>1, <1>2, <1>6, <1>7 DEF Becomes, OthersSame
<1>9. Over(s, q) = Over(r, rd[i]) /\ Pending(q) = <<>> /\ Pending(rd[i]) = <<>>
  BY Zenon, <1>1, <1>5, <1>6 DEF Over, Pending
<1> DEFINE d == Over(r, rd[i])
<1> HIDE DEF r, t, s, q
<1>10. Shows(i, View(s, q), <<>>) /\ links[i] = View(r, rd[i]) /\ holds[i] = <<>>
  BY Zenon, <1>2, <1>8, <1>9, OneView
<1>11. d
  BY Zenon, <1>1 DEF Over
<1>12. links[i] = Known(r.ready, r.services, d, r.requests)
  BY Zenon, <1>10, ViewKnown
<1>13. View(s, q) = Known(r.ready, r.services, d, {})
  BY Zenon, <1>5, <1>9, ViewKnown
<1> HIDE DEF d
<1>14. Owes(links[i], {}) = View(s, q) /\ links[i].doomed = d
  BY SMTT(20), <1>12, <1>13, KnownOwes, KnownFields
<1>15. UNCHANGED inbox
  BY Zenon, <1>1 DEF OthersSame
<1>16. Shows(i, Owes(links[i], {}), <<>>)
  BY Zenon, <1>10, <1>14
<1>17. links[i].doomed
  BY Zenon, <1>11, <1>14
<1> QED
  BY ZenonT(30), <1>2, <1>10, <1>15, <1>16, <1>17, MapGiveUp

(* A reader takes the connection of its slot.                              *)
LEMMA TakesMapped ==
    ASSUME PeerInv, NEW i \in Slot, ReaderTakes(i)
    PROVE  LinkStep
<1> DEFINE c == slot[i]
           r == conn[c]
           s == IF i \in Outbound THEN Push(r, {}) ELSE r
           refused == i \in Outbound /\ s.closed
           q == [rd[i] EXCEPT !.conn = c,
                              !.pc = IF refused THEN "end" ELSE "top",
                              !.why = IF refused THEN Blame("OutboxFull") ELSE @]
<1>1. rd[i].pc = "wait" /\ c # 0 /\ OthersSame
  BY Zenon DEF ReaderTakes
<1>2. r \in Connection /\ rd[i] \in ReaderState
  BY Zenon, <1>1, SlotFacts, PeerFacts
<1>3. s.ready = r.ready /\ s.services = r.services /\ s.requests = r.requests
      /\ s.ended = r.ended
  BY ZenonT(30), <1>2, PushOK
<1>4. conn' = [conn EXCEPT ![c] = s]
  BY Zenon DEF ReaderTakes
<1>5. rd' = [rd EXCEPT ![i] = q]
  <2> DEFINE p == IF refused THEN "end" ELSE "top"
  <2>1. rd' = [rd EXCEPT ![i].conn = c, ![i].pc = p,
                         ![i].why = IF refused THEN Blame("OutboxFull") ELSE @]
    BY Zenon DEF ReaderTakes
  <2> HIDE DEF s, refused, p
  <2>2. rd' = [rd EXCEPT ![i] = [rd[i] EXCEPT !.conn = c, !.pc = p,
                         !.why = IF refused THEN Blame("OutboxFull") ELSE @]]
    BY Zenon, <2>1, PeerFacts
  <2> QED
    BY Zenon, <2>2 DEF p
<1>6. q.pc \in {"top", "end"}
  <2> HIDE DEF s, refused
  <2> QED
    BY Zenon, <1>2 DEF ReaderState
<1> HIDE DEF s, q
<1>7. Becomes(i, s, q)
  BY Zenon, <1>1, <1>4, <1>5 DEF Becomes, OthersSame
<1>8. (Over(r, rd[i]) => Over(s, q)) /\ Pending(q) = Pending(rd[i])
  BY Zenon, <1>1, <1>3, <1>6 DEF Over, Pending
<1>9. UNCHANGED inbox
  BY Zenon, <1>1 DEF OthersSame
<1> QED
  BY ZenonT(30), <1>3, <1>7, <1>8, <1>9, FadesMapped

-----------------------------------------------------------------------------
(* The steps PeerLink does not see.                                        *)

(* What PeerLink sees of the connection in a slot.                         *)
Unseen(r, s) ==
    /\ s.ready = r.ready /\ s.services = r.services /\ s.requests = r.requests
    /\ s.ended = "none" <=> r.ended = "none"

(* A step that changes nothing PeerLink sees of any slot stutters.         *)
LEMMA UnseenMapped ==
    ASSUME UNCHANGED <<made, slot, inbox>>,
           \A j \in Slot : /\ rd'[j].pc = "end" <=> rd[j].pc = "end"
                           /\ Pending(rd'[j]) = Pending(rd[j]),
           \A j \in Slot : slot[j] # 0 => Unseen(conn[slot[j]], conn'[slot[j]])
    PROVE  LinkStep
<1>1. ASSUME NEW j \in Slot PROVE ViewAt(j)' = ViewAt(j)
  <2>1. CASE slot[j] = 0
    BY Zenon, <2>1 DEF ViewAt
  <2>2. CASE slot[j] # 0
    <3> DEFINE r == conn[slot[j]]
               s == conn'[slot[j]]
    <3>1. Unseen(r, s) /\ (rd'[j].pc = "end" <=> rd[j].pc = "end")
      BY Zenon, <2>2
    <3>2. ViewAt(j) = View(r, rd[j]) /\ ViewAt(j)' = View(s, rd'[j])
      BY Zenon, <2>2 DEF ViewAt
    <3> HIDE DEF r, s
    <3>3. View(s, rd'[j]) = View(r, rd[j])
      <4>1. Over(s, rd'[j]) = Over(r, rd[j])
        BY Zenon, <3>1 DEF Over, Unseen
      <4>2. /\ s.ready = r.ready /\ s.services = r.services
            /\ s.requests = r.requests
        BY Zenon, <3>1 DEF Unseen
      <4> QED
        BY Zenon, <4>1, <4>2, ViewKnown
    <3> QED
      BY Zenon, <3>2, <3>3
  <2> QED
    BY Zenon, <2>1, <2>2
<1>2. links' = links
  <2> HIDE DEF ViewAt
  <2> QED
    BY Zenon, <1>1 DEF links
<1>3. holds' = holds
  <2> HIDE DEF Pending
  <2> QED
    BY Zenon DEF holds
<1> QED
  BY Zenon, <1>2, <1>3 DEF LinkStep

(* Nothing changed is nothing seen.                                        *)
LEMMA UnseenItself == \A r : Unseen(r, r)
BY Zenon DEF Unseen

(* A step of other threads' state stutters.                                *)
LEMMA SilentMapped ==
    ASSUME UNCHANGED <<made, slot, inbox, conn, rd>>
    PROVE  LinkStep
BY Zenon, UnseenMapped, UnseenItself

(* A change to one connection that PeerLink does not see.                  *)
LEMMA UnseenChange ==
    ASSUME PeerInv, NEW c \in 1 .. made, NEW s,
           conn' = [conn EXCEPT ![c] = s],
           Unseen(conn[c], s) \/ \A j \in Slot : slot[j] # c,
           UNCHANGED <<made, slot, inbox, rd>>
    PROVE  LinkStep
<1>1. ASSUME NEW j \in Slot, slot[j] # 0 PROVE Unseen(conn[slot[j]], conn'[slot[j]])
  <2>1. slot[j] \in 1 .. Len(conn) /\ c \in 1 .. Len(conn)
    BY Zenon, <1>1, SlotFacts, PeerFacts
  <2>2. CASE slot[j] = c
    <3>1. conn'[slot[j]] = s /\ Unseen(conn[c], s)
      BY SMTT(20), <2>1, <2>2, PeerFacts
    <3> QED
      BY Zenon, <2>2, <3>1
  <2>3. CASE slot[j] # c
    <3>1. conn'[slot[j]] = conn[slot[j]]
      BY SMTT(20), <2>1, <2>3, PeerFacts
    <3> QED
      BY Zenon, <3>1, UnseenItself
  <2> QED
    BY Zenon, <2>2, <2>3
<1> QED
  BY Zenon, <1>1, UnseenMapped

(* A reader that leaves stutters.                                          *)
LEMMA LeavesMapped ==
    ASSUME PeerInv, NEW i \in Slot, ReaderLeaves(i) \/ ReaderDiscounts(i)
    PROVE  LinkStep
<1>1. UNCHANGED <<made, slot, inbox, conn>> /\ rd[i].pc \in {"wait", "discount"}
  BY Zenon DEF ReaderLeaves, ReaderDiscounts, OthersSame
<1>2. PICK pc \in {"exit", "wait"} : rd' = [rd EXCEPT ![i].pc = pc]
  BY Zenon DEF ReaderLeaves, ReaderDiscounts
<1>3. ASSUME NEW j \in Slot
      PROVE  /\ rd'[j].pc = "end" <=> rd[j].pc = "end"
             /\ Pending(rd'[j]) = Pending(rd[j])
  <2>1. CASE j = i
    <3>1. rd'[j].pc = pc
      BY ZenonT(30), <1>2, <2>1, PeerFacts DEF ReaderState
    <3> QED
      BY ZenonT(30), <1>1, <2>1, <3>1 DEF Pending
  <2>2. CASE j # i
    <3>1. rd'[j] = rd[j]
      BY Zenon, <1>2, <2>2, PeerFacts
    <3> QED
      BY Zenon, <3>1
  <2> QED
    BY Zenon, <2>1, <2>2
<1> QED
  BY ZenonT(30), <1>1, <1>3, UnseenItself, UnseenMapped

(* A claimer short of its claim stutters.                                  *)
LEMMA ClaimersMapped ==
    ASSUME \/ \E k \in Kind : \/ ClaimerIdle(k) \/ ClaimCount(k)
                              \/ \E group \in Netgroup : ClaimerTakes(k, group)
           \/ AcceptFails \/ ListenerBegins
    PROVE  LinkStep
<1>1. UNCHANGED <<made, slot, inbox, conn, rd>>
  BY Zenon DEF ClaimerIdle, ClaimCount, ClaimerTakes, AcceptFails, ListenerBegins
<1> QED
  BY Zenon, <1>1, SilentMapped

-----------------------------------------------------------------------------
(* The steps of the other threads.                                         *)

(* A disconnect is Doom or nothing.                                        *)
LEMMA DisconnectMapped ==
    ASSUME PeerInv, NEW i \in Slot, slot[i] # 0, NEW why,
           conn' = [conn EXCEPT ![slot[i]] = Disconnected(@, Blame(why))],
           UNCHANGED <<made, slot, inbox, rd>>
    PROVE  LinkStep
<1> DEFINE r == conn[slot[i]]
           s == Disconnected(r, Blame(why))
<1>1. r \in Connection
  BY Zenon, SlotFacts
<1>2. /\ s.ready = r.ready /\ s.services = r.services /\ s.requests = r.requests
      /\ s.ended # "none"
  BY ZenonT(30), <1>1, BlameOK, DisconnectedOK
<1>3. rd' = [rd EXCEPT ![i] = rd[i]]
  BY Zenon, PeerFacts
<1>4. Becomes(i, s, rd[i])
  BY Zenon, <1>3 DEF Becomes
<1>5. Over(s, rd[i])
  BY Zenon, <1>2 DEF Over
<1> HIDE DEF s
<1> QED
  BY ZenonT(30), <1>2, <1>4, <1>5, FadesMapped

(* A step of a writer is Doom or nothing.                                  *)
LEMMA WriterMapped ==
    ASSUME PeerInv, NEW i \in Slot, Writer(i)
    PROVE  LinkStep
<1> DEFINE c == wr[i].conn
<1>1. UNCHANGED <<made, slot, inbox, rd>>
  BY Zenon DEF Writer, WriterTakes, WriterPops, WriterWrites, WriterParks
<1>2. ASSUME c # 0, slot[i] # c PROVE \A j \in Slot : slot[j] # c
  BY SMTT(20), <1>2, WriterFacts, SlotFacts DEF WOf
<1>3. CASE UNCHANGED conn
  BY ZenonT(30), <1>1, <1>3, SilentMapped
<1>4. CASE WriterPops(i) /\ conn' = [conn EXCEPT ![c].outbox = Tail(@)]
  <2> DEFINE s == [WOf(i) EXCEPT !.outbox = Tail(@)]
  <2>1. c # 0
    BY Zenon, <1>4 DEF WriterPops, PeerInv, WriterOK
  <2>2. c \in 1 .. made /\ WOf(i) \in Connection
    BY Zenon, <2>1, WriterFacts
  <2>3. Unseen(WOf(i), s)
    BY Zenon, <2>2 DEF Unseen, Connection
  <2>4. conn' = [conn EXCEPT ![c] = s]
    BY ZenonT(30), <1>4 DEF WOf
  <2> HIDE DEF s
  <2> QED
    BY ZenonT(30), <1>1, <2>2, <2>3, <2>4, UnseenChange DEF WOf
<1>5. CASE WriterWrites(i) /\ conn' = [conn EXCEPT ![c].asked = @ \cup wr[i].frame]
  <2> DEFINE s == [WOf(i) EXCEPT !.asked = @ \cup wr[i].frame]
  <2>1. c # 0
    BY ZenonT(30), <1>5 DEF WriterWrites, PeerInv, WriterOK
  <2>2. c \in 1 .. made /\ WOf(i) \in Connection
    BY Zenon, <2>1, WriterFacts
  <2>3. Unseen(WOf(i), s)
    BY Zenon, <2>2 DEF Unseen, Connection
  <2>4. conn' = [conn EXCEPT ![c] = s]
    BY Zenon, <1>5 DEF WOf
  <2> HIDE DEF s
  <2> QED
    BY Zenon, <1>1, <2>2, <2>3, <2>4, UnseenChange DEF WOf
<1>6. CASE /\ WriterWrites(i)
           /\ conn' = [conn EXCEPT ![c] = Disconnected(@, Blame("WriteFailed"))]
  <2>1. c # 0
    BY Zenon, <1>6 DEF WriterWrites, PeerInv, WriterOK
  <2>2. c \in 1 .. made
    BY Zenon, <2>1, WriterFacts
  <2>3. CASE slot[i] = c
    BY ZenonT(30), <1>1, <1>6, <2>1, <2>3, DisconnectMapped
  <2>4. CASE slot[i] # c
    <3> DEFINE s == Disconnected(conn[c], Blame("WriteFailed"))
    <3>1. conn' = [conn EXCEPT ![c] = s]
      BY Zenon, <1>6
    <3> HIDE DEF s
    <3> QED
      BY ZenonT(30), <1>1, <1>2, <2>1, <2>2, <2>4, <3>1, UnseenChange
  <2> QED
    BY Zenon, <2>3, <2>4
<1>7. CASE /\ WriterParks(i) /\ c # slot[i]
           /\ conn' = [conn EXCEPT ![c] = Dropped(@)]
  <2>1. c # 0
    BY ZenonT(30), <1>7 DEF WriterParks, PeerInv, WriterOK
  <2>2. c \in 1 .. made
    BY Zenon, <2>1, WriterFacts
  <2> DEFINE s == Dropped(conn[c])
  <2>3. conn' = [conn EXCEPT ![c] = s]
    BY Zenon, <1>7
  <2> HIDE DEF s
  <2> QED
    BY ZenonT(30), <1>1, <1>2, <1>7, <2>1, <2>2, <2>3, UnseenChange
<1> QED
  BY ZenonT(30), <1>3, <1>4, <1>5, <1>6, <1>7
  DEF Writer, WriterTakes, WriterPops, WriterWrites, WriterParks

(* Requests to one slot are the chain thread's step.                       *)
LEMMA MapAsk ==
    ASSUME NEW i \in Slot, slot[i] # 0, NEW blocks \in SUBSET Hash,
           NEW over \in BOOLEAN, NEW e,
           links' = [links EXCEPT ![i].requests = @ \cup blocks, ![i].doomed = e],
           e = (links[i].doomed \/ over),
           inbox' = inbox \/ (inbox # <<>> /\ inbox' = Tail(inbox)),
           UNCHANGED <<made, slot, holds>>
    PROVE  LinkStep
<1>1. links' = [links EXCEPT ![i].requests = @ \cup blocks, ![i].doomed = @ \/ over]
  BY Zenon
<1> QED
  BY Zenon, <1>1, MapChain

(* The chain thread asks for blocks, or ends a connection.                 *)
LEMMA AskMapped ==
    ASSUME PeerInv, NEW i \in Slot, slot[i] # 0, NEW blocks \in SUBSET Hash,
           NEW r, r = conn[slot[i]], NEW s, Becomes(i, s, rd[i]),
           s.ready = r.ready, s.services = r.services,
           s.requests = r.requests \cup blocks, s.ended = "none" => r.ended = "none",
           inbox' = inbox \/ (inbox # <<>> /\ inbox' = Tail(inbox))
    PROVE  LinkStep
<1> DEFINE q == rd[i]
           d == Over(r, q)
           e == Over(s, q)
           over == s.ended # "none"
<1>1. UNCHANGED <<made, slot>>
  BY Zenon DEF Becomes
<1>2. Becomes(i, s, q)
  BY Zenon
<1> HIDE DEF q
<1>3. Shows(i, View(s, q), Pending(q)) /\ links[i] = View(r, q) /\ holds[i] = Pending(q)
  BY Zenon, <1>2, OneView DEF q
<1>4. e = (d \/ over)
  BY Zenon DEF Over
<1>5. View(s, q) = Known(r.ready, r.services, e, r.requests \cup blocks)
  BY Zenon, ViewKnown
<1>6. links[i] = Known(r.ready, r.services, d, r.requests)
  BY Zenon, <1>3, ViewKnown
<1>7. over \in BOOLEAN
  BY ZenonT(30)
<1> HIDE DEF d, e, over
<1>8. links[i].doomed = d /\ links[i].requests = r.requests
  BY SMTT(20), <1>6, KnownFields
<1>9. OwesDoomed(links[i], links[i].requests \cup blocks, e) = View(s, q)
  <2> DEFINE rest == r.requests \cup blocks
  <2>1. links[i].requests \cup blocks = rest /\ View(s, q) = Known(r.ready, r.services, e, rest)
    BY ZenonT(30), <1>5, <1>8
  <2> HIDE DEF rest
  <2>2. OwesDoomed(Known(r.ready, r.services, d, r.requests), rest, e)
          = Known(r.ready, r.services, e, rest)
    BY KnownOwesDoomed
  <2> QED
    BY Zenon, <1>6, <2>1, <2>2
<1>10. links' = [links EXCEPT ![i].requests = @ \cup blocks, ![i].doomed = e]
  BY Zenon, <1>3, <1>9 DEF Shows, OwesDoomed
<1>11. UNCHANGED holds
  BY Zenon, <1>3 DEF Shows, holds
<1>12. e = (links[i].doomed \/ over)
  BY Zenon, <1>4, <1>8
<1> QED
  BY ZenonT(30), <1>1, <1>7, <1>10, <1>11, <1>12, MapAsk

(* A turn of the chain thread is its step in PeerLink.                     *)
LEMMA TurnsMapped ==
    ASSUME PeerInv, ChainTurns
    PROVE  LinkStep
<1>1. UNCHANGED <<made, slot, rd>> /\ Tick
  BY Zenon DEF ChainTurns
<1>2. inbox' = inbox \/ (inbox # <<>> /\ inbox' = Tail(inbox))
  BY Zenon DEF ChainTurns, Recv
<1>3. CASE UNCHANGED conn
  <2>1. UNCHANGED links /\ UNCHANGED holds
    BY Zenon, <1>1, <1>3 DEF links, holds, ViewAt
  <2> QED
    BY ZenonT(30), <1>1, <1>2, <2>1, MapChain
<1>4. ASSUME NEW i \in Slot, slot[i] # 0,
             conn' = [conn EXCEPT ![slot[i]] = Disconnected(@, Blame("BlockStalling"))]
      PROVE  LinkStep
  <2> DEFINE r == conn[slot[i]]
             s == Disconnected(r, Blame("BlockStalling"))
             blocks == {}
  <2>1. r \in Connection
    BY Zenon, <1>4, SlotFacts
  <2>2. /\ s.ready = r.ready /\ s.services = r.services
        /\ s.requests = r.requests \cup blocks /\ s.ended # "none"
    <3> DEFINE blame == Blame("BlockStalling")
    <3>1. blame \in Verdict \ {"none"} /\ r.requests \cup blocks = r.requests
      BY Zenon, BlameOK
    <3> HIDE DEF r, blocks, blame
    <3> QED
      BY Zenon, <2>1, <3>1, DisconnectedOK DEF blame
  <2>3. Becomes(i, s, rd[i])
    <3>1. rd' = [rd EXCEPT ![i] = rd[i]]
      BY Zenon, <1>1, PeerFacts
    <3> QED
      BY Zenon, <1>1, <1>4, <3>1 DEF Becomes
  <2>4. blocks \in SUBSET Hash
    BY Zenon
  <2> HIDE DEF r, s, blocks
  <2>5. r = conn[slot[i]]
    BY Zenon DEF r
  <2> QED
    BY ZenonT(30), <1>2, <1>4, <2>2, <2>3, <2>4, <2>5, AskMapped
<1>5. ASSUME NEW i \in Slot, slot[i] # 0, NEW h \in Hash,
             conn' = [conn EXCEPT ![slot[i]] = Ask(@, {h})]
      PROVE  LinkStep
  <2> DEFINE r == conn[slot[i]]
             s == Ask(r, {h})
             blocks == {h}
  <2>1. r \in Connection
    BY Zenon, <1>5, SlotFacts
  <2>2. /\ s.ready = r.ready /\ s.services = r.services
        /\ s.requests = r.requests \cup blocks /\ (s.ended = "none" => r.ended = "none")
    BY SMTT(20), <2>1, AskOK
  <2>3. Becomes(i, s, rd[i])
    <3>1. rd' = [rd EXCEPT ![i] = rd[i]]
      BY Zenon, <1>1, PeerFacts
    <3> QED
      BY Zenon, <1>1, <1>5, <3>1 DEF Becomes
  <2>4. blocks \in SUBSET Hash
    BY Zenon
  <2> HIDE DEF r, s, blocks
  <2>5. r = conn[slot[i]]
    BY Zenon DEF r
  <2> QED
    BY ZenonT(30), <1>2, <1>5, <2>2, <2>3, <2>4, <2>5, AskMapped
<1> QED
  BY ZenonT(30), <1>1, <1>3, <1>4, <1>5 DEF Tick

(* The signal, the main thread and the chain thread take steps of PeerLink *)
(* or none.                                                                *)
LEMMA ControlMapped ==
    ASSUME PeerInv, ControlOK,
           \/ Signal \/ Main \/ Chain \/ ValidationLeaves \/ ControlLeaves
    PROVE  LinkStep
<1>1. CASE \/ Signal \/ MainCloses \/ MainClosesQueue \/ MainJoins \/ MainEnds
           \/ ChainLeaves \/ ChainFlushes \/ ValidationLeaves \/ ControlLeaves
  <2>1. UNCHANGED <<made, slot, inbox, conn, rd>>
    BY Zenon, <1>1 DEF Signal, MainCloses, MainClosesQueue, MainJoins, MainEnds,
       ChainLeaves, ChainFlushes, ValidationLeaves, ControlLeaves, pvars
  <2> QED
    BY Zenon, <2>1, SilentMapped
<1>2. CASE ChainTurns
  BY Zenon, <1>2, TurnsMapped
<1>3. CASE MainDisconnects
  <2> DEFINE i == Min(main.left)
  <2>1. main.left \subseteq Slot /\ main.left # {}
    BY Zenon, <1>3 DEF MainDisconnects, ControlOK
  <2>2. i \in Slot
    BY Zenon, <2>1, LeastNumber, PeerAssumption
  <2>3. UNCHANGED <<made, slot, inbox, rd>>
    BY Zenon, <1>3 DEF MainDisconnects
  <2>4. CASE slot[i] = 0
    BY ZenonT(30), <1>3, <2>3, <2>4, SilentMapped DEF MainDisconnects
  <2>5. CASE slot[i] # 0
    <3>1. conn' = [conn EXCEPT ![slot[i]] = Disconnected(@, Blame("NodeStopping"))]
      BY Zenon, <1>3, <2>5 DEF MainDisconnects
    <3> HIDE DEF i
    <3> QED
      BY ZenonT(30), <2>2, <2>3, <2>5, <3>1, DisconnectMapped
  <2> QED
    BY Zenon, <2>4, <2>5
<1> QED
  BY Zenon, <1>1, <1>2, <1>3 DEF Main, Chain

(* A slot is vacated, and a connection is made.                            *)
LEMMA ReleasesMapped ==
    ASSUME PeerInv, NEW i \in Slot, ReaderReleases(i)
    PROVE  LinkStep
<1>1. /\ rd[i].pc = "release" /\ UNCHANGED <<made, inbox>>
      /\ slot' = [slot EXCEPT ![i] = 0]
  BY Zenon DEF ReaderReleases
<1>2. slot[i] \in 1 .. Len(conn) /\ slot[i] = rd[i].conn /\ conn[slot[i]].index = i
  BY ZenonT(30), <1>1, ReaderFacts, PeerFacts DEF Serving, ROf
<1>3. slot[i] # 0 /\ conn[slot[i]].ended # "none"
  BY SMTT(20), <1>1, <1>2 DEF PeerInv, ReaderOK
<1>4. ASSUME NEW j \in Slot, j # i
      PROVE  ViewAt(j)' = ViewAt(j) /\ rd'[j] = rd[j]
  <2>1. rd'[j] = rd[j] /\ slot'[j] = slot[j]
    BY Zenon, <1>1, <1>4, PeerFacts DEF ReaderReleases
  <2>2. CASE slot[j] = 0
    BY Zenon, <2>1, <2>2 DEF ViewAt
  <2>3. CASE slot[j] # 0
    <3>1. slot[j] \in 1 .. Len(conn) /\ slot[j] # slot[i]
      BY ZenonT(30), <1>2, <1>4, <2>3, SlotFacts, PeerFacts
    <3>2. conn'[slot[j]] = conn[slot[j]]
      BY SMTT(20), <1>2, <3>1, PeerFacts DEF ReaderReleases
    <3> QED
      BY Zenon, <2>1, <2>3, <3>2 DEF ViewAt
  <2> QED
    BY Zenon, <2>1, <2>2, <2>3
<1>5. rd'[i].pc = "discount" /\ slot'[i] = 0
  BY Zenon, <1>1, PeerFacts DEF ReaderReleases, ReaderState
<1>6. ViewAt(i)' = Blank
  BY Zenon, <1>5 DEF ViewAt
<1>7. links' = [links EXCEPT ![i] = Blank]
  <2>1. \A j \in Slot : ViewAt(j)' = IF j = i THEN Blank ELSE ViewAt(j)
    BY Zenon, <1>4, <1>6
  <2> HIDE DEF ViewAt, Blank
  <2> QED
    BY Zenon, <2>1 DEF links
<1>8. \A j \in Slot : Pending(rd'[j]) = Pending(rd[j])
  <2>1. Pending(rd'[i]) = Pending(rd[i])
    BY Zenon, <1>1, <1>5 DEF Pending
  <2> QED
    BY Zenon, <1>4, <2>1
<1>9. UNCHANGED holds
  <2> HIDE DEF Pending
  <2> QED
    BY Zenon, <1>8 DEF holds
<1>10. holds[i] = <<>>
  BY Zenon, <1>1 DEF holds, Pending
<1>11. links[i].doomed
  BY Zenon, <1>3 DEF links, ViewAt, View, Known
<1> QED
  BY ZenonT(30), <1>1, <1>3, <1>7, <1>9, <1>10, <1>11, MapVacate

(* A claim is Arrive.                                                      *)
LEMMA ClaimMapped ==
    ASSUME PeerInv, MadeOK, NEW k \in Kind, Claim(k)
    PROVE  LinkStep
<1>1. CASE UNCHANGED <<slot, conn, made>>
  BY Zenon, <1>1, SilentMapped DEF Claim
<1>2. ASSUME NEW i \in Free(k),
             conn' = Append(conn, NewConnection(i, cl[k].group)),
             made' = made + 1, slot' = [slot EXCEPT ![i] = made + 1]
      PROVE  LinkStep
  <2> DEFINE r == NewConnection(i, cl[k].group)
  <2>1. i \in Slot /\ slot[i] = 0
    BY Zenon, KindFacts DEF Free
  <2>2. UNCHANGED <<rd, inbox>> /\ cl[k].pc = "claim"
    BY Zenon DEF Claim
  <2>3. made < MaxConn
    <3>1. k \in Claiming
      BY Zenon, <2>2 DEF Claiming
    <3>2. Cardinality(Claiming) # 0
      BY Zenon, <3>1, ClaimingFinite, FS_EmptySet
    <3> QED
      BY SMTT(20), <3>2, ClaimingFinite, PeerFacts, PeerAssumption DEF MadeOK, Claiming
  <2>4. rd[i].pc # "end"
    BY Zenon, <2>1 DEF PeerInv, ReaderOK, Serving
  <2>5. conn'[made + 1] = r /\ \A c \in 1 .. made : conn'[c] = conn[c]
    <3> HIDE DEF r
    <3>1. conn' = Append(conn, r)
      BY Zenon, <1>2 DEF r
    <3> QED
      BY <3>1, PeerFacts
  <2>6. /\ r.ready = FALSE /\ r.services = {} /\ r.requests = {}
        /\ r.ended = "none"
    BY Zenon DEF NewConnection
  <2>7. ViewAt(i)' = Blank
    <3>1. slot'[i] = made + 1 /\ made + 1 # 0
      BY SMTT(20), <1>2, <2>1, PeerFacts
    <3>2. ViewAt(i)' = View(r, rd[i])
      <4> HIDE DEF r
      <4> QED
        BY Zenon, <2>2, <2>5, <3>1 DEF ViewAt
    <3>3. View(r, rd[i]) = Blank
      <4> HIDE DEF r
      <4> QED
        BY Zenon, <2>4, <2>6 DEF View, Blank, Known
    <3> QED
      BY Zenon, <3>2, <3>3
  <2>8. ASSUME NEW j \in Slot, j # i PROVE ViewAt(j)' = ViewAt(j)
    <3>1. slot'[j] = slot[j]
      BY Zenon, <1>2, <2>8, PeerFacts
    <3>2. CASE slot[j] = 0
      BY Zenon, <3>1, <3>2 DEF ViewAt
    <3>3. CASE slot[j] # 0
      <4>1. conn'[slot[j]] = conn[slot[j]]
        BY Zenon, <2>5, <3>3, SlotFacts
      <4> QED
        BY Zenon, <2>2, <3>1, <3>3, <4>1 DEF ViewAt
    <3> QED
      BY Zenon, <3>2, <3>3
  <2>9. ViewAt(i) = Blank
    BY Zenon, <2>1 DEF ViewAt
  <2>10. UNCHANGED links
    <3>1. \A j \in Slot : ViewAt(j)' = ViewAt(j)
      BY Zenon, <2>7, <2>8, <2>9
    <3> HIDE DEF ViewAt
    <3> QED
      BY Zenon, <3>1 DEF links
  <2>11. UNCHANGED holds
    BY Zenon, <2>2 DEF holds
  <2> QED
    BY ZenonT(30), <1>2, <2>1, <2>2, <2>3, <2>10, <2>11, MapArrive
<1> QED
  BY Zenon, <1>1, <1>2 DEF Claim

-----------------------------------------------------------------------------
(* The theorem.                                                            *)

(* Every step of a reader is a step of PeerLink or none.                   *)
LEMMA ReaderMapped ==
    ASSUME PeerInv, NEW i \in Slot, Reader(i) \/ Hear(i)
    PROVE  LinkStep
<1>1. CASE Reader(i)
  BY ZenonT(30), <1>1, TakesMapped, LeavesMapped, QuietMapped, TicksMapped, SendsMapped,
     EndsMapped, ReleasesMapped DEF Reader
<1>2. CASE ReadEof(i) \/ ReadBroken(i)
  BY Zenon, <1>2, QuietMapped
<1>3. CASE Receive(i)
  BY ZenonT(30), <1>3, QuietMapped, OverCapMapped, VersionMapped, VerackMapped,
     PingPongMapped, BlockMapped, ForwardedMapped DEF Receive
<1> QED
  BY Zenon, <1>1, <1>2, <1>3 DEF Hear

(* Every step of the node is a step of PeerLink or none.                   *)
LEMMA NextMapped ==
    ASSUME ThreadInv, [NodeNext]_vars
    PROVE  LinkStep
<1> USE DEF ThreadInv
<1>1. CASE UNCHANGED vars
  BY Zenon, <1>1, SilentMapped DEF vars, pvars
<1>2. CASE Claimers
  BY Zenon, <1>2, ClaimersMapped, ClaimMapped DEF Claimers
<1>3. ASSUME NEW i \in Slot, Reader(i) \/ Hear(i) \/ Writer(i) PROVE LinkStep
  BY Zenon, <1>3, ReaderMapped, WriterMapped
<1>4. CASE \/ Signal \/ Main \/ Chain \/ ValidationLeaves \/ ControlLeaves
  BY Zenon, <1>4, ControlMapped
<1>5. CASE ListenerBegins
  BY Zenon, <1>5, ClaimersMapped
<1> QED
  BY ZenonT(30), <1>1, <1>2, <1>3, <1>4, <1>5 DEF NodeNext, Peers, Stopped

(* The node's initial states map to PeerLink's.                            *)
LEMMA InitMapped == NodeInit => Link!LinkInit
<1> SUFFICES ASSUME NodeInit PROVE Link!LinkInit
  BY Zenon
<1>1. slot = [i \in Slot |-> 0] /\ made = 0 /\ inbox = <<>>
  BY Zenon DEF NodeInit, PeerInit
<1>2. \A i \in Slot : rd[i].pc = "wait"
  BY Zenon DEF NodeInit, PeerInit
<1>3. \A i \in Slot : ViewAt(i) = Blank /\ Pending(rd[i]) = <<>>
  BY Zenon, <1>1, <1>2 DEF ViewAt, Pending
<1>4. links = [i \in Slot |-> Blank] /\ holds = [i \in Slot |-> <<>>]
  <2> HIDE DEF ViewAt, Pending, Blank
  <2> QED
    BY Zenon, <1>3 DEF links, holds
<1> QED
  BY Zenon, <1>1, <1>4, MapInit

(* The peer threads, the chain thread's loop and the shutdown implement    *)
(* PeerLink: a request leaves its table only with the block that answers   *)
(* it or with its connection, a block enters the queue only from the       *)
(* connection that was asked for it, and a slot is vacated only by a       *)
(* connection that has ended (session.rs block, net.rs end, slots.rs       *)
(* release), for every number of slots and every set of messages.          *)
THEOREM PeerLinkTheorem == NodeSpec => PeerLinkRefinement
<1>1. ThreadInv /\ [NodeNext]_vars => [Link!LinkNext]_(Link!lvars)
  BY Zenon, NextMapped, MapVars DEF LinkStep
<1> QED
  BY <1>1, InitMapped, ThreadInvariant, PTL
  DEF NodeSpec, PeerLinkRefinement, Link!LinkSpec
=============================================================================
