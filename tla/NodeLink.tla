------------------------------ MODULE NodeLink ------------------------------
(* What the chain thread sees of the peer threads: Node as PeerLink.       *)
EXTENDS Node

(* What PeerLink knows of a connection and of the reader that serves it.   *)
Known(a, b, d, h) == [ready |-> a, services |-> b, doomed |-> d, requests |-> h]
Blank == Known(FALSE, {}, FALSE, {})
View(r, q) == Known(r.ready, r.services, r.ended # "none" \/ q.pc = "end", r.requests)
ViewAt(i) == IF slot[i] = 0 THEN Blank ELSE View(conn[slot[i]], rd[i])
Pending(q) == IF q.pc = "send" THEN <<q.held>> ELSE <<>>

(* The refinement mapping.                                                 *)
links == [i \in Slot |-> ViewAt(i)]
holds == [i \in Slot |-> Pending(rd[i])]

(* Peer and Node implement PeerLink, what Download takes the peer threads  *)
(* for: a request leaves its table only with the block that answers it or  *)
(* with its connection, a block enters the queue only from a connection    *)
(* that was asked for it, and a slot is vacated only by a connection that  *)
(* has ended (session.rs block, net.rs end, slots.rs release).             *)
Link == INSTANCE PeerLink WITH
    Services <- {m.services : m \in {n \in Speech : n.kind = "version"}},
    Message <- Speech, hold <- holds, link <- links

PeerLinkRefinement == Link!LinkSpec
=============================================================================
