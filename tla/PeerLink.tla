------------------------------ MODULE PeerLink ------------------------------
(***************************************************************************)
(* What the chain thread may rely on about peers, whatever the threads of  *)
(* Peer do: the slots and the connections in them, the request table of    *)
(* each connection, the message a reader is about to forward, and the      *)
(* queue.  Peer implements this specification (PeerLinkRefinement), and    *)
(* Download is built on it.                                                *)
(***************************************************************************)
EXTENDS Integers, Sequences, FiniteSets

CONSTANTS
    Slot,       \* the slots
    Services,   \* the sets of services a peer may have
    Message,    \* the messages a reader forwards
    Hash,       \* the blocks that may be asked for
    MaxConn,    \* how many connections are made (bound)
    QueueItems  \* the items the queue holds

VARIABLES
    made,   \* how many connections have been made
    slot,   \* the number of the connection in each slot, or 0
    link,   \* what is known of that connection
    hold,   \* what each reader is about to forward, <<>> for nothing
    inbox   \* the queue: <<slot, message>> pairs

lvars == <<made, slot, link, hold, inbox>>

(* doomed: the connection has been ended, or its reader has given it up.   *)
Fresh == [ready |-> FALSE, services |-> {}, doomed |-> FALSE, requests |-> {}]

LinkInit ==
    /\ made = 0
    /\ slot = [i \in Slot |-> 0]
    /\ link = [i \in Slot |-> Fresh]
    /\ hold = [i \in Slot |-> <<>>]
    /\ inbox = <<>>

(* A connection is claimed.                                                *)
Arrive(i) ==
    /\ slot[i] = 0 /\ made < MaxConn
    /\ made' = made + 1
    /\ slot' = [slot EXCEPT ![i] = made + 1]
    /\ UNCHANGED <<link, hold, inbox>>

(* Its handshake completes; the services are known from then on.           *)
Greet(i) ==
    /\ slot[i] # 0 /\ ~link[i].ready
    /\ \E s \in Services :
          link' = [link EXCEPT ![i].ready = TRUE, ![i].services = s]
    /\ UNCHANGED <<made, slot, hold, inbox>>

(* The reader has a message to forward; a block answers a request, which   *)
(* leaves the table at the same time.                                      *)
Take(i, m) ==
    /\ slot[i] # 0 /\ link[i].ready /\ hold[i] = <<>>
    /\ hold' = [hold EXCEPT ![i] = <<m>>]
    /\ \/ m.kind # "block" /\ UNCHANGED link
       \/ /\ m.kind = "block" /\ m.hash \in link[i].requests
          /\ link' = [link EXCEPT ![i].requests = @ \ {m.hash}]
    /\ UNCHANGED <<made, slot, inbox>>

(* A thread ends the connection, or the reader gives it up.                *)
Doom(i) ==
    /\ slot[i] # 0 /\ ~link[i].doomed
    /\ link' = [link EXCEPT ![i].doomed = TRUE]
    /\ UNCHANGED <<made, slot, hold, inbox>>

(* A block answers a request and fails its checks, on a connection that    *)
(* another thread may have ended already.                                  *)
Spoil(i) ==
    /\ slot[i] # 0
    /\ \E h \in link[i].requests :
          link' = [link EXCEPT ![i].requests = @ \ {h}, ![i].doomed = TRUE]
    /\ UNCHANGED <<made, slot, hold, inbox>>

Enqueue(i) ==
    /\ hold[i] # <<>> /\ Len(inbox) < QueueItems
    /\ inbox' = Append(inbox, <<i, hold[i][1]>>)
    /\ hold' = [hold EXCEPT ![i] = <<>>]
    /\ UNCHANGED <<made, slot, link>>

(* The reader is done with it: the requests are given up, then the slot.   *)
GiveUp(i) ==
    /\ slot[i] # 0 /\ hold[i] = <<>> /\ link[i].doomed
    /\ link' = [link EXCEPT ![i].requests = {}]
    /\ UNCHANGED <<made, slot, hold, inbox>>

Vacate(i) ==
    /\ slot[i] # 0 /\ hold[i] = <<>> /\ link[i].doomed
    /\ slot' = [slot EXCEPT ![i] = 0]
    /\ link' = [link EXCEPT ![i] = Fresh]
    /\ UNCHANGED <<made, hold, inbox>>

(* What the peer threads do while the node runs.                           *)
LinkPeers ==
    \E i \in Slot :
        \/ Arrive(i) \/ Greet(i) \/ Doom(i) \/ Spoil(i) \/ Enqueue(i)
        \/ GiveUp(i) \/ Vacate(i)
        \/ \E m \in Message : Take(i, m)

(* While it stops, the queue also closes under a reader.                   *)
Discard(i) ==
    /\ hold[i] # <<>>
    /\ hold' = [hold EXCEPT ![i] = <<>>]
    /\ link' = [link EXCEPT ![i].doomed = TRUE]
    /\ UNCHANGED <<made, slot, inbox>>

(* What the chain thread does to them: it takes from the queue, it ends a  *)
(* connection, or it asks one for blocks, which ends it when the outbox is *)
(* full.                                                                   *)
LinkChain ==
    /\ inbox' \in {inbox} \cup {Tail(q) : q \in {inbox} \ {<<>>}}
    /\ \/ UNCHANGED link
       \/ \E i \in Slot, over \in BOOLEAN :
             \E blocks \in SUBSET Hash :
                /\ slot[i] # 0
                /\ link' = [link EXCEPT ![i].requests = @ \cup blocks,
                                        ![i].doomed = @ \/ over]
    /\ UNCHANGED <<made, slot, hold>>

LinkNext == LinkPeers \/ LinkChain \/ \E i \in Slot : Discard(i)

LinkSpec == LinkInit /\ [][LinkNext]_lvars
=============================================================================
