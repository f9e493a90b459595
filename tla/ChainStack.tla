----------------------------- MODULE ChainStack -----------------------------
(***************************************************************************)
(* What the header tree promises of the active chain (the module comment   *)
(* of chain/tree.rs and HeaderTree::is_active): a stack of blocks rooted   *)
(* in genesis, each on its parent, that grows and shrinks by one block at  *)
(* its top and in no other way.                                            *)
(***************************************************************************)
EXTENDS Integers, Sequences

CONSTANTS Header, Genesis, Prev

VARIABLE chain

Init == chain = <<Genesis>>

Connect(b) ==
    /\ Prev[b] = chain[Len(chain)]
    /\ chain' = Append(chain, b)

Disconnect ==
    /\ Len(chain) > 1
    /\ chain' = [i \in 1 .. Len(chain) - 1 |-> chain[i]]

Next == Disconnect \/ \E b \in Header : Connect(b)

Spec == Init /\ [][Next]_chain
=============================================================================
