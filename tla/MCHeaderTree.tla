---------------------------- MODULE MCHeaderTree ----------------------------
(* A small instance of HeaderTree: a fork a1 <- {a2, d} whose leaves tie,  *)
(* one of them extended by e; a fork b1 <- b2 <- c with the same work in   *)
(* one block, whose second block accept_header refuses; and x, which has   *)
(* no proof of work.  The cap is below the number of headers that can      *)
(* enter.                                                                  *)
EXTENDS HeaderTree, TLC

CONSTANTS g, a1, a2, d, e, b1, b2, c, x

MCHeader == {a1, a2, d, e, b1, b2, c, x}
MCPrev == (a1 :> g) @@ (a2 :> a1) @@ (d :> a1) @@ (e :> a2)
          @@ (b1 :> g) @@ (b2 :> b1) @@ (c :> b2) @@ (x :> g)
MCBlockWork == [h \in {g} \cup MCHeader |-> IF h = b1 THEN 2 ELSE 1]
MCTime == [h \in MCHeader |-> IF h = a2 THEN 3 ELSE 1]
MCCheckOk == MCHeader \ {x}
MCAcceptOk == MCHeader \ {b2}
=============================================================================
