------------------------------- MODULE MCReorg ------------------------------
(* A small instance of Reorg: a1 with two branches above it, a2 <- a3 and  *)
(* b2 <- b3, which tie at their first blocks and not at their second.  The *)
(* locators are those of peers on each block: with chains this short a     *)
(* locator names every block of its chain.                                 *)
EXTENDS Reorg, TLC

CONSTANTS g, a1, a2, a3, b2, b3

MCHeader == {a1, a2, a3, b2, b3}
MCPrev == (a1 :> g) @@ (a2 :> a1) @@ (a3 :> a2) @@ (b2 :> a1) @@ (b3 :> b2)
MCBlockWork == [h \in {g} \cup MCHeader |-> IF h = b3 THEN 2 ELSE 1]
MCTime == [h \in MCHeader |-> 1]
MCLocators == {<<g>>, <<a1, g>>, <<a2, a1, g>>, <<a3, a2, a1, g>>,
               <<b2, a1, g>>, <<b3, b2, a1, g>>}
=============================================================================
