---------------------------- MODULE MCBlockIndex ----------------------------
(* Two headers: a chain whose second header is from the future, or a fork  *)
(* of two headers with equal work.                                         *)
EXTENDS BlockIndex, TLC

CONSTANTS g, h1, h2

MCChain == (h1 :> g) @@ (h2 :> h1)
MCFork == (h1 :> g) @@ (h2 :> g)
MCBlockWork == (g :> 1) @@ (h1 :> 1) @@ (h2 :> 1)
MCTime == (h1 :> 0) @@ (h2 :> 1)
=============================================================================
