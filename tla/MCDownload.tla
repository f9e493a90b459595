----------------------------- MODULE MCDownload -----------------------------
(* Instances of Download: a short chain of headers a <- b, and what peers  *)
(* say of it.                                                              *)
EXTENDS Download

MCPrev == [h \in Header |->
    CASE h = "a" -> "g" [] h = "b" -> "a"
      [] h = "x" -> IF "b" \in Header THEN "b" ELSE "a"]
MCWork == [h \in Header \cup {Genesis} |->
    CASE h = "g" -> 0 [] h = "a" -> 1 [] h = "b" -> 2 [] h = "x" -> 3]
MCFull == {{"NETWORK", "WITNESS"}}

(* A peer on the chain that ends at a, or at b: its blocks, an inventory   *)
(* and an answer with a header that is refused.                            *)
MCSayA == { [kind |-> "block", hash |-> "a"], [kind |-> "inv", hash |-> "a"],
            [kind |-> "headers", hashes |-> <<"a", "x">>] }
MCSayB == { [kind |-> "block", hash |-> "a"], [kind |-> "block", hash |-> "b"],
            [kind |-> "inv", hash |-> "b"],
            [kind |-> "headers", hashes |-> <<"b", "x">>] }
=============================================================================
