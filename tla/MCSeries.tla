------------------------------ MODULE MCSeries ------------------------------
(* Instances of Series: two records of one length, children of one block,  *)
(* and one that is larger than a file.                                     *)
EXTENDS Series

MCSize == [r \in Record |-> IF r = "big" THEN 6 ELSE 1]
MCPrevious == [r \in Record |-> IF r = "big" THEN "b" ELSE "a"]
=============================================================================
