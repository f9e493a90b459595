------------------------------- MODULE Merkle -------------------------------
(***************************************************************************)
(* The merkle root of a block's transactions (consensus block/merkle.rs).  *)
(* Hashing is external: the digest of a pair is the pair itself, so that   *)
(* two digests are equal only when what they digest is, and the leaves are *)
(* records of another shape, so that no leaf is an inner node's digest.    *)
(***************************************************************************)
EXTENDS Integers, SequencesExt

ZeroHash == [zero |-> TRUE]
Digest(left, right) == [left |-> left, right |-> right]

(* Mutant: the two copies of an odd level's last entry are not seen.       *)
RepeatsNever(level) == FALSE

(* Two equal neighbours in a level, before an odd level repeats its last.  *)
Repeats(level) == \E i \in 1 .. Len(level) \div 2 : level[2 * i - 1] = level[2 * i]

(* An odd level repeats its last entry, and each pair becomes its digest.  *)
Parents(level) ==
    LET even == IF Len(level) % 2 = 1 THEN Append(level, Last(level)) ELSE level
    IN  [i \in 1 .. Len(even) \div 2 |-> Digest(even[2 * i - 1], even[2 * i])]

RECURSIVE Climb(_, _)
Climb(level, mutated) ==
    IF Len(level) <= 1
    THEN [root |-> IF level = <<>> THEN ZeroHash ELSE level[1], mutated |-> mutated]
    ELSE Climb(Parents(level), mutated \/ Repeats(level))

MerkleRoot(leaves) == Climb(leaves, FALSE)
=============================================================================
