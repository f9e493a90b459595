----------------------------- MODULE BlockChecks ----------------------------
(***************************************************************************)
(* What a block must satisfy before its coins are looked at: on its own    *)
(* (check_block, check_tx), at its height (accept_block), and the rules    *)
(* the chain's parameters set for that height (params/rules.rs).           *)
(*                                                                         *)
(* A transaction is a record: its inputs ins, each an outpoint op and a    *)
(* sequence seq; its outputs outs, each a value and a script; tag and len, *)
(* the height a coinbase's script commits to and its length; v2, whether   *)
(* its version is 2 or more; lock, its lock time; sigs, its own signature  *)
(* operations; wit, its witness (0 for none).  An outpoint names a         *)
(* transaction by Txid and an output counted from 1.  A block is the       *)
(* transaction list txs, the header's time and root, and sealed: whether   *)
(* the header's proof of work and, on signet, the solution pass.  A block  *)
(* hash commits to all that came before: it is the list of blocks up to    *)
(* and including its own.                                                  *)
(***************************************************************************)
EXTENDS Merkle, FiniteSetsExt

CONSTANTS
    MaxMoney, MaxWeight, MaxSigops, \* limits on values and sizes
    Bip34Height, Bip34Hash,         \* where coinbases commit to their height
    CsvHeight, SegwitHeight,        \* where those rules start
    RepeatHashes,                   \* the blocks that may repeat a coinbase
    Bip30Limit,                     \* where commitments may repeat again
    Subsidy, HalvingInterval, MaxHalvings

ASSUME BlockAssumption ==
    /\ {MaxMoney, MaxWeight, MaxSigops, Subsidy, MaxHalvings} \subseteq Nat
    /\ {Bip34Height, CsvHeight, SegwitHeight, HalvingInterval} \subseteq Nat \ {0}
    /\ Bip30Limit > Bip34Height

ScaleFactor == 4
Null == [tx |-> ZeroHash, n |-> 0]

(* A txid leaves the witness out, a wtxid does not.                        *)
Txid(tx) == [tx EXCEPT !.wit = 0]
IsCoinbase(tx) == Len(tx.ins) = 1 /\ tx.ins[1].op = Null
Unspendable(out) == out.script.kind # "pay"

SumSeq(s) == FoldLeft(LAMBDA a, x : a + x, 0, s)
ValueOut(tx) == SumSeq([i \in DOMAIN tx.outs |-> tx.outs[i].value])
LegacySigopCount(tx) == tx.sigs

(* One unit for each input, each output and the rest of a transaction.     *)
BaseSize(tx) == 1 + Len(tx.ins) + Len(tx.outs)
BlockBase(b) == 1 + SumSeq([i \in DOMAIN b.txs |-> BaseSize(b.txs[i])])
BlockWeight(b) ==
    BlockBase(b) * ScaleFactor + SumSeq([i \in DOMAIN b.txs |-> b.txs[i].wit])

-----------------------------------------------------------------------------
(* On its own.                                                             *)

CheckOutputValues(tx) ==
    /\ \A i \in DOMAIN tx.outs : tx.outs[i].value \in 0 .. MaxMoney
    /\ ValueOut(tx) <= MaxMoney

CheckInputsDistinct(tx) ==
    \A i, j \in DOMAIN tx.ins : tx.ins[i].op = tx.ins[j].op => i = j

CheckTx(tx) ==
    /\ tx.ins # <<>> /\ tx.outs # <<>>
    /\ BaseSize(tx) * ScaleFactor <= MaxWeight
    /\ CheckOutputValues(tx)
    /\ CheckInputsDistinct(tx)
    /\ IF IsCoinbase(tx) THEN tx.len \in 2 .. 100
       ELSE \A i \in DOMAIN tx.ins : tx.ins[i].op # Null

CheckMerkleRoot(b) ==
    LET found == MerkleRoot([i \in DOMAIN b.txs |-> Txid(b.txs[i])])
    IN  found.root = b.root /\ ~found.mutated

CheckBlock(b) ==
    /\ b.sealed
    /\ CheckMerkleRoot(b)
    /\ b.txs # <<>>
    /\ Len(b.txs) * ScaleFactor <= MaxWeight /\ BlockBase(b) * ScaleFactor <= MaxWeight
    /\ \A i \in DOMAIN b.txs : IsCoinbase(b.txs[i]) <=> i = 1
    /\ \A i \in DOMAIN b.txs : CheckTx(b.txs[i])
    /\ SumSeq([i \in DOMAIN b.txs |-> LegacySigopCount(b.txs[i])]) * ScaleFactor <= MaxSigops

-----------------------------------------------------------------------------
(* The rules at a height.                                                  *)

BlockSubsidy(height) ==
    LET halvings == height \div HalvingInterval
    IN  IF halvings >= MaxHalvings THEN 0 ELSE Subsidy \div 2 ^ halvings

(* Mutant: once coinbases commit to their heights the scan is never made.  *)
Bip30AtForever(height, hash, ancestor) ==
    IF hash \in RepeatHashes THEN "Overwrite"
    ELSE IF ancestor = Bip34Hash THEN "Skip" ELSE "Enforce"

(* ancestor is the hash at Bip34Height when that is below this block.      *)
Bip30At(height, hash, ancestor) ==
    IF hash \in RepeatHashes THEN "Overwrite"
    ELSE IF ancestor = Bip34Hash /\ height < Bip30Limit THEN "Skip" ELSE "Enforce"

RulesAt(height, hash, ancestor) ==
    [bip34_active |-> height >= Bip34Height,
     csv_active |-> height >= CsvHeight,
     segwit_active |-> height >= SegwitHeight,
     bip30 |-> Bip30At(height, hash, ancestor),
     subsidy |-> BlockSubsidy(height)]

-----------------------------------------------------------------------------
(* At its height.  A context is the height, the median time past and the   *)
(* rules there.  A lock is a height or a time, and no lock is at zero.     *)

IsFinal(tx, height, cutoff) ==
    \/ tx.lock.at = 0
    \/ tx.lock.at < IF tx.lock.by = "height" THEN height ELSE cutoff
    \/ \A i \in DOMAIN tx.ins : tx.ins[i].seq.final

(* The last output that carries a commitment, or zero.                     *)
WitnessCommitmentIndex(tx) ==
    Max({0} \cup {i \in DOMAIN tx.outs : tx.outs[i].script.kind = "commit"})

WitnessRoot(b) ==
    MerkleRoot([i \in DOMAIN b.txs |-> IF i = 1 THEN ZeroHash ELSE b.txs[i]]).root

(* A commitment binds the witnesses and the coinbase's reserved value;     *)
(* without one no transaction has a witness.                               *)
CheckWitnessMalleation(b, expect) ==
    LET at == IF expect THEN WitnessCommitmentIndex(b.txs[1]) ELSE 0 IN
    IF at # 0
    THEN /\ b.txs[1].wit # 0
         /\ b.txs[1].outs[at].script.to = Digest(WitnessRoot(b), [wit |-> b.txs[1].wit])
    ELSE \A i \in DOMAIN b.txs : b.txs[i].wit = 0

AcceptBlock(b, ctx) ==
    /\ LET cutoff == IF ctx.rules.csv_active THEN ctx.mtp ELSE b.time
       IN  \A i \in DOMAIN b.txs : IsFinal(b.txs[i], ctx.height, cutoff)
    /\ ctx.rules.bip34_active => b.txs[1].tag = ctx.height
    /\ CheckWitnessMalleation(b, ctx.rules.segwit_active)
    /\ BlockWeight(b) <= MaxWeight

-----------------------------------------------------------------------------
(* The reference.                                                          *)

(* Two blocks under one header that both pass the checks on what a header  *)
(* commits to are the same block, witnesses included.                      *)
SameBlock(a, b) ==
    LET bound(c) == c.txs # <<>> /\ CheckMerkleRoot(c) /\ CheckWitnessMalleation(c, TRUE)
    IN  a.root = b.root /\ bound(a) /\ bound(b) => a.txs = b.txs
=============================================================================
