------------------------------ MODULE Sighash -------------------------------
(***************************************************************************)
(* What a signature commits to: the legacy digest, BIP 143's and BIP 341's *)
(* (consensus script/sighash.rs).                                          *)
(*                                                                         *)
(* A spend c is what the three functions are given: the version and lock   *)
(* of the transaction; its inputs ins, an outpoint op and a sequence seq   *)
(* each; its outputs outs; spent, the outputs its inputs spend, a value    *)
(* and a script each; the index of the input signed for, from 1; the       *)
(* script code; and for taproot the leaf with the position of the last     *)
(* code separator, zero for the key path, and the annex, zero for none.    *)
(* Script code is its operations ops, SEPARATOR among them, and at its end *)
(* perhaps a push that is cut off: the bytes of it that are read, cut, and *)
(* the ones that are not, lost.  Everything is a number, and a digest is   *)
(* the sequence it digests: equal only when what is hashed is.             *)
(***************************************************************************)
EXTENDS Integers, SequencesExt, FiniteSets

SEPARATOR == 0
SIGHASH_DEFAULT == 0
SIGHASH_ALL == 1
SIGHASH_NONE == 2
SIGHASH_SINGLE == 3

AnyoneCanPay(type) == (type \div 128) % 2 = 1

(* Legacy and v0 take the low five bits, whatever the others are.          *)
EcdsaHashMode(type) ==
    [anyone_can_pay |-> AnyoneCanPay(type),
     single |-> type % 32 = SIGHASH_SINGLE,
     none |-> type % 32 = SIGHASH_NONE]

ZERO_HASH == <<>>
UINT256_ONE == <<>>
NULL_OUTPUT == -1

(* A hash of items, which is never one of the constants.                   *)
HashEach(items) == <<Len(items)>> \o items

TxPrecomputed(c) ==
    [prevouts |-> HashEach([i \in DOMAIN c.ins |-> c.ins[i].op]),
     sequences |-> HashEach([i \in DOMAIN c.ins |-> c.ins[i].seq]),
     outputs |-> HashEach(c.outs),
     amounts |-> HashEach([i \in DOMAIN c.spent |-> c.spent[i].value]),
     scriptpubkeys |-> HashEach([i \in DOMAIN c.spent |-> c.spent[i].script])]

-----------------------------------------------------------------------------
(* The legacy digest.                                                      *)

(* The length counts the bytes of a cut push that are then left out.       *)
LegacyScriptCode(code) ==
    LET kept == SelectSeq(code.ops, LAMBDA op : op # SEPARATOR)
    IN  <<Len(kept) + Len(code.cut) + Len(code.lost)>> \o kept \o code.cut

LegacyInput(c, i, mode) ==
    <<c.ins[i].op>>
        \o (IF i = c.index THEN LegacyScriptCode(c.code) ELSE <<0>>)
        \o <<IF i # c.index /\ (mode.single \/ mode.none) THEN 0 ELSE c.ins[i].seq>>

LegacyInputs(c, mode) ==
    IF mode.anyone_can_pay THEN <<1>> \o LegacyInput(c, c.index, mode)
    ELSE <<Len(c.ins)>> \o FlattenSeq([i \in DOMAIN c.ins |-> LegacyInput(c, i, mode)])

(* Mutant: the outputs before the signed one are dropped, not nulled.      *)
LegacyOutputsDropped(c, mode) ==
    IF mode.none THEN <<0>> ELSE IF mode.single THEN <<1, c.outs[c.index]>> ELSE HashEach(c.outs)

LegacyOutputs(c, mode) ==
    LET count == IF mode.none THEN 0 ELSE IF mode.single THEN c.index ELSE Len(c.outs)
    IN  <<count>> \o [i \in 1 .. count |->
                        IF mode.single /\ i # c.index THEN NULL_OUTPUT ELSE c.outs[i]]

(* With no output at the input's index, SINGLE signs the number one.       *)
LegacySighash(c, type) ==
    LET mode == EcdsaHashMode(type)
    IN  IF mode.single /\ c.index > Len(c.outs) THEN UINT256_ONE
        ELSE <<c.version>> \o LegacyInputs(c, mode) \o LegacyOutputs(c, mode) \o <<c.lock, type>>

-----------------------------------------------------------------------------
(* BIP 143, where the script code is hashed as it is.                      *)

SegwitV0Sighash(c, type) ==
    LET mode == EcdsaHashMode(type)
        pre == TxPrecomputed(c)
        own == c.ins[c.index]
        outputs == IF mode.single
                   THEN IF c.index <= Len(c.outs) THEN HashEach(<<c.outs[c.index]>>) ELSE ZERO_HASH
                   ELSE IF mode.none THEN ZERO_HASH ELSE pre.outputs
    IN  <<c.version,
          IF mode.anyone_can_pay THEN ZERO_HASH ELSE pre.prevouts,
          IF mode.anyone_can_pay \/ mode.single \/ mode.none THEN ZERO_HASH ELSE pre.sequences,
          own.op, HashEach(c.code.ops \o c.code.cut \o c.code.lost), c.spent[c.index].value, own.seq,
          outputs, c.lock, type>>

-----------------------------------------------------------------------------
(* BIP 341 and 342.                                                        *)

Defined(type) == type \in 0 .. 3 \/ type \in 129 .. 131
OutputType(type) == IF type = SIGHASH_DEFAULT THEN SIGHASH_ALL ELSE type % 4

TaprootInput(c, type) ==
    LET own == c.ins[c.index]
        spent == c.spent[c.index]
    IN  <<2 * (IF c.leaf = 0 THEN 0 ELSE 1) + (IF c.annex = 0 THEN 0 ELSE 1)>>
        \o (IF AnyoneCanPay(type) THEN <<own.op, spent.value, spent.script, own.seq>>
            ELSE <<c.index - 1>>)
        \o (IF c.annex = 0 THEN <<>> ELSE <<c.annex>>)

(* No digest, for an undefined type or SINGLE without an output, is <<>>.  *)
TaprootSighash(c, type) ==
    LET out == OutputType(type)
        pre == TxPrecomputed(c)
    IN  IF ~Defined(type) \/ (out = SIGHASH_SINGLE /\ c.index > Len(c.outs)) THEN <<>>
        ELSE <<type, c.version, c.lock>>
             \o (IF AnyoneCanPay(type) THEN <<>>
                 ELSE <<pre.prevouts, pre.amounts, pre.scriptpubkeys, pre.sequences>>)
             \o (IF out = SIGHASH_ALL THEN <<pre.outputs>> ELSE <<>>)
             \o TaprootInput(c, type)
             \o (IF out = SIGHASH_SINGLE THEN <<HashEach(<<c.outs[c.index]>>)>> ELSE <<>>)
             \o (IF c.leaf = 0 THEN <<>> ELSE <<c.leaf, c.separator>>)

Digests(version, c, type) ==
    CASE version = "base" -> LegacySighash(c, type)
      [] version = "witness" -> SegwitV0Sighash(c, type)
      [] version = "tapscript" -> TaprootSighash(c, type)

-----------------------------------------------------------------------------
(* The reference: what the type of a signature says it covers.             *)

CoveredOutputs(c, out) ==
    CASE out = SIGHASH_NONE -> <<>>
      [] out = SIGHASH_SINGLE -> IF c.index <= Len(c.outs) THEN <<c.outs[c.index]>> ELSE <<>>
      [] OTHER -> c.outs

(* The input alone, or all of them, with the sequences of the others.      *)
CoveredInputs(c, anyone, sequences) ==
    LET covers == IF anyone THEN {c.index} ELSE DOMAIN c.ins IN
    {<<i, c.ins[i].op, IF i = c.index \/ sequences THEN c.ins[i].seq ELSE 0>> : i \in covers}

Alike(c, type) == [type |-> type, version |-> c.version, lock |-> c.lock]
NoDigest == [type |-> 0]

(* The place of the input is covered with the others, and by SINGLE.       *)
CoveredLegacy(c, type) ==
    LET out == type % 32
        anyone == AnyoneCanPay(type)
        placed == ~anyone \/ out = SIGHASH_SINGLE
        inputs == CoveredInputs(c, anyone, out \notin {SIGHASH_NONE, SIGHASH_SINGLE})
    IN  IF out = SIGHASH_SINGLE /\ c.index > Len(c.outs) THEN NoDigest
        ELSE Alike(c, type) @@
             [own |-> c.ins[c.index].op,
              ins |-> IF placed THEN inputs ELSE {<<0, e[2], e[3]>> : e \in inputs},
              code |-> SelectSeq(c.code.ops, LAMBDA op : op # SEPARATOR) \o c.code.cut,
              lost |-> Len(c.code.lost), outs |-> CoveredOutputs(c, out)]

CoveredV0(c, type) ==
    LET out == type % 32
        anyone == AnyoneCanPay(type)
        inputs == CoveredInputs(c, anyone, out \notin {SIGHASH_NONE, SIGHASH_SINGLE})
    IN  Alike(c, type) @@
        [own |-> c.ins[c.index].op,
         ins |-> IF anyone THEN {<<0, e[2], e[3]>> : e \in inputs} ELSE inputs,
         code |-> c.code.ops \o c.code.cut \o c.code.lost, value |-> c.spent[c.index].value,
         outs |-> CoveredOutputs(c, out)]

CoveredTaproot(c, type) ==
    LET out == IF type = 0 THEN SIGHASH_ALL ELSE type % 32
        anyone == AnyoneCanPay(type)
        inputs == {<<e[1], e[2], e[3], c.spent[e[1]].value, c.spent[e[1]].script>>
                     : e \in CoveredInputs(c, anyone, TRUE)}
    IN  IF out \notin 1 .. 3 \/ (type \div 32) % 4 # 0 \/ type = 128
             \/ (out = SIGHASH_SINGLE /\ c.index > Len(c.outs))
        THEN NoDigest
        ELSE Alike(c, type) @@
             [own |-> c.ins[c.index].op,
              ins |-> IF anyone THEN {<<0, e[2], e[3], e[4], e[5]>> : e \in inputs} ELSE inputs,
              leaf |-> IF c.leaf = 0 THEN <<>> ELSE <<c.leaf, c.separator>>, annex |-> c.annex,
              outs |-> CoveredOutputs(c, out)]

Covered(version, c, type) ==
    CASE version = "base" -> CoveredLegacy(c, type)
      [] version = "witness" -> CoveredV0(c, type)
      [] version = "tapscript" -> CoveredTaproot(c, type)

(* Two spends have one digest exactly when what is covered is the same.    *)
Binds(version, spends, types) ==
    \A pairs \in {{<<Digests(version, c, t), Covered(version, c, t)>> : c \in spends, t \in types}} :
        /\ Cardinality({p[1] : p \in pairs}) = Cardinality(pairs)
        /\ Cardinality({p[2] : p \in pairs}) = Cardinality(pairs)
=============================================================================
