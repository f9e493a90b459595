-------------------------------- MODULE Codec -------------------------------
(***************************************************************************)
(* The encodings of the store: varints (store/reader.rs), coins with their *)
(* compressed amounts and scripts (store/coin.rs), and undo records        *)
(* (store/undo.rs).  Bytes are naturals.  The widths are parameters: the   *)
(* code has GroupBits = 7, VarintBits = 64 and MaxExponent = 9.  A hash or *)
(* a key is one entry of a script or a record, not 20 or 32 bytes.         *)
(***************************************************************************)
EXTENDS Integers, SequencesExt

CONSTANTS
    GroupBits, VarintBits,      \* a varint's group and the widest value
    MaxExponent, MaxAmount,     \* of an amount
    MaxInputs, MaxOutputs,      \* MAX_BLOCK_INPUTS, MAX_BLOCK_OUTPUTS
    MaxCoinHeight,              \* the widest height
    MaxScript                   \* MAX_SCRIPT_SIZE

ASSUME CodecAssumption ==
    {GroupBits, VarintBits, MaxExponent, MaxAmount, MaxInputs, MaxOutputs, MaxCoinHeight,
     MaxScript} \subseteq Nat \ {0}

Group == 2 ^ GroupBits
MaxWord == 2 ^ VarintBits - 1
MaxGroups == (VarintBits + GroupBits - 1) \div GroupBits

(* What a read leaves: the value read, or an error, and the bytes left.    *)
Got(value, rest) == [ok |-> TRUE, value |-> value, rest |-> rest]
Failed == [ok |-> FALSE, value |-> 0, rest |-> <<>>]

(* The rest of a decoder, on the value just read and the bytes after it.   *)
Then(read, Go(_, _)) == IF read.ok THEN Go(read.value, read.rest) ELSE Failed

Take(bytes, n) ==
    IF n > Len(bytes) THEN Failed
    ELSE Got(SubSeq(bytes, 1, n), SubSeq(bytes, n + 1, Len(bytes)))

-----------------------------------------------------------------------------
(* Varints: groups from the most significant down, all but the last with   *)
(* a flag, each step one less so that no value has two encodings.          *)

RECURSIVE PutGroups(_, _)
PutGroups(left, flag) ==
    IF left < Group THEN <<flag + left>>
    ELSE Append(PutGroups((left \div Group) - 1, Group), flag + (left % Group))

PutVarint(value) == PutGroups(value, 0)

(* Mutant: the step of one between groups is forgotten on the way back.    *)
NextGroupFlat(value) == value

NextGroup(value) == value + 1

RECURSIVE ReadGroups(_, _, _)
ReadGroups(bytes, value, n) ==
    IF n = 0 \/ bytes = <<>> \/ value > MaxWord \div Group THEN Failed
    ELSE LET next == value * Group + (bytes[1] % Group) IN
         IF bytes[1] < Group THEN Got(next, Tail(bytes))
         ELSE IF next = MaxWord THEN Failed
         ELSE ReadGroups(Tail(bytes), NextGroup(next), n - 1)

ReadVarint(bytes) == ReadGroups(bytes, 0, MaxGroups)

ReadCount(bytes, limit) ==
    Then(ReadVarint(bytes), LAMBDA n, rest : IF n > limit THEN Failed ELSE Got(n, rest))

-----------------------------------------------------------------------------
(* Amounts: trailing zeros become an exponent, and below the largest       *)
(* exponent the last digit, which is not zero, is one of nine.             *)

ZerosOf(value) ==
    CHOOSE e \in 0 .. MaxExponent :
        value % 10 ^ e = 0 /\ (e = MaxExponent \/ value % 10 ^ (e + 1) # 0)

CompressAmount(value) ==
    LET e == ZerosOf(value)
        left == value \div 10 ^ e
    IN  IF value = 0 THEN 0
        ELSE IF e < MaxExponent THEN ((left \div 10) * 9 + (left % 10) - 1) * 10 + e + 1
        ELSE (left - 1) * 10 + MaxExponent + 1

DecompressAmount(encoded) ==
    LET e == (encoded - 1) % 10
        left == (encoded - 1) \div 10
        value == IF e < MaxExponent THEN (left \div 9) * 10 + (left % 9) + 1 ELSE left + 1
    IN  IF encoded = 0 THEN Got(0, <<>>)
        ELSE IF value * 10 ^ e > MaxAmount THEN Failed
        ELSE Got(value * 10 ^ e, <<>>)

-----------------------------------------------------------------------------
(* Scripts: three templates are a tag and the hash or key, any other       *)
(* script is its length above the tags and its bytes.                      *)

SpecialScripts == 6

IsP2pkh(s) == Len(s) = 6 /\ SubSeq(s, 1, 3) = <<118, 169, 20>> /\ SubSeq(s, 5, 6) = <<136, 172>>
IsP2sh(s) == Len(s) = 4 /\ SubSeq(s, 1, 2) = <<169, 20>> /\ s[4] = 135

IsP2pk(s) == Len(s) = 4 /\ s[1] = 33 /\ s[4] = 172 /\ s[2] \in {2, 3}

PutScript(s) ==
    CASE IsP2pkh(s) -> PutVarint(0) \o <<s[4]>>
      [] IsP2sh(s) -> PutVarint(1) \o <<s[3]>>
      [] IsP2pk(s) -> PutVarint(s[2]) \o <<s[3]>>
      [] OTHER -> PutVarint(Len(s) + SpecialScripts) \o s

Template(tag, hash) ==
    CASE tag = 0 -> <<118, 169, 20, hash, 136, 172>>
      [] tag = 1 -> <<169, 20, hash, 135>>
      [] OTHER -> <<33, tag, hash, 172>>

ReadScript(bytes) ==
    Then(ReadVarint(bytes), LAMBDA tag, rest :
        CASE tag < 4 -> Then(Take(rest, 1), LAMBDA hash, left : Got(Template(tag, hash[1]), left))
          [] tag \in {4, 5} \/ tag - SpecialScripts > MaxScript -> Failed
          [] OTHER -> Take(rest, tag - SpecialScripts))

-----------------------------------------------------------------------------
(* Coins and undo records.                                                 *)

PutCoin(c) ==
    PutVarint(c.height * 2 + (IF c.coinbase THEN 1 ELSE 0))
        \o PutVarint(CompressAmount(c.value)) \o PutScript(c.script)

ReadCoin(bytes) ==
    Then(ReadVarint(bytes), LAMBDA code, afterCode :
        IF code \div 2 > MaxCoinHeight THEN Failed
        ELSE Then(ReadVarint(afterCode), LAMBDA amount, afterAmount :
             Then(DecompressAmount(amount), LAMBDA value, none :
             Then(ReadScript(afterAmount), LAMBDA script, left :
                 Got([height |-> code \div 2, coinbase |-> code % 2 = 1,
                      value |-> value, script |-> script], left)))))

EncodeUndo(undo) ==
    PutVarint(Len(undo.spent))
        \o FlattenSeq([i \in DOMAIN undo.spent |->
                          PutVarint(undo.spent[i].input) \o PutCoin(undo.spent[i].coin)])
        \o PutVarint(Len(undo.overwritten))
        \o FlattenSeq([i \in DOMAIN undo.overwritten |->
                          undo.overwritten[i].op \o PutCoin(undo.overwritten[i].coin)])

RECURSIVE ReadSpent(_, _, _)
ReadSpent(bytes, n, spent) ==
    IF n = 0 THEN Got(spent, bytes)
    ELSE Then(ReadCount(bytes, MaxInputs), LAMBDA input, rest :
         IF spent # <<>> /\ input <= Last(spent).input THEN Failed
         ELSE Then(ReadCoin(rest), LAMBDA coin, left :
              ReadSpent(left, n - 1, Append(spent, [input |-> input, coin |-> coin]))))

RECURSIVE ReadOverwritten(_, _, _)
ReadOverwritten(bytes, n, over) ==
    IF n = 0 THEN Got(over, bytes)
    ELSE Then(Take(bytes, 2), LAMBDA op, rest :
         Then(ReadCoin(rest), LAMBDA coin, left :
              ReadOverwritten(left, n - 1, Append(over, [op |-> op, coin |-> coin]))))

DecodeUndo(bytes) ==
    Then(ReadCount(bytes, MaxInputs), LAMBDA inputs, coins :
    Then(ReadSpent(coins, inputs, <<>>), LAMBDA spent, afterSpent :
    Then(ReadCount(afterSpent, MaxOutputs), LAMBDA outputs, outpoints :
    Then(ReadOverwritten(outpoints, outputs, <<>>), LAMBDA over, left :
        IF left # <<>> THEN Failed ELSE Got([spent |-> spent, overwritten |-> over], <<>>)))))

-----------------------------------------------------------------------------
(* The reference.                                                          *)

(* What was written is read back, and what follows it is left alone; and a *)
(* varint that can be read is the one its value would be written as.       *)
VarintExact(value) ==
    /\ ReadVarint(PutVarint(value) \o <<1>>) = Got(value, <<1>>)
    /\ Len(PutVarint(value)) <= MaxGroups
VarintOnly(bytes) ==
    LET read == ReadVarint(bytes) IN read.ok => PutVarint(read.value) \o read.rest = bytes
AmountExact(value) == DecompressAmount(CompressAmount(value)) = Got(value, <<>>)
ScriptExact(script) == ReadScript(PutScript(script) \o <<1>>) = Got(script, <<1>>)
UndoExact(undo) == DecodeUndo(EncodeUndo(undo)) = Got(undo, <<>>)
=============================================================================
