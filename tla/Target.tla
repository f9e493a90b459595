------------------------------- MODULE Target -------------------------------
(***************************************************************************)
(* 256-bit integers in limbs (consensus header/uint.rs), the compact form  *)
(* of a target and the work it stands for (header/target.rs).  The widths  *)
(* are parameters: the code has ByteBits = 8, LimbBits = 64 and Limbs = 4. *)
(* A value is a function from 1 .. Limbs, most significant limb first.     *)
(***************************************************************************)
EXTENDS Integers, Sequences, FiniteSetsExt

CONSTANTS ByteBits, LimbBits, Limbs

ASSUME TargetAssumption ==
    /\ {ByteBits, LimbBits, Limbs} \subseteq Nat \ {0}
    /\ 3 * ByteBits <= LimbBits

Limb == 2 ^ LimbBits
Bits == LimbBits * Limbs
Byte == 2 ^ ByteBits
Uint == [1 .. Limbs -> 0 .. Limb - 1]

(* What a value stands for, and its limbs (from_be_bytes, to_be_bytes).    *)
Num(u) ==
    LET v[i \in 0 .. Limbs] == IF i = 0 THEN 0 ELSE v[i - 1] * Limb + u[i] IN v[Limbs]
FromInt(n) == [i \in 1 .. Limbs |-> (n \div Limb ^ (Limbs - i)) % Limb]

UZero == [i \in 1 .. Limbs |-> 0]
FromWord(w) == [UZero EXCEPT ![Limbs] = w]
UOne == FromWord(1)
Low(u) == u[Limbs]

(* The derived order compares the limbs from the most significant down.    *)
GreaterEq(a, b) ==
    \/ a = b
    \/ \E i \in 1 .. Limbs : a[i] > b[i] /\ \A j \in 1 .. i - 1 : a[j] = b[j]

WordBits(w) == Min({n \in 0 .. LimbBits : w < 2 ^ n})
BitLen(u) ==
    LET set == {i \in 1 .. Limbs : u[i] # 0}
    IN  IF set = {} THEN 0 ELSE (Limbs - Min(set)) * LimbBits + WordBits(u[Min(set)])

Source(u, i) == IF i \in 1 .. Limbs THEN u[i] ELSE 0
Shl(u, shift) ==
    LET limb == shift \div LimbBits
        bit == shift % LimbBits
    IN  [i \in 1 .. Limbs |->
            ((Source(u, i + limb) * 2 ^ bit) % Limb)
                + (Source(u, i + limb + 1) \div 2 ^ (LimbBits - bit))]
Shr(u, shift) ==
    LET limb == shift \div LimbBits
        bit == shift % LimbBits
    IN  [i \in 1 .. Limbs |->
            (Source(u, i - limb) \div 2 ^ bit)
                + ((Source(u, i - limb - 1) * 2 ^ (LimbBits - bit)) % Limb)]

Inverted(u) == [i \in 1 .. Limbs |-> Limb - 1 - u[i]]

(* Each checked operation is whether the result fits, and the result.      *)
CheckedAdd(a, b) ==
    LET carry[i \in 0 .. Limbs] ==
            IF i = Limbs THEN 0 ELSE (a[i + 1] + b[i + 1] + carry[i + 1]) \div Limb
    IN  <<carry[0] = 0, [i \in 1 .. Limbs |-> (a[i] + b[i] + carry[i]) % Limb]>>

Sub(a, b) ==
    LET borrow[i \in 0 .. Limbs] ==
            IF i = Limbs THEN 0 ELSE IF a[i + 1] < b[i + 1] + borrow[i + 1] THEN 1 ELSE 0
    IN  [i \in 1 .. Limbs |-> (a[i] - b[i] - borrow[i]) % Limb]

CheckedMul(u, factor) ==
    LET carry[i \in 0 .. Limbs] ==
            IF i = Limbs THEN 0 ELSE (u[i + 1] * factor + carry[i + 1]) \div Limb
    IN  <<carry[0] = 0, [i \in 1 .. Limbs |-> (u[i] * factor + carry[i]) % Limb]>>

DivWord(u, divisor) ==
    LET rem[i \in 0 .. Limbs] == IF i = 0 THEN 0 ELSE (rem[i - 1] * Limb + u[i]) % divisor
    IN  [i \in 1 .. Limbs |-> (rem[i - 1] * Limb + u[i]) \div divisor]

SetBit(u, bit) == [u EXCEPT ![Limbs - (bit \div LimbBits)] = @ + 2 ^ (bit % LimbBits)]

(* Long division: the divisor is tried at every shift, the largest first.  *)
Div(u, divisor) ==
    LET top == BitLen(u) - BitLen(divisor)
        at[s \in 0 .. top + 1] ==
            IF s = top + 1 THEN [rem |-> u, quot |-> UZero]
            ELSE LET prev == at[s + 1]
                     shifted == Shl(divisor, s)
                 IN  IF GreaterEq(prev.rem, shifted)
                     THEN [rem |-> Sub(prev.rem, shifted), quot |-> SetBit(prev.quot, s)]
                     ELSE prev
    IN  IF top < 0 THEN UZero ELSE at[0].quot

-----------------------------------------------------------------------------
(* The compact form: a size in bytes and three bytes, the first of which   *)
(* has the sign in its top bit.                                            *)

SignBit == Byte ^ 3 \div 2

(* Mutant: a target one byte too long is let through.                      *)
OverflowsLate(size, word) ==
    word # 0 /\ (\/ size > (Bits \div ByteBits) + 3
                 \/ word >= Byte /\ size > (Bits \div ByteBits) + 2
                 \/ word >= Byte ^ 2 /\ size > (Bits \div ByteBits) + 1)

Overflows(size, word) ==
    word # 0 /\ (\/ size > (Bits \div ByteBits) + 2
                 \/ word >= Byte /\ size > (Bits \div ByteBits) + 1
                 \/ word >= Byte ^ 2 /\ size > (Bits \div ByteBits))

Split(bits) ==
    LET mantissa == bits.word % SignBit
        word == IF bits.size <= 3 THEN mantissa \div Byte ^ (3 - bits.size) ELSE mantissa
    IN  [size |-> bits.size, word |-> word,
         negative |-> word # 0 /\ bits.word >= SignBit,
         overflow |-> Overflows(bits.size, word)]

Expand(compact) ==
    IF compact.word = 0 THEN UZero
    ELSE IF compact.size <= 3 THEN FromWord(compact.word)
    ELSE Shl(FromWord(compact.word), ByteBits * (compact.size - 3))

(* A mantissa that would set the sign bit moves down a byte.               *)
Compress(u) ==
    LET size == (BitLen(u) + ByteBits - 1) \div ByteBits
        word == IF size <= 3 THEN Low(u) * Byte ^ (3 - size)
                ELSE Low(Shr(u, ByteBits * (size - 3)))
    IN  IF word >= SignBit THEN [size |-> size + 1, word |-> word \div Byte]
        ELSE [size |-> size, word |-> word]

DecodeTarget(bits, limit) ==
    LET compact == Split(bits) IN
    CASE compact.negative -> [err |-> "Negative", target |-> UZero]
      [] compact.overflow -> [err |-> "Overflow", target |-> UZero]
      [] Expand(compact) = UZero -> [err |-> "Zero", target |-> UZero]
      [] ~GreaterEq(limit, Expand(compact)) -> [err |-> "AbovePowLimit", target |-> UZero]
      [] OTHER -> [err |-> "", target |-> Expand(compact)]

BlockWorkOf(bits) ==
    LET compact == Split(bits)
        target == Expand(compact)
        plus_one == CheckedAdd(target, UOne)[2]
    IN  IF compact.negative \/ compact.overflow \/ target = UZero THEN UZero
        ELSE CheckedAdd(Div(Inverted(target), plus_one), UOne)[2]

HashMeetsTarget(hash, target) == GreaterEq(target, hash)

CheckHeader(bits, hash, limit) ==
    LET decoded == DecodeTarget(bits, limit)
    IN  decoded.err = "" /\ HashMeetsTarget(hash, decoded.target)

-----------------------------------------------------------------------------
(* The reference, in the integers.                                         *)

Value(bits) ==
    LET mantissa == bits.word % SignBit
    IN  IF bits.size <= 3 THEN mantissa \div Byte ^ (3 - bits.size)
        ELSE mantissa * Byte ^ (bits.size - 3)

(* A compact target is refused exactly when what it stands for is          *)
(* negative, too wide, zero or above the limit, and otherwise decodes to   *)
(* it; its work is then the whole part of 2^Bits / (target + 1).           *)
DecodedExactly(bits, limit) ==
    LET decoded == DecodeTarget(bits, limit)
        value == Value(bits)
    IN  /\ decoded.err = "" <=> bits.word < SignBit /\ value \in 1 .. Num(limit)
        /\ decoded.err = "Overflow" <=> bits.word < SignBit /\ value >= 2 ^ Bits
        /\ decoded.err = "" => /\ Num(decoded.target) = value
                               /\ Num(BlockWorkOf(bits)) = 2 ^ Bits \div (value + 1)

(* A target is written as the largest compact value that is not above it,  *)
(* and one that came from a compact value is written as it was read.       *)
EncodedExactly(u) ==
    LET bits == Compress(u)
        back == Num(Expand(Split(bits)))
        step == IF bits.size <= 3 THEN 1 ELSE Byte ^ (bits.size - 3)
    IN  /\ bits.word < SignBit /\ ~Split(bits).overflow
        /\ back <= Num(u) /\ Num(u) < back + step
=============================================================================
