------------------------------- MODULE Script -------------------------------
(***************************************************************************)
(* The script interpreter (consensus script/interpreter.rs with num.rs,    *)
(* stack.rs, opcode.rs, reader.rs and sigops.rs).                          *)
(*                                                                         *)
(* A script is the sequence of its operations: records with op, the name,  *)
(* and data for a PUSH or n for a small integer, NUM; TRUNCATED stands for *)
(* bytes that are no operation, at the end.  An element of the stack has   *)
(* one field that says what its bytes are: num, a short sequence of bytes; *)
(* script; sig, made for a key; key; or hash, of an element.  NumBase and  *)
(* the limits are parameters: the code has 256, numbers of 4 and, for lock *)
(* times, 5 bytes.                                                         *)
(***************************************************************************)
EXTENDS Integers, SequencesExt

CONSTANTS
    NumBase, NumSize, LockSize,         \* of numbers
    MaxScriptSize, MaxElement, MaxStack, MaxOps, MaxKeys,
    SigopWeight,                        \* VALIDATION_WEIGHT_PER_SIGOP_PASSED
    Size(_),                            \* bytes of an element or a script
    Verifies(_, _, _, _),               \* sighash and secp256k1: signature, key,
                                        \* signature version, script code
    TxLock, TxSequence, TxVersion,      \* of the spending transaction's input
    LockThreshold, SequenceFinal, DisableFlag, TypeFlag, SequenceMask

ASSUME ScriptAssumption ==
    /\ NumBase % 2 = 0
    /\ {NumBase, NumSize, LockSize, MaxStack, MaxOps, MaxKeys} \subseteq Nat \ {0}

Push(data) == [op |-> "PUSH", data |-> data]
NumOp(n) == [op |-> "NUM", n |-> n]
Op(name) == [op |-> name]
Name(op) == op.op

Disabled == {"CAT"}
Success == {"RESERVED", "CAT", "SUCCESS"}
IsPush(op) == Name(op) = "PUSH"
IsConditional(op) == Name(op) \in {"IF", "NOTIF", "VERIF", "ELSE", "ENDIF"}
UpTo16(op) == Name(op) \in {"PUSH", "NUM", "RESERVED"}

-----------------------------------------------------------------------------
(* Numbers: little-endian bytes, the sign in the top bit of the last.      *)

Sign == NumBase \div 2
Empty == [num |-> <<>>]
IsNum(e) == "num" \in DOMAIN e

Magnitude(bytes) ==
    LET m[i \in 0 .. Len(bytes)] == IF i = 0 THEN 0 ELSE m[i - 1] + bytes[i] * NumBase ^ (i - 1)
    IN  m[Len(bytes)]

Decodes(e, size) == IsNum(e) /\ Size(e) <= size
Decode(e) ==
    LET bytes == e.num
        sign == Sign * NumBase ^ (Len(bytes) - 1)
    IN  IF bytes = <<>> THEN 0
        ELSE IF Last(bytes) >= Sign THEN -(Magnitude(bytes) - sign) ELSE Magnitude(bytes)

Digits(n) ==
    LET d[k \in 0 .. n] == IF k = 0 THEN <<>> ELSE <<k % NumBase>> \o d[k \div NumBase] IN d[n]

(* The sign is the top bit, of a byte of its own if that bit is taken.     *)
Signed(bytes, sign) ==
    IF bytes[Len(bytes)] >= Sign THEN [num |-> Append(bytes, sign)]
    ELSE [num |-> [bytes EXCEPT ![Len(bytes)] = @ + sign]]

Encode(n) ==
    IF n = 0 THEN Empty
    ELSE IF n < 0 THEN Signed(Digits(-n), Sign) ELSE Signed(Digits(n), 0)

Bool(b) == IF b THEN [num |-> <<1>>] ELSE Empty
ToInt(b) == IF b THEN 1 ELSE 0

(* Zero of either sign is false.                                           *)
CastToBool(e) ==
    IF IsNum(e)
    THEN \E i \in DOMAIN e.num : e.num[i] # 0 /\ ~(i = Len(e.num) /\ e.num[i] = Sign)
    ELSE IF "script" \in DOMAIN e THEN \E i \in DOMAIN e.script : e.script[i] # Push(Empty)
    ELSE TRUE

-----------------------------------------------------------------------------
(* The machine: its error if it has failed, the stacks, the condition      *)
(* stack as its depth and its first false entry, the operations counted    *)
(* and read, the script code, the weight left.  conds and checks are not   *)
(* in the code: the condition stack entry by entry, and the signature      *)
(* checks made.                                                            *)

NoFalse == -1
Machine(stack, script, weight) ==
    [err |-> "", stack |-> stack, alt |-> <<>>, depth |-> 0, first |-> NoFalse,
     ops |-> 0, read |-> 0, separator |-> 0, code |-> script, weight |-> weight,
     conds |-> <<>>, checks |-> 0]

Fail(m, err) == [m EXCEPT !.err = err]
Top(stack, depth) == stack[Len(stack) - depth + 1]
Pop(stack, n) == SubSeq(stack, 1, Len(stack) - n)
Put(m, n, items) == [m EXCEPT !.stack = Pop(m.stack, n) \o items]
Need(m, n, next) == IF Len(m.stack) < n THEN Fail(m, "InvalidStackOperation") ELSE next
NeedNums(m, n, next) ==
    Need(m, n, IF \E i \in 1 .. n : ~Decodes(Top(m.stack, i), NumSize) THEN Fail(m, "Scriptnum")
               ELSE next)
Arg(m, depth) == Decode(Top(m.stack, depth))

(* What the VERIFY form of an operation does with the result it pushed.    *)
Verdict(m, n, name, plain, b) ==
    IF name = plain THEN Put(m, n, <<Bool(b)>>)
    ELSE IF b THEN Put(m, n, <<>>) ELSE Fail(m, name)

-----------------------------------------------------------------------------
(* The condition stack.                                                    *)

Executing(m) == m.first = NoFalse

PushCondition(m, value) ==
    [m EXCEPT !.first = IF m.first = NoFalse /\ ~value THEN m.depth ELSE @,
              !.depth = @ + 1,
              !.conds = Append(@, value)]

(* Mutant: the false entry of an inner branch is cleared by its end.       *)
PopConditionAny(m) ==
    [m EXCEPT !.depth = @ - 1,
              !.first = IF m.first >= m.depth - 2 THEN NoFalse ELSE @,
              !.conds = Front(@)]

PopCondition(m) ==
    [m EXCEPT !.depth = @ - 1,
              !.first = IF m.first = m.depth - 1 THEN NoFalse ELSE @,
              !.conds = Front(@)]

ToggleTop(m) ==
    [m EXCEPT !.first = IF m.first = NoFalse THEN m.depth - 1
                        ELSE IF m.first = m.depth - 1 THEN NoFalse ELSE @,
              !.conds[m.depth] = ~@]

Branch(env, m, name) ==
    LET e == Top(m.stack, 1)
        minimal == e \in {Empty, [num |-> <<1>>]}
    IN  IF ~Executing(m) THEN PushCondition(m, FALSE)
        ELSE Need(m, 1, IF env.version = "tapscript" /\ ~minimal THEN Fail(m, "TapscriptMinimalif")
                        ELSE PushCondition(Put(m, 1, <<>>), CastToBool(e) = (name = "IF")))

-----------------------------------------------------------------------------
(* Lock times.                                                             *)

SameKind(a, b, threshold) == (a < threshold) = (b < threshold)

LockMet(n) ==
    SameKind(TxLock, n, LockThreshold) /\ n <= TxLock /\ TxSequence # SequenceFinal

Flagged(n, flag) == (n \div flag) % 2 = 1
Masked(n) == (IF Flagged(n, TypeFlag) THEN TypeFlag ELSE 0) + (n % (SequenceMask + 1))
SequenceMet(n) ==
    /\ TxVersion >= 2 /\ ~Flagged(TxSequence, DisableFlag)
    /\ SameKind(Masked(TxSequence), Masked(n), TypeFlag)
    /\ Masked(n) <= Masked(TxSequence)

CheckLock(env, m, flag, met) ==
    IF flag \notin env.flags THEN m
    ELSE Need(m, 1, IF ~Decodes(Top(m.stack, 1), LockSize) THEN Fail(m, "Scriptnum")
                    ELSE IF Arg(m, 1) < 0 THEN Fail(m, "NegativeLocktime")
                    ELSE IF ~met THEN Fail(m, "UnsatisfiedLocktime") ELSE m)
SequenceMetOrOff(n) == Flagged(n, DisableFlag) \/ SequenceMet(n)

-----------------------------------------------------------------------------
(* Moves of the stack: how many elements an operation needs, and by depth  *)
(* the ones that take their place, the new top last.                       *)

Moves ==
    [TWODROP |-> <<2, <<>>>>, TWODUP |-> <<2, <<2, 1, 2, 1>>>>,
     THREEDUP |-> <<3, <<3, 2, 1, 3, 2, 1>>>>, TWOOVER |-> <<4, <<4, 3, 2, 1, 4, 3>>>>,
     TWOROT |-> <<6, <<4, 3, 2, 1, 6, 5>>>>, TWOSWAP |-> <<4, <<2, 1, 4, 3>>>>,
     DROP |-> <<1, <<>>>>, DUP |-> <<1, <<1, 1>>>>, NIP |-> <<2, <<1>>>>,
     OVER |-> <<2, <<2, 1, 2>>>>, ROT |-> <<3, <<2, 1, 3>>>>, SWAP |-> <<2, <<1, 2>>>>,
     TUCK |-> <<2, <<1, 2, 1>>>>]

Move(m, need, depths) ==
    Need(m, need, Put(m, need, [i \in DOMAIN depths |-> Top(m.stack, depths[i])]))

PickOrRoll(m, name) ==
    LET n == Arg(m, 1)
        under == Pop(m.stack, 1)
        at == Len(under) - n
    IN  Need(m, 2,
            IF ~Decodes(Top(m.stack, 1), NumSize) THEN Fail(m, "Scriptnum")
            ELSE IF n \notin 0 .. Len(under) - 1 THEN Fail(m, "InvalidStackOperation")
            ELSE [m EXCEPT !.stack =
                     Append(IF name = "ROLL" THEN RemoveAt(under, at) ELSE under, under[at])])

Unary(name, n) ==
    CASE name = "1ADD" -> n + 1
      [] name = "1SUB" -> n - 1
      [] name = "NEGATE" -> -n
      [] name = "ABS" -> IF n < 0 THEN -n ELSE n
      [] name = "NOT" -> ToInt(n = 0)
      [] name = "0NOTEQUAL" -> ToInt(n # 0)

Binary(name, a, b) ==
    CASE name = "ADD" -> a + b
      [] name = "SUB" -> a - b
      [] name = "BOOLAND" -> ToInt(a # 0 /\ b # 0)
      [] name = "BOOLOR" -> ToInt(a # 0 \/ b # 0)
      [] name \in {"NUMEQUAL", "NUMEQUALVERIFY"} -> ToInt(a = b)
      [] name = "NUMNOTEQUAL" -> ToInt(a # b)
      [] name = "LESSTHAN" -> ToInt(a < b)
      [] name = "GREATERTHAN" -> ToInt(a > b)
      [] name = "LESSTHANOREQUAL" -> ToInt(a <= b)
      [] name = "GREATERTHANOREQUAL" -> ToInt(a >= b)
      [] name = "MIN" -> IF a < b THEN a ELSE b
      [] name = "MAX" -> IF a > b THEN a ELSE b

Within(m) ==
    NeedNums(m, 3, Put(m, 3, <<Bool(Arg(m, 2) <= Arg(m, 3) /\ Arg(m, 3) < Arg(m, 1))>>))

Equal(m, name) ==
    Need(m, 2, Verdict(m, 2, name, "EQUAL", Top(m.stack, 2) = Top(m.stack, 1)))

Unaries == {"1ADD", "1SUB", "NEGATE", "ABS", "NOT", "0NOTEQUAL"}
Binaries ==
    {"ADD", "SUB", "BOOLAND", "BOOLOR", "NUMEQUAL", "NUMEQUALVERIFY", "NUMNOTEQUAL", "LESSTHAN",
     "GREATERTHAN", "LESSTHANOREQUAL", "GREATERTHANOREQUAL", "MIN", "MAX"}
Hashes == {"RIPEMD160", "SHA1", "SHA256", "HASH160", "HASH256"}

-----------------------------------------------------------------------------
(* Signatures.  Legacy script code has the signatures' own pushes taken    *)
(* out of it.                                                              *)

FindAndDelete(code, data) == SelectSeq(code, LAMBDA op : op # Push(data))

EncodingOK(env, sig) == sig = Empty \/ "DERSIG" \notin env.flags \/ ("sig" \in DOMAIN sig /\ sig.der)

CheckEcdsa(sig, key, env, code) ==
    "sig" \in DOMAIN sig /\ "key" \in DOMAIN key /\ Verifies(sig, key, env.version, code)

(* Pre-tapscript: whether it succeeds, and the machine after.              *)
ChecksigLegacy(env, m, sig, key) ==
    LET code == IF env.version = "base" THEN FindAndDelete(m.code, sig) ELSE m.code
    IN  IF ~EncodingOK(env, sig) THEN <<FALSE, Fail(m, "SigDer")>>
        ELSE <<CheckEcdsa(sig, key, env, code), [m EXCEPT !.checks = @ + 1]>>

(* The error of a Schnorr check, or "".  A hash type that is not allowed   *)
(* is one of the ways in which a signature does not verify.                *)
CheckSchnorr(sig, key, version, separator) ==
    IF ~("sig" \in DOMAIN sig /\ Size(sig) \in {64, 65}) THEN "SchnorrSigSize"
    ELSE IF Verifies(sig, key, version, separator) THEN "" ELSE "SchnorrSig"

(* Tapscript: a signature that is there pays its weight, and must verify   *)
(* under a key of the size that is known.                                  *)
ChecksigTapscript(env, m, sig, key) ==
    LET paid == IF sig = Empty THEN m
                ELSE [m EXCEPT !.weight = @ - SigopWeight, !.checks = @ + 1]
        err == IF Size(key) = 32 /\ sig # Empty
               THEN CheckSchnorr(sig, key, env.version, m.separator) ELSE ""
    IN  CASE paid.weight < 0 -> <<FALSE, Fail(m, "TapscriptValidationWeight")>>
          [] key = Empty -> <<FALSE, Fail(m, "TapscriptEmptyPubkey")>>
          [] err # "" -> <<FALSE, Fail(m, err)>>
          [] OTHER -> <<sig # Empty, paid>>

EvalChecksig(env, m, sig, key) ==
    IF env.version = "tapscript" THEN ChecksigTapscript(env, m, sig, key)
    ELSE ChecksigLegacy(env, m, sig, key)

(* What follows a check that has not failed.                               *)
Checked(done, Go(_, _)) == IF done[2].err # "" THEN done[2] ELSE Go(done[2], done[1])

Checksig(env, m, name) ==
    Need(m, 2, Checked(EvalChecksig(env, m, Top(m.stack, 2), Top(m.stack, 1)),
                       LAMBDA after, ok : Verdict(after, 2, name, "CHECKSIG", ok)))

Checksigadd(env, m) ==
    IF env.version # "tapscript" THEN Fail(m, "BadOpcode")
    ELSE Need(m, 3,
        IF ~Decodes(Top(m.stack, 2), NumSize) THEN Fail(m, "Scriptnum")
        ELSE Checked(EvalChecksig(env, m, Top(m.stack, 3), Top(m.stack, 1)),
                     LAMBDA after, ok : Put(after, 3, <<Encode(Arg(m, 2) + ToInt(ok))>>)))

(* The loop of checkmultisig_verify: the next signature against the next   *)
(* key, until the signatures are used up or outnumber the keys left.       *)
RECURSIVE MatchLoop(_, _, _, _, _)
MatchLoop(env, sigs, keys, code, n) ==
    IF sigs = <<>> THEN [ok |-> TRUE, err |-> "", checks |-> n]
    ELSE IF ~EncodingOK(env, sigs[1]) THEN [ok |-> FALSE, err |-> "SigDer", checks |-> n]
    ELSE LET ok == CheckEcdsa(sigs[1], keys[1], env, code)
             sigs2 == IF ok THEN Tail(sigs) ELSE sigs
         IN  IF Len(sigs2) > Len(Tail(keys)) THEN [ok |-> FALSE, err |-> "", checks |-> n + 1]
             ELSE MatchLoop(env, sigs2, Tail(keys), code, n + 1)

(* The elements from a depth down.                                         *)
Down(stack, depth, n) == [i \in 1 .. n |-> Top(stack, depth + i - 1)]

(* Legacy script code loses the signatures, each in turn.                  *)
MatchAll(env, m, sigs, keys) ==
    MatchLoop(env, sigs, keys,
              IF env.version = "base" THEN FoldLeft(FindAndDelete, m.code, sigs) ELSE m.code, 0)

(* The element below the last signature goes with the others.              *)
MultisigVerdict(env, m, name, last, match) ==
    IF match.err # "" THEN Fail(m, match.err)
    ELSE Need(m, last + 1,
        IF "NULLDUMMY" \in env.flags /\ Top(m.stack, last + 1) # Empty THEN Fail(m, "SigNulldummy")
        ELSE Verdict([m EXCEPT !.checks = @ + match.checks], last + 1, name, "CHECKMULTISIG", match.ok))

MultisigSigs(env, m, name, keyCount, sigCount) ==
    IF sigCount \notin 0 .. keyCount THEN Fail(m, "SigCount")
    ELSE Need(m, keyCount + sigCount + 2,
        MultisigVerdict(env, m, name, keyCount + sigCount + 2,
            MatchAll(env, m, Down(m.stack, keyCount + 3, sigCount), Down(m.stack, 2, keyCount))))

(* The keys count as operations.                                           *)
MultisigKeys(env, m, name, keyCount) ==
    IF keyCount \notin 0 .. MaxKeys THEN Fail(m, "PubkeyCount")
    ELSE IF m.ops + keyCount > MaxOps THEN Fail(m, "OpCount")
    ELSE Need(m, keyCount + 2,
        IF ~Decodes(Top(m.stack, keyCount + 2), NumSize) THEN Fail(m, "Scriptnum")
        ELSE MultisigSigs(env, [m EXCEPT !.ops = @ + keyCount], name, keyCount, Arg(m, keyCount + 2)))

Checkmultisig(env, m, name) ==
    IF env.version = "tapscript" THEN Fail(m, "TapscriptCheckmultisig")
    ELSE NeedNums(m, 1, MultisigKeys(env, m, name, Arg(m, 1)))

-----------------------------------------------------------------------------
(* One operation.                                                          *)

Execute(env, m, op) ==
    LET name == Name(op)
        top == Top(m.stack, 1)
    IN
    CASE name = "NUM" -> Put(m, 0, <<Encode(op.n)>>)
      [] name = "NOP" -> m
      [] name = "CLTV" -> CheckLock(env, m, "CLTV", LockMet(Arg(m, 1)))
      [] name = "CSV" -> CheckLock(env, m, "CSV", SequenceMetOrOff(Arg(m, 1)))
      [] name \in {"IF", "NOTIF"} -> Branch(env, m, name)
      [] name \in {"ELSE", "ENDIF"} ->
            IF m.depth = 0 THEN Fail(m, "UnbalancedConditional")
            ELSE IF name = "ELSE" THEN ToggleTop(m) ELSE PopCondition(m)
      [] name = "VERIFY" ->
            Need(m, 1, IF CastToBool(top) THEN Put(m, 1, <<>>) ELSE Fail(m, "Verify"))
      [] name = "RETURN" -> Fail(m, "OpReturn")
      [] name = "TOALTSTACK" -> Need(m, 1, [Put(m, 1, <<>>) EXCEPT !.alt = Append(@, top)])
      [] name = "FROMALTSTACK" ->
            IF m.alt = <<>> THEN Fail(m, "InvalidAltstackOperation")
            ELSE [Put(m, 0, <<Last(m.alt)>>) EXCEPT !.alt = Front(@)]
      [] name \in DOMAIN Moves -> Move(m, Moves[name][1], Moves[name][2])
      [] name = "IFDUP" -> Need(m, 1, IF CastToBool(top) THEN Put(m, 0, <<top>>) ELSE m)
      [] name = "DEPTH" -> Put(m, 0, <<Encode(Len(m.stack))>>)
      [] name \in {"PICK", "ROLL"} -> PickOrRoll(m, name)
      [] name = "SIZE" -> Need(m, 1, Put(m, 0, <<Encode(Size(top))>>))
      [] name \in {"EQUAL", "EQUALVERIFY"} -> Equal(m, name)
      [] name \in Unaries -> NeedNums(m, 1, Put(m, 1, <<Encode(Unary(name, Arg(m, 1)))>>))
      [] name \in Binaries ->
            NeedNums(m, 2, LET n == Binary(name, Arg(m, 2), Arg(m, 1)) IN
                           IF name = "NUMEQUALVERIFY" THEN Verdict(m, 2, name, "", n # 0)
                           ELSE Put(m, 2, <<Encode(n)>>))
      [] name = "WITHIN" -> Within(m)
      [] name \in Hashes -> Need(m, 1, Put(m, 1, <<[hash |-> top, by |-> name]>>))
      [] name = "CODESEPARATOR" ->
            [m EXCEPT !.separator = m.read, !.code = SubSeq(env.script, m.read + 1, Len(env.script))]
      [] name \in {"CHECKSIG", "CHECKSIGVERIFY"} -> Checksig(env, m, name)
      [] name = "CHECKSIGADD" -> Checksigadd(env, m)
      [] name \in {"CHECKMULTISIG", "CHECKMULTISIGVERIFY"} -> Checkmultisig(env, m, name)
      [] OTHER -> Fail(m, "BadOpcode")

(* A push or an operation of a branch that runs, or a condition.           *)
Dispatch(env, m, op) ==
    IF Executing(m) /\ IsPush(op) THEN Put(m, 0, <<op.data>>)
    ELSE IF Executing(m) \/ IsConditional(op) THEN Execute(env, m, op)
    ELSE m

Bounded(m) ==
    IF m.err = "" /\ Len(m.stack) + Len(m.alt) > MaxStack THEN Fail(m, "StackSize") ELSE m

(* An iteration of eval_script's loop.                                     *)
Step(env, m, op) ==
    LET counts == env.version # "tapscript"
        read == [m EXCEPT !.read = @ + 1, !.ops = @ + ToInt(counts /\ ~UpTo16(op))]
    IN  CASE m.err # "" -> m
          [] Name(op) = "TRUNCATED" -> Fail(m, "BadOpcode")
          [] IsPush(op) /\ Size(op.data) > MaxElement -> Fail(m, "PushSize")
          [] read.ops > MaxOps -> Fail(m, "OpCount")
          [] Name(op) \in Disabled -> Fail(m, "DisabledOpcode")
          [] OTHER -> Bounded(Dispatch(env, read, op))

Balanced(m) == IF m.err = "" /\ m.depth # 0 THEN Fail(m, "UnbalancedConditional") ELSE m

(* env: the script, the signature version and the flags.                   *)
EvalScript(env, stack, weight) ==
    LET start == Machine(stack, env.script, weight) IN
    IF env.version # "tapscript" /\ Size([script |-> env.script]) > MaxScriptSize
    THEN Fail(start, "ScriptSize")
    ELSE Balanced(FoldLeft(LAMBDA m, op : Step(env, m, op), start, env.script))

-----------------------------------------------------------------------------
(* What a script is charged for before it is run.                          *)

(* Mutant: a verifying check is free.                                      *)
SigopsOfPlain(op, previous, accurate) ==
    CASE Name(op) = "CHECKSIG" -> 1
      [] Name(op) \in {"CHECKMULTISIG", "CHECKMULTISIGVERIFY"} ->
            IF accurate /\ Name(previous) = "NUM" /\ previous.n >= 1 THEN previous.n ELSE MaxKeys
      [] OTHER -> 0

SigopsOf(op, previous, accurate) ==
    CASE Name(op) \in {"CHECKSIG", "CHECKSIGVERIFY"} -> 1
      [] Name(op) \in {"CHECKMULTISIG", "CHECKMULTISIGVERIFY"} ->
            IF accurate /\ Name(previous) = "NUM" /\ previous.n >= 1 THEN previous.n ELSE MaxKeys
      [] OTHER -> 0

SigopCount(script, accurate) ==
    LET readable == SelectSeq(script, LAMBDA op : Name(op) # "TRUNCATED")
        previous(i) == IF i = 1 THEN Op("INVALID") ELSE readable[i - 1]
    IN  FoldLeft(LAMBDA n, i : n + SigopsOf(readable[i], previous(i), accurate), 0,
                 [i \in DOMAIN readable |-> i])

-----------------------------------------------------------------------------
(* The reference.                                                          *)

(* Some way to give the signatures to keys, in the order of both, that     *)
(* verifies them all.                                                      *)
Matchable(env, sigs, keys, code) ==
    \E f \in [DOMAIN sigs -> DOMAIN keys] :
        /\ \A i, j \in DOMAIN sigs : i < j => f[i] < f[j]
        /\ \A i \in DOMAIN sigs : CheckEcdsa(sigs[i], keys[f[i]], env, code)
=============================================================================
