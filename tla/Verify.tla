------------------------------- MODULE Verify -------------------------------
(***************************************************************************)
(* The verification of an input (consensus script/verify.rs, with          *)
(* taproot.rs and the counts of sigops.rs for the forms of an output).     *)
(*                                                                         *)
(* An output's script is a script of Script; its forms are recognised by   *)
(* their operations.  A witness is a sequence of elements.  Two elements   *)
(* are for taproot only: tap, an output key with the leaves it commits to, *)
(* pairs of a leaf version and a script; and control, a control block with *)
(* its leaf version and whether its length is allowed.  An annex is an     *)
(* element with the field annex.                                           *)
(***************************************************************************)
EXTENDS Script

CONSTANT WeightOffset       \* VALIDATION_WEIGHT_OFFSET

SoftForks == {"P2SH", "DERSIG", "CLTV", "CSV", "NULLDUMMY", "WITNESS", "TAPROOT"}

(* Sets of flags: the forks of which a later rests on an earlier, each     *)
(* with none, one or all of those that stand alone.                        *)
Alone == {"DERSIG", "CLTV", "CSV", "NULLDUMMY"}
FlagSets ==
    {f \cup g : f \in {{}, {"P2SH"}, {"P2SH", "WITNESS"}, {"P2SH", "WITNESS", "TAPROOT"}},
               g \in {{}, Alone} \cup {{r} : r \in Alone}}

Env(script, version, flags) == [script |-> script, version |-> version, flags |-> flags]

-----------------------------------------------------------------------------
(* The forms of a script.                                                  *)

IsPayToScriptHash(s) ==
    /\ Len(s) = 3 /\ s[1] = Op("HASH160") /\ s[3] = Op("EQUAL")
    /\ IsPush(s[2]) /\ Size(s[2].data) = 20

VersionOf(op) == IF IsPush(op) THEN 0 ELSE op.n

(* A version and one push of 2 to 40 bytes.                                *)
IsWitnessProgram(s) ==
    /\ Len(s) = 2 /\ (s[1] = Push(Empty) \/ (Name(s[1]) = "NUM" /\ s[1].n >= 1))
    /\ IsPush(s[2]) /\ Size(s[2].data) \in 2 .. 40

IsPushOnly(s) == \A i \in DOMAIN s : UpTo16(s[i])
HasOpSuccess(s) == \E i \in DOMAIN s : Name(s[i]) \in Success

(* The bytes of an element read as a script.                               *)
ScriptOf(e) ==
    IF e = Empty THEN <<>> ELSE IF "script" \in DOMAIN e THEN e.script ELSE <<Op("TRUNCATED")>>

P2wpkhScript(program) ==
    <<Op("DUP"), Op("HASH160"), Push(program), Op("EQUALVERIFY"), Op("CHECKSIG")>>

-----------------------------------------------------------------------------
(* Witness programs.  A verdict is the error, or "".                       *)

Succeeded(stack) == stack # <<>> /\ CastToBool(Last(stack))

(* The error of a script whose stack must end with one true element.       *)
Clean(end) ==
    CASE end.err # "" -> end.err
      [] Len(end.stack) # 1 -> "Cleanstack"
      [] ~Succeeded(end.stack) -> "EvalFalse"
      [] OTHER -> ""

(* The error of one whose stack must end with a true element on top.       *)
Verdicted(end) ==
    IF end.err # "" THEN end.err ELSE IF Succeeded(end.stack) THEN "" ELSE "EvalFalse"

ExecuteWitnessScript(items, script, version, flags, weight) ==
    CASE version = "tapscript" /\ HasOpSuccess(script) -> ""
      [] version = "tapscript" /\ Op("TRUNCATED") \in Range(script) -> "BadOpcode"
      [] version = "tapscript" /\ Len(items) > MaxStack -> "StackSize"
      [] \E i \in DOMAIN items : Size(items[i]) > MaxElement -> "PushSize"
      [] OTHER -> Clean(EvalScript(Env(script, version, flags), items, weight))

WitnessSize(witness) == FoldLeft(LAMBDA n, e : n + 1 + Size(e), 1, witness)

ValidationWeight(witness) == WeightOffset + WitnessSize(witness)

(* ControlBlock::parse: only the length can be wrong.                      *)
Parses(control) == "control" \in DOMAIN control /\ control.sized

(* verify_taproot_commitment: hashing is external, so an output key simply *)
(* commits to its leaves.                                                  *)
Committed(output, leafVersion, script) ==
    "tap" \in DOMAIN output /\ <<leafVersion, script>> \in output.leaves

VerifyTaproot(witness, output, flags) ==
    LET annexed == Len(witness) >= 2 /\ "annex" \in DOMAIN Last(witness)
        items == IF annexed THEN Front(witness) ELSE witness
        control == Last(items)
        script == ScriptOf(items[Len(items) - 1])
    IN  CASE witness = <<>> -> "WitnessProgramWitnessEmpty"
          [] Len(items) = 1 -> CheckSchnorr(items[1], output, "keypath", 0)
          [] ~Parses(control) -> "TaprootWrongControlSize"
          [] ~Committed(output, control.control, script) -> "WitnessProgramMismatch"
          [] control.control # "tapscript" -> ""
          [] OTHER -> ExecuteWitnessScript(Pop(items, 2), script, "tapscript", flags,
                                           ValidationWeight(witness))

VerifyWitnessProgram(witness, version, program, flags, p2sh) ==
    LET script == Last(witness) IN
    CASE version = 0 /\ Size(program) = 32 ->
            IF witness = <<>> THEN "WitnessProgramWitnessEmpty"
            ELSE IF [hash |-> script, by |-> "SHA256"] # program THEN "WitnessProgramMismatch"
            ELSE ExecuteWitnessScript(Front(witness), ScriptOf(script), "witness", flags, 0)
      [] version = 0 /\ Size(program) = 20 ->
            IF Len(witness) # 2 THEN "WitnessProgramMismatch"
            ELSE ExecuteWitnessScript(witness, P2wpkhScript(program), "witness", flags, 0)
      [] version = 0 /\ Size(program) \notin {20, 32} -> "WitnessProgramWrongLength"
      [] version = 1 /\ ~p2sh /\ Size(program) = 32 ->
            IF "TAPROOT" \in flags THEN VerifyTaproot(witness, program, flags) ELSE ""
      [] OTHER -> ""          \* left to a later fork

-----------------------------------------------------------------------------
(* An input.                                                               *)

(* A script that may be a witness program.                                 *)
Native(script, flags) == "WITNESS" \in flags /\ IsWitnessProgram(script)
VerifyProgram(script, witness, flags, p2sh) ==
    VerifyWitnessProgram(witness, VersionOf(script[1]), script[2].data, flags, p2sh)

(* The first error of two checks, the second made only if there is none.   *)
OrElse(err, next) == IF err # "" THEN err ELSE next

VerifyRedeemScript(sig, redeem, stack, witness, flags) ==
    LET script == ScriptOf(redeem) IN
    OrElse(Verdicted(EvalScript(Env(script, "base", flags), stack, 0)),
        CASE ~Native(script, flags) -> ""
          [] sig # <<Push(redeem)>> -> "WitnessMalleatedP2sh"
          [] OTHER -> VerifyProgram(script, witness, flags, TRUE))

(* Mutant: the unexpected witness is refused whatever the flags.           *)
UnexpectedAlways(flags, had, witness) == ~had /\ witness # <<>>

Unexpected(flags, had, witness) == "WITNESS" \in flags /\ ~had /\ witness # <<>>

(* The rest of verify_script, with what the script of the input left.      *)
VerifyAfter(first, sig, pubkey, witness, flags) ==
    LET native == Native(pubkey, flags)
        p2sh == "P2SH" \in flags /\ IsPayToScriptHash(pubkey)
        redeem == Last(first.stack)
        had == native \/ (p2sh /\ Native(ScriptOf(redeem), flags))
    IN  OrElse(first.err,
        OrElse(Verdicted(EvalScript(Env(pubkey, "base", flags), first.stack, 0)),
        OrElse(IF ~native THEN "" ELSE IF sig # <<>> THEN "WitnessMalleated"
               ELSE VerifyProgram(pubkey, witness, flags, FALSE),
        OrElse(IF ~p2sh THEN "" ELSE IF ~IsPushOnly(sig) THEN "SigPushonly"
               ELSE VerifyRedeemScript(sig, redeem, Front(first.stack), witness, flags),
               IF Unexpected(flags, had, witness) THEN "WitnessUnexpected" ELSE ""))))

VerifyScript(sig, pubkey, witness, flags) ==
    VerifyAfter(EvalScript(Env(sig, "base", flags), <<>>, 0), sig, pubkey, witness, flags)

-----------------------------------------------------------------------------
(* Signature operations of an input, by the form of what it spends.        *)

LastPush(sig) ==
    IF ~IsPushOnly(sig) THEN Empty
    ELSE IF sig # <<>> /\ IsPush(Last(sig)) THEN Last(sig).data ELSE Empty
InnerSigops(e) == SigopCount(ScriptOf(e), TRUE)

P2shSigopCount(pubkey, sig) == IF IsPayToScriptHash(pubkey) THEN InnerSigops(LastPush(sig)) ELSE 0

WitnessProgramSigopCount(version, program, witness) ==
    IF version # 0 THEN 0
    ELSE IF Size(program) = 20 THEN 1
    ELSE IF Size(program) = 32 /\ witness # <<>> THEN InnerSigops(Last(witness)) ELSE 0

WitnessSigopCount(sig, pubkey, witness, flags) ==
    LET redeem == ScriptOf(LastPush(sig))
        of(s) == WitnessProgramSigopCount(VersionOf(s[1]), s[2].data, witness)
    IN  IF "WITNESS" \notin flags THEN 0
        ELSE IF IsWitnessProgram(pubkey) THEN of(pubkey)
        ELSE IF IsPayToScriptHash(pubkey) /\ IsWitnessProgram(redeem) THEN of(redeem)
        ELSE 0

-----------------------------------------------------------------------------
(* The reference.                                                          *)

(* A rule that is switched on can only refuse more: whatever passes with   *)
(* it passes without.                                                      *)
OnlyTightens(sig, pubkey, witness) ==
    \A passes \in {{f \in FlagSets : VerifyScript(sig, pubkey, witness, f) = ""}} :
        \A f \in passes : \A g \in FlagSets : g \subseteq f => g \in passes
=============================================================================
