---------------------------- MODULE MCAlgorithms ----------------------------
(***************************************************************************)
(* The pure parts of the node against their references.  Either the skip   *)
(* list's arena grows, or an input is picked, x: a compact target, a value *)
(* to encode, a block, bytes and values of the store, a script with the    *)
(* stack it starts from, a multisig's signatures and keys, an input to     *)
(* verify, a kind of digest, or a signet block and the bytes of a          *)
(* solution; or x is a header chain that grows one accepted header at a    *)
(* time, or a program that grows one operation at a time.                  *)
(***************************************************************************)
EXTENDS SkipList, HeaderRules, Signet, Codec, Verify, Sighash

CONSTANTS
    MaxChain,       \* bound: headers of a chain
    MaxProgram      \* bound: operations of a script

VARIABLE x

avars == <<parent, heights, skip, x>>

NoInput == [kind |-> "none"]
MCForks == {<<5, 2>>, <<90, 50>>}

-----------------------------------------------------------------------------
(* Compact targets of 18 bits in limbs of 6 and bytes of 2, under a limit  *)
(* with ones to the end; every mantissa, sign and size, one size past what *)
(* can fit.  The values are those targets and their neighbours.            *)

PowLimit == FromInt(2 ^ 16 - 1)
ChainLimit == FromInt(2 ^ 12 - 1)
Compacts == [size : 0 .. 12, word : 0 .. 63]
Neighbours ==
    {n \in UNION {{v - 1, v, v + 1} : v \in {Value(c) : c \in Compacts}} : n \in 1 .. 2 ^ 18 - 1}
Targets == [kind : {"compact"}, bits : Compacts] \cup [kind : {"value"}, value : Neighbours]

-----------------------------------------------------------------------------
(* Header chains, under parameters like those of mainnet, testnet, testnet *)
(* with BIP 94, and regtest: three headers to a period, and a limit that   *)
(* can be multiplied by four timespans, as assert_invariants has it.       *)

Params(min, no, bip94) ==
    [limit |-> ChainLimit, spacing |-> 4, timespan |-> 12, min_difficulty |-> min,
     no_retargeting |-> no, bip94 |-> bip94]
Networks == {Params(FALSE, FALSE, FALSE), Params(TRUE, FALSE, FALSE), Params(TRUE, FALSE, TRUE),
             Params(TRUE, TRUE, FALSE)}
Genesis == [time |-> 100, bits |-> [size |-> 6, word |-> 21], version |-> 4]
Chains == [kind : {"chain"}, chain : {<<Genesis>>}, params : Networks]

(* Times around the median, on schedule, and late.                         *)
Times(chain) ==
    LET median == MedianTimePast(chain)
    IN  {median - 1, median, median + 1, Last(chain).time + 4, Last(chain).time + 40}

ExtendChain ==
    /\ x.kind = "chain" /\ Len(x.chain) < MaxChain
    /\ \E time \in Times(x.chain), version \in {1, 4} :
         \E bits \in {NextRequiredBits(x.chain, time, x.params), Compress(ChainLimit)} :
           LET header == [time |-> time, bits |-> bits, version |-> version] IN
           /\ AcceptHeader(x.chain, header, x.params)
           /\ x' = [x EXCEPT !.chain = Append(@, header)]

-----------------------------------------------------------------------------
(* Blocks: up to four transactions, one of them with and without a         *)
(* witness, under a coinbase that commits to no witness, to the witnesses  *)
(* the block has, or to none of them.                                      *)

BlockTx(tag, wit) ==
    [tag |-> tag, len |-> 2, ins |-> <<>>, outs |-> <<>>, v2 |-> TRUE,
     lock |-> [by |-> "height", at |-> 0], sigs |-> 0, wit |-> wit]
Lists == BoundedSeq({BlockTx(1, 0), BlockTx(1, 1), BlockTx(2, 0)}, 4)
BlockOf(first, rest) ==
    LET txs == <<first>> \o rest
    IN  [txs |-> txs, time |-> 0, sealed |-> TRUE,
         root |-> MerkleRoot([i \in DOMAIN txs |-> Txid(txs[i])]).root]
CommitTo(rest) ==
    [BlockTx(0, 1) EXCEPT !.outs = <<[value |-> 0, script |-> [kind |-> "commit",
        to |-> Digest(WitnessRoot(BlockOf(BlockTx(0, 1), rest)), [wit |-> 1])]]>>]
Stripped(rest) == [i \in DOMAIN rest |-> Txid(rest[i])]
Firsts(rest) == {BlockTx(0, 0), CommitTo(rest), CommitTo(Stripped(rest))}
BlockInputs == UNION {{[kind |-> "block", block |-> BlockOf(f, rest)] : f \in Firsts(rest)} : rest \in Lists}

-----------------------------------------------------------------------------
(* The store's encodings: varints of 10 bits in groups of 3.               *)

StoredScripts ==
    [1 .. 4 -> {169, 20, 135, 33, 2, 4, 172}] \cup BoundedSeq({169, 20, 33}, 3)
        \cup [1 .. 6 -> {118, 169, 20}] \cup {<<118, 169, 20, 7, 136, c>> : c \in {135, 172}}
StoredCoin(height, coinbase, value, script) ==
    [height |-> height, coinbase |-> coinbase, value |-> value, script |-> script]
StoredCoins ==
    {StoredCoin(h, c, v, s) : h \in {0, 31}, c \in BOOLEAN, v \in {0, 90},
                              s \in {<<>>, <<169, 20, 5, 135>>, <<33, 3, 9, 172>>}}
Undos ==
    [spent : BoundedSeq([input : {0, 8}, coin : StoredCoins], 1)
                 \cup {<<[input |-> 0, coin |-> c], [input |-> 8, coin |-> c]>> : c \in StoredCoins},
     overwritten : BoundedSeq([op : {<<3, 0>>}, coin : StoredCoins], 1)]
Encodings ==
    [kind : {"varint"}, value : 0 .. MaxWord]
        \cup [kind : {"bytes"}, bytes : BoundedSeq({0, 1, 7, 8, 14, 15}, 5)]
        \cup [kind : {"amount"}, value : {n \in 0 .. MaxAmount : n < 1200 \/ n % 100 = 0}]
        \cup [kind : {"stored"}, script : StoredScripts] \cup [kind : {"undo"}, undo : Undos]

-----------------------------------------------------------------------------
(* Scripts.  Numbers are of bytes below 4; a signature verifies when it is *)
(* of the key and the version, and was not made over itself.               *)

MCSize(e) ==
    IF "num" \in DOMAIN e THEN Len(e.num)
    ELSE IF "script" \in DOMAIN e THEN 3 * Len(e.script)
    ELSE IF "sig" \in DOMAIN e THEN IF e.for \in {"tapscript", "keypath"} THEN 64 ELSE 71
    ELSE IF "key" \in DOMAIN e THEN IF e.short THEN 32 ELSE 33
    ELSE IF "hash" \in DOMAIN e THEN IF e.by \in {"SHA256", "HASH256"} THEN 32 ELSE 20
    ELSE 32

MCVerifies(sig, key, version, code) ==
    /\ sig.for = version
    /\ IF "key" \in DOMAIN key THEN sig.sig = key.key
       ELSE "tap" \in DOMAIN key /\ sig.sig = key.tap
    /\ version \in {"base", "witness"} => Push(sig) \notin Range(code)

SigFor(k, version) == [sig |-> k, for |-> version, der |-> TRUE]
Key(k) == [key |-> k, short |-> FALSE]
Short(k) == [key |-> k, short |-> TRUE]
NumE(n) == Encode(n)

(* Numbers run alike in a witness script and in any other before tapscript.*)
Stacks(version) ==
    {<<Empty, SigFor(1, version), NumE(1), Key(1), Key(2)>>,
     <<SigFor(2, version), NumE(2), SigFor(1, version), IF version = "tapscript" THEN Short(1) ELSE Key(1)>>}
        \cup (IF version = "witness" THEN {}
              ELSE {<<>>, <<NumE(1), NumE(0), NumE(2), NumE(-1), NumE(3), NumE(1)>>})

OpNames ==
    DOMAIN Moves \cup Unaries \cup Binaries \cup
    {"NOP", "CLTV", "CSV", "IF", "NOTIF", "VERIF", "ELSE", "ENDIF", "VERIFY", "RETURN",
     "TOALTSTACK", "FROMALTSTACK", "IFDUP", "DEPTH", "PICK", "ROLL", "SIZE", "EQUAL",
     "EQUALVERIFY", "WITHIN", "SHA256", "CODESEPARATOR", "CHECKSIG", "CHECKSIGVERIFY",
     "CHECKSIGADD", "CHECKMULTISIG", "CHECKMULTISIGVERIFY", "RESERVED", "CAT", "TRUNCATED"}
Ops == {Op(n) : n \in OpNames} \cup {NumOp(n) : n \in {-1, 1, 2, 3}}
          \cup {Push(Empty), Push([num |-> <<0, 2>>]), Push(Key(1))}

(* What only rearranges or computes changes no condition and no check, so  *)
(* that it is of no use as the last operation.                             *)
LastOps == {op \in Ops : Name(op) \notin DOMAIN Moves \cup Unaries \cup Binaries}

Programs ==
    UNION {[kind : {"program"}, script : {<<>>}, version : {v}, stack : Stacks(v)]
             : v \in {"base", "witness", "tapscript"}}

Run(p) == EvalScript(Env(p.script, p.version, SoftForks), p.stack, SigopWeight)

(* The next operation, while the ones before it have run.                  *)
ExtendProgram ==
    /\ x.kind = "program" /\ Len(x.script) < MaxProgram
    /\ Run(x).err \in {"", "UnbalancedConditional"}
    /\ \E op \in IF Len(x.script) = MaxProgram - 1 THEN LastOps ELSE Ops :
           x' = [x EXCEPT !.script = Append(@, op)]

Multisigs ==
    [kind : {"multisig"}, sigs : BoundedSeq({SigFor(k, "base") : k \in 1 .. 3} \cup {Empty}, 3),
     keys : BoundedSeq({Key(k) : k \in 1 .. 3}, 4)]

-----------------------------------------------------------------------------
(* Inputs to verify.                                                       *)

Hash(e, by) == [hash |-> e, by |-> by]
ScriptE(s) == [script |-> s]
BadDer(s) == [s EXCEPT !.der = FALSE]

Wrapped == <<Push(Empty), Push(Hash(ScriptE(<<NumOp(1)>>), "SHA256"))>>
Inner ==
    {<<>>, <<NumOp(1)>>, <<Push(Key(1)), Op("CHECKSIG")>>, <<NumOp(3), Op("CLTV"), Op("DROP"), NumOp(1)>>,
     <<NumOp(1), Op("CSV")>>, <<NumOp(1), Push(Key(1)), NumOp(1), Op("CHECKMULTISIG")>>,
     Wrapped, <<NumOp(1), Op("TRUNCATED")>>,
     <<Op("SUCCESS")>>}
TapOut == [tap |-> 3, leaves |-> {<<"tapscript", s>> : s \in Inner} \cup {<<"later", <<Op("RETURN")>>>>}]
Pubkeys ==
    Inner \cup {<<Op("HASH160"), Push(Hash(ScriptE(s), "HASH160")), Op("EQUAL")>> : s \in Inner \ {<<>>}}
          \cup {<<Push(Empty), Push(Hash(ScriptE(s), "SHA256"))>> : s \in Inner \ {<<>>}}
          \cup {<<Push(Empty), Push(Hash(Key(1), "HASH160"))>>, <<NumOp(1), Push(TapOut)>>,
                <<NumOp(2), Push(TapOut)>>, <<Push(Empty), Push([num |-> <<1, 1>>])>>}
Args ==
    {<<>>, <<NumE(1)>>, <<SigFor(1, "base")>>, <<BadDer(SigFor(1, "base"))>>, <<Empty, SigFor(1, "base")>>,
     <<NumE(1), SigFor(1, "base")>>}
SigScripts ==
    LET pushes == {[i \in DOMAIN a |-> Push(a[i])] : a \in Args} IN
    pushes \cup {a \o <<Push(ScriptE(s))>> : a \in pushes, s \in Inner \ {<<>>}} \cup {<<Op("NOP"), NumOp(1)>>}
Controls == {[control |-> v, sized |-> b] : v \in {"tapscript", "later"}, b \in BOOLEAN}
Witnesses ==
    {<<>>, <<SigFor(1, "witness"), Key(1)>>, <<BadDer(SigFor(1, "witness")), Key(1)>>, <<SigFor(3, "keypath")>>,
     <<SigFor(3, "keypath"), [annex |-> 1]>>, <<SigFor(1, "keypath")>>}
        \cup {a \o <<ScriptE(s)>> : a \in {<<>>, <<SigFor(1, "witness")>>, <<NumE(1), SigFor(1, "witness")>>},
                                    s \in Inner \ {<<>>}}
        \cup {<<ScriptE(s), c>> : s \in Inner \cup {<<Op("RETURN")>>}, c \in Controls}

(* With a witness the script signature is empty or one push, else anything.*)
Spends ==
    [kind : {"spend"}, pubkey : Pubkeys, sig : SigScripts, witness : {<<>>, <<NumE(1)>>}]
        \cup [kind : {"spend"}, pubkey : Pubkeys, witness : Witnesses,
              sig : {<<>>, <<Push(ScriptE(Wrapped))>>, <<NumOp(1), Push(ScriptE(Wrapped))>>}]

-----------------------------------------------------------------------------
(* Digests: one or two inputs, up to two outputs, script code with code    *)
(* separators and with a push that is cut, and types defined and not.      *)

Types == {0, 1, 2, 3, 4, 33, 34, 65, 129, 130, 131, 163}
Ins ==
    LET in == [op : {1, 2}, seq : {3, 4}] IN
    [1 .. 1 -> in] \cup {<<a, b>> : a \in [op : {1}, seq : {3, 4}], b \in [op : {2}, seq : {3, 4}]}
        \cup {<<a, b>> : a \in [op : {2}, seq : {3, 4}], b \in [op : {1}, seq : {3, 4}]}
Codes ==
    {[ops |-> o, cut |-> <<>>, lost |-> <<>>] : o \in {<<5>>, <<5, SEPARATOR>>, <<6, 5>>}}
        \cup {[ops |-> <<5>>, cut |-> <<7>>, lost |-> l] : l \in {<<>>, <<5>>, <<6>>}}
PlainCode == [ops |-> <<5>>, cut |-> <<>>, lost |-> <<>>]
SpendOf(ins, index, outs, values, code, leaf, separator, annex) ==
    [version |-> 2, lock |-> 0, ins |-> ins, index |-> index, outs |-> outs, code |-> code,
     spent |-> [i \in DOMAIN ins |-> [value |-> values[i], script |-> 8]],
     leaf |-> leaf, separator |-> separator, annex |-> annex]
SpendsFor(version) ==
    {SpendOf(ins, IF second THEN Len(ins) ELSE 1, outs, values, code, leaf, separator, annex) :
        ins \in Ins, second \in BOOLEAN, outs \in BoundedSeq({1, 2}, 2), values \in [1 .. 2 -> {1, 2}],
        code \in IF version = "tapscript" THEN {PlainCode} ELSE Codes,
        leaf \in IF version = "tapscript" THEN {0, 1} ELSE {0},
        separator \in IF version = "tapscript" THEN {0, 1} ELSE {0},
        annex \in IF version = "tapscript" THEN {0, 9} ELSE {0}}
Kinds == [kind : {"sighash"}, version : {"base", "witness", "tapscript"}]

-----------------------------------------------------------------------------
(* Signet: bytes below 5, of which 2, 3 and 4 mark a longer size, and      *)
(* blocks whose commitment goes on with up to two operations.              *)

MCSignetHeader == <<4, 3>>
MCWidths == <<1, 2, 3>>
Fill(n) == [i \in 1 .. n |-> i % ByteBase]
SolutionBytes == {PutSolution(Fill(m), w) : m \in {0, 1, 2, 5, 25}, w \in BoundedSeq({Fill(0), Fill(2)}, 2)}
RestOps ==
    {PushOp(MCSignetHeader), PushOp(MCSignetHeader \o <<0, 0>>), PushOp(MCSignetHeader \o <<0, 1, 0>>),
     PushOp(<<4>>), [PushOp(<<4>>) EXCEPT !.wide = TRUE], PushOp(<<>>), [PushOp(<<>>) EXCEPT !.wide = TRUE],
     [PushOp(<<>>) EXCEPT !.opcode = "RETURN"], CUT}
SignetBlock(rest, txs) ==
    [txs |-> <<[BlockTx(0, 0) EXCEPT !.outs =
                 <<[value |-> 0, script |-> [kind |-> "commit", to |-> ZeroHash, rest |-> rest]]>>]>> \o txs,
     version |-> 1, prev |-> 0, time |-> 0]
SignetBlocks ==
    {SignetBlock(rest, txs) : rest \in BoundedSeq(RestOps, 2), txs \in BoundedSeq({BlockTx(1, 0), BlockTx(2, 0)}, 2)}
SignetInputs ==
    {[kind |-> "signets"]} \cup [kind : {"signet"}, block : SignetBlocks]
        \cup [kind : {"solution"}, bytes : BoundedSeq(0 .. 4, 6) \cup SolutionBytes]
        \cup [kind : {"solve"}, script : {Fill(n) : n \in {0, 1, 2, 4, 5, 24, 25, 30}},
              witness : BoundedSeq({Fill(0), Fill(1), Fill(6)}, 2)]

-----------------------------------------------------------------------------
Inputs == Kinds \cup SignetInputs \cup Targets \cup Chains \cup BlockInputs \cup Encodings \cup Programs \cup Multisigs \cup Spends

AlgorithmsInit == SkipInit /\ x = NoInput

Grow == x = NoInput /\ SkipNext /\ UNCHANGED x
PickInput == x = NoInput /\ Len(parent) = 1 /\ x' \in Inputs /\ UNCHANGED skvars
Extend == (ExtendChain \/ ExtendProgram) /\ UNCHANGED skvars

AlgorithmsNext == Grow \/ PickInput \/ Extend
AlgorithmsSpec == AlgorithmsInit /\ [][AlgorithmsNext]_avars

-----------------------------------------------------------------------------
(* Properties.                                                             *)

(* decode_target, block_work and encode_target are what the integers say:  *)
(* a compact target is refused exactly when it is negative, zero, too wide *)
(* or above the limit, its work is the whole part of 2^256 / (target + 1), *)
(* and a target is written as the largest compact value not above it.      *)
CompactExact ==
    /\ x.kind = "compact" => DecodedExactly(x.bits, PowLimit)
    /\ x.kind = "value" => EncodedExactly(FromInt(x.value))

(* Along headers that accept_header let in, the median time never falls,   *)
(* although a single time may, and a retarget moves the target it starts   *)
(* from by no more than a factor of four and never above the limit.        *)
HeaderChainAdvances ==
    x.kind = "chain" /\ Len(x.chain) > 1 =>
        LET before == Front(x.chain) IN
        /\ MedianTimePast(x.chain) >= MedianTimePast(before)
        /\ IsRetargetBoundary(Len(before), x.params) /\ ~x.params.no_retargeting
               => StepBounded(before, Last(x.chain).bits, x.params)

(* check_merkle_root with its search for repeated pairs, and               *)
(* check_witness_malleation, leave one block under a header.               *)
HeaderBindsBlock ==
    x.kind = "block" =>
        \A rest \in Lists : \A wit \in {0, 1} :
            SameBlock(x.block, BlockOf([x.block.txs[1] EXCEPT !.wit = wit], rest))

(* What the store writes it reads back: varints up to the widest, amounts  *)
(* up to the most money, scripts that look like a template or nearly so,   *)
(* and undo records; and no value has two varints.                         *)
CodecsExact ==
    /\ x.kind = "varint" => VarintExact(x.value)
    /\ x.kind = "bytes" => VarintOnly(x.bytes)
    /\ x.kind = "amount" => AmountExact(x.value)
    /\ x.kind = "stored" => ScriptExact(x.script)
    /\ x.kind = "undo" => UndoExact(x.undo)

(* The depth and the first false entry say of every script what the stack  *)
(* of all the conditions would.                                            *)
ConditionsAgree ==
    x.kind = "program" =>
        \A m \in {Run(x)} :
        /\ m.depth = Len(m.conds)
        /\ Executing(m) <=> \A i \in DOMAIN m.conds : m.conds[i]

(* The signature checks a script makes are paid for: by the count charged  *)
(* before it runs, or in tapscript by its weight.  A multisig succeeds     *)
(* exactly when its signatures can be given to keys in order.              *)
ChecksAreCharged ==
    /\ x.kind = "program" =>
         \A m \in {Run(x)} :
         IF x.version = "tapscript" THEN m.weight = SigopWeight * (1 - m.checks) /\ m.weight >= 0
         ELSE m.checks <= SigopCount(x.script, TRUE)
                /\ SigopCount(x.script, TRUE) <= SigopCount(x.script, FALSE)
    /\ x.kind = "multisig" /\ Len(x.sigs) <= Len(x.keys) =>
         LET env == Env(<<>>, "base", SoftForks)
             match == MatchLoop(env, x.sigs, x.keys, <<>>, 0)
         IN  match.ok = Matchable(env, x.sigs, x.keys, <<>>) /\ match.checks <= Len(x.keys)

(* A digest is equal for two spends exactly when what its hash type covers *)
(* is: nothing covered can be changed under a signature, and whatever is   *)
(* not covered can.  What a signet solution signs is the block without the *)
(* solution, and a solution has one encoding.                              *)
SignaturesBind ==
    /\ x.kind = "sighash" => Binds(x.version, SpendsFor(x.version), Types)
    /\ x.kind = "signets" => SignsBlocks(SignetBlocks, "challenge")
    /\ x.kind = "signet" =>
         \A s \in SolutionBytes : StandsOutside(x.block, "challenge", PutSolution(<<>>, <<>>), s)
    /\ x.kind = "solution" => SolutionOnly(x.bytes)
    /\ x.kind = "solve" => SolutionExact(x.script, x.witness)

(* A soft fork only tightens: an input verify_script accepts under some    *)
(* flags it accepts under fewer.                                           *)
SoftForksTighten == x.kind = "spend" => OnlyTightens(x.sig, x.pubkey, x.witness)
=============================================================================
