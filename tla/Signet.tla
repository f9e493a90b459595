------------------------------- MODULE Signet -------------------------------
(***************************************************************************)
(* The signed part of a signet block (consensus block/signet): its         *)
(* solution sits in the coinbase's commitment output, and signs the block  *)
(* with the solution taken out.                                            *)
(*                                                                         *)
(* A block is as in BlockChecks, with the version and prev of its header,  *)
(* and the script of a commitment goes on with the operations rest: each   *)
(* has its opcode, data if it is a push, and wide when its size is spelled *)
(* out where a shorter push would do; CUT is a push past the end.  Bytes   *)
(* are below ByteBase, SignetHeader stands for the four bytes of the mark, *)
(* and a compact size is one byte or a mark and as many as Widths says.    *)
(***************************************************************************)
EXTENDS BlockChecks

CONSTANTS
    SignetHeader, ByteBase,
    Widths,                 \* bytes after each of the three marks
    MaxSerialized           \* MAX_SERIALIZED_SIZE

ASSUME SignetAssumption == ByteBase \in Nat \ (0 .. 3) /\ Len(Widths) = 3

PushOp(data) == [opcode |-> "PUSH", wide |-> FALSE, data |-> data]
CUT == [opcode |-> "CUT", wide |-> FALSE, data |-> <<>>]

(* The opcode alone.  Of an empty push whose size is spelled out it is one *)
(* that as bytes reads what follows as its size; it is compared here as an *)
(* operation of its own.                                                   *)
Bare(op) == [opcode |-> IF op.wide THEN "PUSHDATA1" ELSE op.opcode, wide |-> FALSE, data |-> <<>>]

(* Only the first push with the mark and some data holds a solution.       *)
IsSection(data) == Len(data) > Len(SignetHeader) /\ IsPrefix(SignetHeader, data)

(* An empty push leaves its opcode only, any other becomes the shortest.   *)
ClearOp(acc, op) ==
    IF op.data = <<>> THEN [acc EXCEPT !.ops = Append(@, Bare(op))]
    ELSE IF ~acc.found /\ IsSection(op.data)
    THEN [found |-> TRUE, ops |-> Append(acc.ops, PushOp(SignetHeader)),
          solution |-> SubSeq(op.data, Len(SignetHeader) + 1, Len(op.data))]
    ELSE [acc EXCEPT !.ops = Append(@, PushOp(op.data))]

(* What follows a push that runs past the end is dropped with it.          *)
FetchAndClear(ops) ==
    LET read == IF CUT \in Range(ops) THEN SubSeq(ops, 1, SelectInSeq(ops, LAMBDA op : op = CUT) - 1) ELSE ops
    IN  FoldLeft(ClearOp, [found |-> FALSE, ops |-> <<>>, solution |-> <<>>], read)

-----------------------------------------------------------------------------
(* The solution's bytes: a script and a witness stack.  A reader is what   *)
(* is left to read, and what was read, or bad.                             *)

Bad == [ok |-> FALSE]
Good(got, left) == [ok |-> TRUE, got |-> got, left |-> left]
Reading(read, Go(_, _)) == IF read.ok THEN Go(read.got, read.left) ELSE Bad

TakeBytes(bytes, count) ==
    IF count > Len(bytes) THEN Bad
    ELSE Good(SubSeq(bytes, 1, count), SubSeq(bytes, count + 1, Len(bytes)))

LittleEndian(bytes) ==
    LET v[i \in 0 .. Len(bytes)] == IF i = 0 THEN 0 ELSE v[i - 1] + bytes[i] * ByteBase ^ (i - 1)
    IN  v[Len(bytes)]

(* The least value that needs a mark: the one below it holds no more.      *)
LeastWith(mark) == IF mark = 1 THEN ByteBase - 3 ELSE ByteBase ^ Widths[mark - 1]

Sized(value, least, left) ==
    IF value < least \/ value > MaxSerialized THEN Bad ELSE Good(value, left)

ReadCompactSize(bytes) ==
    LET mark == bytes[1] - (ByteBase - 4) IN
    IF bytes = <<>> THEN Bad
    ELSE IF mark < 1 THEN Sized(bytes[1], 0, Tail(bytes))
    ELSE Reading(TakeBytes(Tail(bytes), Widths[mark]),
                 LAMBDA got, left : Sized(LittleEndian(got), LeastWith(mark), left))

ReadBytes(bytes) == Reading(ReadCompactSize(bytes), LAMBDA size, left : TakeBytes(left, size))

ReadItems(count, bytes) ==
    LET f[i \in 0 .. count] ==
            IF i = 0 THEN Good(<<>>, bytes)
            ELSE Reading(f[i - 1], LAMBDA items, rest :
                 Reading(ReadBytes(rest), LAMBDA item, left : Good(Append(items, item), left)))
    IN  f[count]

(* Each item has a length byte, so there are no more than bytes left.      *)
ParseSolution(bytes) ==
    Reading(ReadBytes(bytes), LAMBDA script, afterScript :
    Reading(ReadCompactSize(afterScript), LAMBDA count, rest :
        IF count > Len(rest) THEN Bad
        ELSE Reading(ReadItems(count, rest), LAMBDA items, left :
             IF left # <<>> THEN Bad ELSE [ok |-> TRUE, script_sig |-> script, witness |-> items])))

-----------------------------------------------------------------------------
(* The two transactions.                                                   *)

ModifiedMerkleRoot(coinbase, b) ==
    MerkleRoot([i \in DOMAIN b.txs |-> Txid(IF i = 1 THEN coinbase ELSE b.txs[i])]).root

BlockData(coinbase, b) ==
    [version |-> b.version, prev |-> b.prev, root |-> ModifiedMerkleRoot(coinbase, b), time |-> b.time]

ToSpend(challenge, data) == [data |-> data, pays |-> challenge]
ToSign(spend, solution) == [spends |-> spend, sig |-> solution.script_sig, witness |-> solution.witness]

NoSolution == [ok |-> TRUE, script_sig |-> <<>>, witness |-> <<>>]

TxsOf(spend, solution) ==
    IF ~solution.ok THEN Bad
    ELSE [ok |-> TRUE, to_spend |-> spend, to_sign |-> ToSign(spend, solution)]

(* The coinbase changes only if a solution was found in it.                *)
TxsWithout(b, challenge, at, cleared) ==
    LET coinbase == IF cleared.found THEN [b.txs[1] EXCEPT !.outs[at].script.rest = cleared.ops]
                    ELSE b.txs[1]
    IN  TxsOf(ToSpend(challenge, BlockData(coinbase, b)),
              IF cleared.found THEN ParseSolution(cleared.solution) ELSE NoSolution)

SignetTxs(b, challenge) ==
    LET at == IF b.txs = <<>> THEN 0 ELSE WitnessCommitmentIndex(b.txs[1])
    IN  IF at = 0 THEN Bad
        ELSE TxsWithout(b, challenge, at, FetchAndClear(b.txs[1].outs[at].script.rest))

-----------------------------------------------------------------------------
(* The reference.                                                          *)

PutSize(n) ==
    LET mark == IF n < ByteBase - 3 THEN 0 ELSE CHOOSE m \in 1 .. 3 :
                    n < ByteBase ^ Widths[m] /\ \A k \in 1 .. m - 1 : n >= ByteBase ^ Widths[k]
    IN  IF mark = 0 THEN <<n>>
        ELSE <<ByteBase - 4 + mark>> \o [i \in 1 .. Widths[mark] |-> (n \div ByteBase ^ (i - 1)) % ByteBase]
PutBytes(bytes) == PutSize(Len(bytes)) \o bytes
PutSolution(script, witness) ==
    PutBytes(script) \o PutSize(Len(witness)) \o FlattenSeq([i \in DOMAIN witness |-> PutBytes(witness[i])])

(* The bytes that are read as a solution are the ones it is written as.    *)
SolutionOnly(bytes) ==
    \A s \in {ParseSolution(bytes)} : s.ok => PutSolution(s.script_sig, s.witness) = bytes
SolutionExact(script, witness) ==
    ParseSolution(PutSolution(script, witness)) = [ok |-> TRUE, script_sig |-> script, witness |-> witness]

(* The operations with their first solution, if any, taken out.            *)
Unsolved(ops) ==
    LET cuts == {i \in DOMAIN ops : ops[i] = CUT}
        end == IF cuts = {} THEN Len(ops) ELSE Min(cuts) - 1
        sections == {i \in 1 .. end : IsSection(ops[i].data)}
        shortest(op) == IF op.data = <<>> THEN Bare(op) ELSE PushOp(op.data)
    IN  IF sections = {} THEN ops
        ELSE [i \in 1 .. end |-> IF i = Min(sections) THEN PushOp(SignetHeader) ELSE shortest(ops[i])]

(* A block with a solution in front of what its commitment goes on with.   *)
Solved(b, solution) == [b EXCEPT !.txs[1].outs[1].script.rest = <<PushOp(SignetHeader \o solution)>> \o @]

(* A solution is outside of what it signs.                                 *)
StandsOutside(b, challenge, s, t) ==
    SignetTxs(Solved(b, s), challenge).to_spend = SignetTxs(Solved(b, t), challenge).to_spend

(* Two blocks have one transaction to spend exactly when they are the same *)
(* up to the solution, and up to the repeats that check_merkle_root finds. *)
SignsBlocks(blocks, challenge) ==
    LET content(c) == <<c.version, c.prev, c.time, Unsolved(c.txs[1].outs[1].script.rest), Tail(c.txs)>>
        repeats(c) == MerkleRoot([i \in DOMAIN c.txs |-> Txid(c.txs[i])]).mutated
    IN  \A pairs \in {{<<SignetTxs(c, challenge).to_spend, content(c)>> :
                         c \in {d \in blocks : SignetTxs(d, challenge).ok /\ ~repeats(d)}}} :
            /\ Cardinality({p[1] : p \in pairs}) = Cardinality(pairs)
            /\ Cardinality({p[2] : p \in pairs}) = Cardinality(pairs)
=============================================================================
