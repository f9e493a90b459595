------------------------------- MODULE Connect ------------------------------
(***************************************************************************)
(* Connecting a block to the coins of the chain and taking it off again    *)
(* (consensus block/coins.rs and tx.rs, store/undo.rs).  A block's coins   *)
(* are looked up in one batch before any of it is checked: populate says   *)
(* which inputs to fetch, confirm checks the block against what was        *)
(* fetched and returns the difference it makes, and the undo record is     *)
(* written from that difference.  The coin store itself and the thread     *)
(* that applies a difference to it are external.                           *)
(***************************************************************************)
EXTENDS BlockChecks

CONSTANTS
    Blocks,      \* the blocks on offer
    Maturity,    \* the depth at which a coinbase may be spent
    BlockGap,    \* the seconds by which each block moves the median time
    BadScripts,  \* the transactions with an input whose script fails
    MaxHeight    \* bound: the height of the chain

ASSUME ConnectAssumption == {Maturity, BlockGap, MaxHeight} \subseteq Nat

VARIABLES
    coins,  \* the coins of the chain: no two at one outpoint
    chain   \* the blocks connected, each with its undo record

cvars == <<coins, chain>>

ConnectInit == coins = {} /\ chain = <<>>

None == [none |-> TRUE]
Granularity == 512
NoTime == -1
Mtp(height) == BlockGap * height

HashAt(height) == [i \in 1 .. height |-> chain[i].block]

Bip34Ancestor(height) == IF height > Bip34Height THEN HashAt(Bip34Height) ELSE <<>>

Context(b) ==
    LET height == Len(chain) + 1
        hash == Append(HashAt(Len(chain)), b)
    IN  [height |-> height, hash |-> hash, mtp |-> Mtp(height),
         rules |-> RulesAt(height, hash, Bip34Ancestor(height))]

-----------------------------------------------------------------------------
(* What a block spends and creates.                                        *)

(* The first transaction with a txid, or zero.                             *)
Position(b, txid) ==
    LET at == {i \in DOMAIN b.txs : Txid(b.txs[i]) = txid}
    IN  IF at = {} THEN 0 ELSE Min(at)

(* The earlier transaction of the block that creates an outpoint, or zero. *)
InBlockOutput(b, k, op) ==
    LET c == Position(b, op.tx) IN
    IF c # 0 /\ c < k /\ op.n <= Len(b.txs[c].outs) /\ ~Unspendable(b.txs[c].outs[op.n])
    THEN c ELSE 0

Created(b, k, height) ==
    LET tx == b.txs[k] IN
    {[op |-> [tx |-> Txid(tx), n |-> i], out |-> tx.outs[i],
      height |-> height, coinbase |-> k = 1] :
        i \in {i \in DOMAIN tx.outs : ~Unspendable(tx.outs[i])}}

(* Every input of the block but the coinbase's, in order.                  *)
Inputs(b) ==
    FlattenSeq([i \in 1 .. Len(b.txs) - 1 |->
        [j \in DOMAIN b.txs[i + 1].ins |->
            [k |-> i + 1, op |-> b.txs[i + 1].ins[j].op, seq |-> b.txs[i + 1].ins[j].seq]]])

Populate(b) ==
    LET ins == Inputs(b) IN
    [i \in DOMAIN ins |->
        [in_block |-> InBlockOutput(b, ins[i].k, ins[i].op) # 0,
         time_locked |-> b.txs[ins[i].k].v2 /\ ~ins[i].seq.disabled /\ ins[i].seq.timed]]

(* The lookups of the coin store, one entry for each input.                *)
Fetched(b) ==
    LET ins == Inputs(b)
        sources == Populate(b)
        found(i) == {c \in coins : c.op = ins[i].op}
        time(i, c) == IF sources[i].time_locked THEN Mtp(c.height) ELSE NoTime
    IN  [i \in DOMAIN ins |->
            IF sources[i].in_block \/ found(i) = {} THEN None
            ELSE LET c == CHOOSE c \in found(i) : TRUE
                 IN  [coin |-> c, mtp |-> time(i, c)]]

Existing(b, ctx) ==
    IF ctx.rules.bip30 = "Skip" THEN {}
    ELSE {c \in coins : Position(b, c.op.tx) # 0}

-----------------------------------------------------------------------------
(* confirm: an accumulator runs over the transactions, and err is the      *)
(* first thing wrong, "panic" when it is an assertion that fails.          *)

CheckBip30(b, existing, ctx) ==
    CASE ctx.rules.bip30 = "Enforce" -> existing = {}
      [] ctx.rules.bip30 = "Overwrite" -> \A c \in existing : Position(b, c.op.tx) = 1
      [] OTHER -> TRUE

(* resolve: each input's coin, from the block or from what was fetched;    *)
(* nothing when one is missing or spent already.                           *)
Resolve(b, k, entries, ctx, spent) ==
    LET ins == b.txs[k].ins
        creator(i) == InBlockOutput(b, k, ins[i].op)
        missing(i) == \/ creator(i) = 0 /\ entries[i] = None
                      \/ ins[i].op \in spent
                      \/ \E j \in 1 .. i - 1 : ins[j].op = ins[i].op
        made(i) == [op |-> ins[i].op, out |-> b.txs[creator(i)].outs[ins[i].op.n],
                    height |-> ctx.height, coinbase |-> creator(i) = 1]
    IN  IF \E i \in DOMAIN ins : missing(i) THEN <<>>
        ELSE [i \in DOMAIN ins |->
                IF creator(i) # 0 THEN [coin |-> made(i), mtp |-> ctx.mtp, in_block |-> TRUE]
                ELSE [coin |-> entries[i].coin, mtp |-> entries[i].mtp, in_block |-> FALSE]]

ValueIn(resolved) == SumSeq([i \in DOMAIN resolved |-> resolved[i].coin.out.value])

CheckTxInputs(tx, resolved, ctx) ==
    /\ \A i \in DOMAIN resolved :
           resolved[i].coin.coinbase => ctx.height - resolved[i].coin.height >= Maturity
    /\ ValueIn(resolved) <= MaxMoney
    /\ ValueOut(tx) <= ValueIn(resolved)

(* Each lock is the last height or time at which the input is still held.  *)
SequenceLocks(tx, resolved, ctx) ==
    LET held(timed) == {i \in DOMAIN tx.ins : ~tx.ins[i].seq.disabled /\ tx.ins[i].seq.timed = timed}
        height_min == Max({-1} \cup {resolved[i].coin.height + tx.ins[i].seq.value - 1 : i \in held(FALSE)})
        time_min == Max({-1} \cup {resolved[i].mtp + tx.ins[i].seq.value * Granularity - 1 : i \in held(TRUE)})
    IN  CASE ~tx.v2 \/ ~ctx.rules.csv_active -> "satisfied"
          [] \E i \in held(TRUE) : resolved[i].mtp = NoTime -> "panic"
          [] height_min < ctx.height /\ time_min < ctx.mtp -> "satisfied"
          [] OTHER -> "locked"

(* A coin's script adds the signature operations it asks for when spent.   *)
SigopCost(tx, resolved) ==
    LegacySigopCount(tx) * ScaleFactor
        + SumSeq([i \in DOMAIN resolved |-> resolved[i].coin.out.script.sigs])

Accumulate(acc, b, k, resolved, ctx) ==
    LET tx == b.txs[k]
        fees == IF k = 1 THEN 0 ELSE acc.fees + ValueIn(resolved) - ValueOut(tx)
        cost == acc.cost + SigopCost(tx, resolved)
        fetched == SelectSeq(resolved, LAMBDA r : ~r.in_block)
        locks == IF k = 1 THEN "satisfied" ELSE SequenceLocks(tx, resolved, ctx)
        err == CASE k > 1 /\ ~CheckTxInputs(tx, resolved, ctx) -> "inputs"
                 [] fees > MaxMoney -> "fees"
                 [] locks # "satisfied" -> locks
                 [] cost > MaxSigops -> "sigops"
                 [] OTHER -> ""
    IN  [err |-> err, fees |-> fees, cost |-> cost,
         ops |-> acc.ops \cup {resolved[i].coin.op : i \in DOMAIN resolved},
         spent |-> acc.spent \o [i \in DOMAIN fetched |-> fetched[i].coin],
         overwritten |-> acc.overwritten,
         created |-> acc.created \cup Created(b, k, ctx.height),
         prevouts |-> acc.prevouts \o [i \in DOMAIN resolved |-> resolved[i].coin]]

(* The entries of transaction k start after those of the ones before it.   *)
ConfirmTx(b, fetched, ctx, acc, k) ==
    LET before == Len(SelectSeq(Inputs(b), LAMBDA in : in.k < k))
        entries == SubSeq(fetched, before + 1, before + Len(b.txs[k].ins))
        resolved == IF k = 1 THEN <<>> ELSE Resolve(b, k, entries, ctx, acc.ops)
    IN  IF acc.err # "" THEN acc
        ELSE IF k > 1 /\ resolved = <<>> THEN [acc EXCEPT !.err = "missing"]
        ELSE Accumulate(acc, b, k, resolved, ctx)

(* Mutant: the reward is not limited by the fees and the subsidy.          *)
AllowedAnything(acc, ctx) == MaxMoney

Allowed(acc, ctx) == acc.fees + ctx.rules.subsidy

(* net: what was created and spent in the block drops out.                 *)
Net(b, acc) ==
    [acc EXCEPT !.created = {c \in @ : c.op \notin acc.ops},
                !.err = IF \E i \in DOMAIN acc.spent : Position(b, acc.spent[i].op.tx) # 0
                        THEN "panic" ELSE @]

Confirm(b, ctx) ==
    LET existing == Existing(b, ctx)
        start == [err |-> "", fees |-> 0, cost |-> 0, ops |-> {}, spent |-> <<>>,
                  created |-> {}, prevouts |-> <<>>,
                  overwritten |-> IF ctx.rules.bip30 = "Overwrite" THEN existing ELSE {}]
        fetched == Fetched(b)
        step(acc, k) == ConfirmTx(b, fetched, ctx, acc, k)
        done == FoldLeft(step, start, [k \in DOMAIN b.txs |-> k])
    IN  IF ~CheckBip30(b, existing, ctx) THEN [start EXCEPT !.err = "bip30"]
        ELSE IF done.err # "" THEN done
        ELSE IF ValueOut(b.txs[1]) > Allowed(done, ctx) THEN [done EXCEPT !.err = "amount"]
        ELSE Net(b, done)

(* connect: every input's script, against the coins in input order.        *)
ConnectScripts(b, prevouts) ==
    /\ [i \in DOMAIN Inputs(b) |-> Inputs(b)[i].op] = [i \in DOMAIN prevouts |-> prevouts[i].op]
    /\ \A k \in DOMAIN b.txs : b.txs[k] \notin BadScripts

-----------------------------------------------------------------------------
(* The undo record.                                                        *)

(* Mutant: what a listed block overwrote is not kept.                      *)
UndoOfSpent(conf, b) ==
    [spent |-> [i \in DOMAIN conf.spent |->
        [input |-> Min({j \in DOMAIN Inputs(b) : Inputs(b)[j].op = conf.spent[i].op}),
         coin |-> conf.spent[i]]],
     overwritten |-> {}]

(* Each coin spent, with the input that spent it: the first one at or      *)
(* after the cursor that names the coin's outpoint.                        *)
UndoOf(conf, b) ==
    LET ins == Inputs(b)
        at[i \in 0 .. Len(conf.spent)] ==
            IF i = 0 THEN 0
            ELSE Min({j \in at[i - 1] + 1 .. Len(ins) : ins[j].op = conf.spent[i].op})
        stored(c) == [height |-> c.height, coinbase |-> c.coinbase, out |-> c.out]
    IN  [spent |-> [i \in DOMAIN conf.spent |-> [input |-> at[i], coin |-> stored(conf.spent[i])]],
         overwritten |-> conf.overwritten]

(* resolve: the outpoints come from the block.                             *)
UndoResolve(undo, b) ==
    {[op |-> Inputs(b)[undo.spent[i].input].op, out |-> undo.spent[i].coin.out,
      height |-> undo.spent[i].coin.height, coinbase |-> undo.spent[i].coin.coinbase] :
        i \in DOMAIN undo.spent} \cup undo.overwritten

-----------------------------------------------------------------------------
(* The coin store (external) applies a difference, or takes a block's      *)
(* outputs away and puts back what its undo record restores.               *)

Without(cs, ops) == {c \in cs : c.op \notin ops}
Applied(cs, conf) ==
    Without(cs, {conf.spent[i].op : i \in DOMAIN conf.spent} \cup {c.op : c \in conf.created})
        \cup conf.created

ConnectBlock(b) ==
    LET ctx == Context(b)
        conf == Confirm(b, ctx)
    IN  /\ Len(chain) < MaxHeight
        /\ CheckBlock(b) /\ AcceptBlock(b, ctx)
        /\ conf.err = "" /\ ConnectScripts(b, conf.prevouts)
        /\ coins' = Applied(coins, conf)
        /\ chain' = Append(chain, [block |-> b, undo |-> UndoOf(conf, b)])

DisconnectBlock ==
    /\ chain # <<>>
    /\ LET b == Last(chain).block
           made == UNION {{c.op : c \in Created(b, k, 0)} : k \in DOMAIN b.txs}
       IN  coins' = Without(coins, made) \cup UndoResolve(Last(chain).undo, b)
    /\ chain' = Front(chain)

ConnectNext == (\E b \in Blocks : ConnectBlock(b)) \/ DisconnectBlock

ConnectSpec == ConnectInit /\ [][ConnectNext]_cvars

-----------------------------------------------------------------------------
(* The reference: one transaction at a time, each against the coins the    *)
(* ones before it left, and no coin ever replaced but where listed.        *)

Held(in, c, ctx) ==
    IF in.seq.timed THEN ctx.mtp - Mtp(c.height) < in.seq.value * Granularity
    ELSE ctx.height - c.height < in.seq.value

SpendOne(acc, tx, in, ctx) ==
    LET found == {c \in acc.coins : c.op = in.op}
        c == CHOOSE c \in found : TRUE
        ok == /\ found # {}
              /\ c.coinbase => ctx.height - c.height >= Maturity
              /\ tx.v2 /\ ctx.rules.csv_active /\ ~in.seq.disabled => ~Held(in, c, ctx)
    IN  IF ~ok THEN [acc EXCEPT !.ok = FALSE]
        ELSE [acc EXCEPT !.coins = @ \ {c}, !.fees = @ + c.out.value,
                         !.cost = @ + c.out.script.sigs]

SpendTx(acc, b, k, ctx) ==
    LET tx == b.txs[k]
        spend(a, in) == IF a.ok THEN SpendOne(a, tx, in, ctx) ELSE a
        before == [acc EXCEPT !.cost = @ + tx.sigs * ScaleFactor]
        after == IF k = 1 THEN before ELSE FoldLeft(spend, before, tx.ins)
        fees == IF k = 1 THEN 0 ELSE after.fees - ValueOut(tx)
    IN  IF ~after.ok \/ fees < acc.fees THEN [acc EXCEPT !.ok = FALSE]
        ELSE [after EXCEPT !.fees = fees, !.ok = after.cost <= MaxSigops,
                           !.coins = @ \cup Created(b, k, ctx.height)]

Sequential(cs, b, ctx) ==
    LET replaced == {c \in cs : Position(b, c.op.tx) # 0}
        listed == ctx.hash \in RepeatHashes
        step(acc, k) == IF acc.ok THEN SpendTx(acc, b, k, ctx) ELSE acc
        start == [ok |-> IF listed THEN \A c \in replaced : Position(b, c.op.tx) = 1
                         ELSE replaced = {},
                  coins |-> cs \ replaced, fees |-> 0, cost |-> 0]
        done == FoldLeft(step, start, [k \in DOMAIN b.txs |-> k])
    IN  [ok |-> done.ok /\ ValueOut(b.txs[1]) <= done.fees + BlockSubsidy(ctx.height),
         coins |-> done.coins]

-----------------------------------------------------------------------------
(* Properties.                                                             *)

(* Whatever block is offered next, the batch check takes it exactly when   *)
(* spending its transactions one at a time would, leaves the same coins,   *)
(* and fails none of its assertions.  This is also where leaving the scan  *)
(* for repeated coinbases out between BIP 34 and its limit is shown to     *)
(* lose no coin.                                                           *)
BatchIsSequential ==
    \A b \in Blocks :
        LET ctx == Context(b)
            conf == Confirm(b, ctx)
            ref == Sequential(coins, b, ctx)
        IN  CheckBlock(b) /\ AcceptBlock(b, ctx) =>
                /\ conf.err # "panic"
                /\ (conf.err = "") <=> ref.ok
                /\ ref.ok => Applied(coins, conf) = ref.coins

(* However blocks were connected and taken off again, the coins are those  *)
(* of the blocks that are left, connected one after the other from the     *)
(* start: an undo record restores exactly what its block took.             *)
CoinsAreReplay ==
    LET ctx(h) == [height |-> h, hash |-> HashAt(h), mtp |-> Mtp(h), rules |-> [csv_active |-> h >= CsvHeight]]
        step(cs, h) == Sequential(cs, chain[h].block, ctx(h)).coins
    IN  coins = FoldLeft(step, {}, [h \in DOMAIN chain |-> h])

(* The coins of the chain are never worth more than the subsidies of its   *)
(* blocks, and no two are at one outpoint.                                 *)
NothingFromNothing ==
    /\ \A c, d \in coins : c.op = d.op => c = d
    /\ MapThenSumSet(LAMBDA c : c.out.value, coins)
           <= MapThenSumSet(BlockSubsidy, 1 .. Len(chain))
=============================================================================
