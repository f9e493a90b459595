------------------------------ MODULE MCConnect -----------------------------
(* Coinbases that commit to any of a few heights before BIP 34 starts at   *)
(* height 3, one of which is the limit, 5, where they may repeat again; a  *)
(* listed exception at height 2; a coinbase that pays more than the        *)
(* subsidy of 4, which is refused; and transactions that spend a coinbase, *)
(* each other, or the same coin twice, some with relative locks, a lock    *)
(* time, too little value or too many signature operations.                *)
EXTENDS Connect

Final == [disabled |-> TRUE, timed |-> FALSE, value |-> 0, final |-> TRUE]
After(n) == [disabled |-> FALSE, timed |-> FALSE, value |-> n, final |-> FALSE]
AfterTime(n) == [disabled |-> FALSE, timed |-> TRUE, value |-> n, final |-> FALSE]
Pay(v) == [value |-> v, script |-> [kind |-> "pay", sigs |-> 1]]
Burn(v) == [value |-> v, script |-> [kind |-> "return", sigs |-> 0]]

Tx(tag, ins, outs) ==
    [tag |-> tag, len |-> 2, ins |-> ins, outs |-> outs, v2 |-> TRUE,
     lock |-> [by |-> "height", at |-> 0], sigs |-> 0, wit |-> 0]
Coinbase(tag, v) == Tx(tag, <<[op |-> Null, seq |-> Final]>>, <<Pay(v)>>)
In(tx, n, seq) == [op |-> [tx |-> tx, n |-> n], seq |-> seq]

C1 == Coinbase(1, 4)
C3 == Coinbase(3, 4)
C5 == Coinbase(5, 1)
T1 == Tx(0, <<In(C1, 1, Final)>>, <<Pay(2), Pay(1)>>)
T2 == Tx(0, <<In(T1, 1, After(1))>>, <<Pay(2), Burn(0)>>)
T3 == Tx(0, <<In(T1, 2, AfterTime(1)), In(T1, 1, Final)>>, <<Pay(3)>>)
T4 == [Tx(0, <<In(T2, 1, AfterTime(3))>>, <<Pay(2)>>) EXCEPT !.v2 = FALSE]
T5 == Tx(0, <<In(C5, 1, Final), In(C3, 1, After(3))>>, <<Pay(5)>>)
T6 == Tx(0, <<In(T2, 2, Final)>>, <<Pay(0)>>)
T7 == Tx(0, <<In(C1, 1, Final), In(C1, 1, Final)>>, <<Pay(8)>>)
T8 == [Tx(0, <<In(C1, 1, After(0))>>, <<Pay(4)>>) EXCEPT !.lock.at = 4]
T9 == [Tx(0, <<In(C1, 1, Final)>>, <<Pay(3)>>) EXCEPT !.sigs = 3]

Block(txs) ==
    [txs |-> txs, time |-> 0, sealed |-> TRUE,
     root |-> MerkleRoot([i \in DOMAIN txs |-> Txid(txs[i])]).root]

Coinbases == {C1, C3, C5, Coinbase(1, 5), Coinbase(4, 2), Coinbase(4, 3),
              Coinbase(5, 2), Coinbase(6, 2)}
Spends == {T1, T2, T3, T4, T5, T8, T9}
Rest == {<<>>, <<T6>>, <<T7>>, <<T1, T2, T4>>, <<T1, T2, T3>>, <<T1, T2, T6>>}
            \cup {<<t>> : t \in Spends} \cup {<<t, u>> : t, u \in Spends}
MCBlocks == {Block(<<c>> \o r) : c \in Coinbases, r \in Rest}
MCBip34Hash == <<Block(<<C1>>), Block(<<C5>>), Block(<<C3>>)>>
MCRepeats == {<<Block(<<C1>>), Block(<<C1>>)>>}
=============================================================================
