-------------------------- MODULE HeaderTreeProofs --------------------------
(***************************************************************************)
(* Proofs, for every set of headers, every shape of tree and every cap,    *)
(* of the invariants of HeaderTree.  The conjunction of them all, IInv, is *)
(* inductive: each conjunct needs the others.  The one step that is not    *)
(* first-order is that refusing a block never reaches the active chain: it *)
(* takes the descendant of least arena position, which exists because a    *)
(* set of naturals has a least element.                                    *)
(***************************************************************************)
EXTENDS HeaderTree, WellFoundedInduction, TLAPS

IInv ==
    /\ TypeOK
    /\ ParentsFirst
    /\ ActiveChain
    /\ VerdictClosure
    /\ BestHeader
    /\ DirtyOnce

(* A non-empty set of natural numbers has a least element.                 *)
LEMMA LeastNatural ==
    ASSUME NEW T, T \subseteq Nat, T # {}
    PROVE  \E n \in T : \A m \in T : n <= m
<1>1. \E n \in T : \A m \in T : ~(<<m, n>> \in OpToRel(<, Nat))
  BY Zenon, NatLessThanWellFounded, WFMin
<1>2. PICK n \in T : \A m \in T : ~(<<m, n>> \in OpToRel(<, Nat))
  BY Zenon, <1>1
<1>3. \A m \in T : ~(m < n)
  BY Zenon, <1>2 DEF OpToRel
<1> QED
  BY <1>3

(* The initial tree, holding genesis alone, satisfies the invariant.       *)
LEMMA InitIInv == Init => IInv
<1> SUFFICES ASSUME Init PROVE IInv
  BY Zenon
<1>0. Genesis \in Block /\ Header = Block \ {Genesis}
  BY Zenon, ConstantsAssumption DEF Block
<1>1. TypeOK
  <2>1. <<Genesis>> \in Seq(Block) /\ Len(<<Genesis>>) <= Cap
    BY <1>0, ConstantsAssumption
  <2> QED
    BY <1>0, <2>1, ConstantsAssumption DEF Init, TypeOK, Status
<1>2. Tree = {Genesis}
  BY <1>0 DEF Init, Tree
<1>3. ParentsFirst
  BY <1>0, <1>2 DEF Init, ParentsFirst
<1>4. ActiveChain
  BY Zenon, <1>0 DEF Init, ActiveChain, IsConnected
<1>5. VerdictClosure
  BY Zenon, <1>2 DEF Init, VerdictClosure
<1>6. BestHeader
  BY <1>0, <1>2 DEF Init, BestHeader, MostWork, Terminal, Refused
<1>7. DirtyOnce
  BY DEF Init, DirtyOnce
<1> QED
  BY Zenon, <1>1, <1>3, <1>4, <1>5, <1>6, <1>7 DEF IInv

(* What appending to a sequence does to its indices and its elements.      *)
LEMMA AppendFacts ==
    ASSUME NEW S, NEW q \in Seq(S), NEW e \in S
    PROVE  /\ Append(q, e) \in Seq(S)
           /\ Len(q) \in Nat
           /\ Len(Append(q, e)) = Len(q) + 1
           /\ DOMAIN q = 1 .. Len(q)
           /\ DOMAIN Append(q, e) = 1 .. Len(q) + 1
           /\ \A i \in 1 .. Len(q) : Append(q, e)[i] = q[i]
           /\ Append(q, e)[Len(q) + 1] = e
OBVIOUS

(* Facts about the constants that most steps use.                          *)
LEMMA BlockFacts ==
    /\ Genesis \in Block
    /\ Genesis \notin Header
    /\ Header \subseteq Block
    /\ \A b \in Block : b \in Header <=> b # Genesis
    /\ \A b \in Header : Prev[b] \in Block /\ BlockWork[b] \in Nat \ {0}
BY Zenon, ConstantsAssumption DEF Block

(* What the pass of a refusal marks descends from the refused block step   *)
(* by step, and so never meets the active chain: this is the assertion of  *)
(* `inherit`, "the active chain cannot descend from an invalid block".     *)
LEMMA InheritorsOffChain ==
    ASSUME IInv, NEW from \in Header, NEW S \in SUBSET (Tree \ {Genesis}),
           Inherits(from, S), status[from] \in {"HeaderAccepted", "BlockChecked"}
    PROVE  \A b \in S : /\ b \in Header
                        /\ ~Terminal(status[b])
                        /\ Prev[b] \in S \cup {from}
                        /\ ~IsConnected(status[b])
<1>1. TypeOK /\ ParentsFirst /\ ActiveChain /\ VerdictClosure /\ from \in Block
  BY Zenon, BlockFacts DEF IInv
<1>2. \A b \in S : b \in Header /\ b \in Block /\ b # Genesis /\ b \in Tree
  BY Zenon, BlockFacts DEF Tree
<1>3. \A b \in S : ~Terminal(status[b]) /\ Prev[b] \in S \cup {from}
  BY Zenon, <1>1, <1>2 DEF Inherits, VerdictClosure
<1>4. \A b \in S : ~IsConnected(status[b])
  <2> DEFINE Bad == {b \in S : IsConnected(status[b])}
             T == {index[b] : b \in Bad}
  <2> SUFFICES ASSUME Bad # {} PROVE FALSE
    BY Zenon
  <2>1. T \subseteq Nat /\ T # {}
    BY SMTT(30), <1>1, <1>2 DEF TypeOK
  <2>2. PICK n \in T : \A m \in T : n <= m
    <3> HIDE DEF T
    <3> QED
      BY Zenon, <2>1, LeastNatural
  <2>3. PICK b \in Bad : n = index[b]
    BY Zenon
  <2>4. b \in S /\ b \in Header /\ b \in Tree \ {Genesis} /\ IsConnected(status[b])
    BY Zenon, <1>2
  <2>5. status[b] = "Connected"
    BY Zenon, <2>4, <1>1, <1>2 DEF IsConnected, ActiveChain
  <2>6. IsConnected(status[Prev[b]]) /\ index[Prev[b]] < index[b]
    BY Zenon, <2>4, <2>5, <1>1 DEF ActiveChain, ParentsFirst
  <2>7. Prev[b] # from
    BY Zenon, <2>6 DEF IsConnected
  <2>8. Prev[b] \in Bad
    BY Zenon, <1>3, <2>4, <2>6, <2>7
  <2>9. index[Prev[b]] \in T
    BY Zenon, <2>8
  <2>10. index[b] <= index[Prev[b]] /\ index[b] \in Nat /\ index[Prev[b]] \in Nat
    BY Zenon, <2>1, <2>2, <2>3, <2>9
  <2> QED
    BY <2>6, <2>10
<1> QED
  BY Zenon, <1>2, <1>3, <1>4

(* So does a step that leaves the tree alone.                              *)
LEMMA StutterIInv ==
    ASSUME IInv, UNCHANGED vars
    PROVE  IInv'
<1>1. UNCHANGED Tree
  BY Zenon DEF vars, Tree
<1>2. TypeOK' /\ DirtyOnce'
  BY Zenon, <1>1 DEF vars, IInv, TypeOK, DirtyOnce
<1>3. ParentsFirst' /\ VerdictClosure'
  BY Zenon, <1>1 DEF vars, IInv, ParentsFirst, VerdictClosure, Culprit
<1>4. BestHeader' /\ ActiveChain'
  BY Zenon, <1>1 DEF vars, IInv, BestHeader, ActiveChain, MostWork
<1> QED
  BY Zenon, <1>2, <1>3, <1>4 DEF IInv

(* The operations of the tree.                                             *)
Operation(now) ==
    \/ \E h \in Header : Accept(h, now)
    \/ \E b \in Header : BlockChecked(b) \/ Connected(b) \/ Disconnected(b)
    \/ \E b \in Header : Invalidate(b)
    \/ ClearDirty

(* Every operation preserves the invariant, at whatever time it comes.     *)
LEMMA OperationIInv == \A now : IInv /\ Operation(now) => IInv'

(* Inserting a header with any of the three statuses accept gives it       *)
(* preserves the invariant.                                                *)
<1>InsertIInv.
    ASSUME IInv,
           NEW h \in Header, NEW s, NEW c \in Block,
           Connects(h), Insert(h, s, c),
           \/ s = "HeaderAccepted" /\ ~Terminal(status[Prev[h]]) /\ h \in AcceptOk
           \/ s = "InvalidHeader" /\ ~Terminal(status[Prev[h]])
           \/ s = "InvalidAncestor" /\ Terminal(status[Prev[h]]) /\ c = Culprit(Prev[h])
    PROVE  IInv'
  <2> USE <1>InsertIInv
  <2> DEFINE p == Prev[h]
  <2>1. TypeOK /\ ParentsFirst /\ ActiveChain /\ VerdictClosure /\ BestHeader /\ DirtyOnce
    BY Zenon DEF IInv
  <2>2. h \in Block /\ p \in Block /\ p \in Tree /\ h \notin Tree /\ h # p /\ h # Genesis
    BY Zenon, BlockFacts DEF Connects, Tree
  <2>3. s \in Status
    BY Zenon DEF Status
  <2>4. TypeOK'
    <3>1. /\ entries' \in Seq(Block)
          /\ Len(entries') = Len(entries) + 1
          /\ Len(entries) + 1 \in Nat
          /\ dirty' \in Seq(Header)
      BY <2>1, <2>2 DEF Insert, TypeOK
    <3>2. chainwork[p] + BlockWork[h] \in Nat /\ height[p] + 1 \in Nat
      <4>1. BlockWork[h] \in Nat
        BY Zenon, BlockFacts
      <4>2. chainwork[p] \in Nat /\ height[p] \in Nat
        BY Zenon, <2>1, <2>2 DEF TypeOK
      <4> QED
        BY <4>1, <4>2
    <3>3. Len(entries') <= Cap
      BY <3>1, ConstantsAssumption DEF Insert, HasRoom
    <3>4. /\ index' \in [Block -> Nat]
          /\ height' \in [Block -> Nat]
          /\ chainwork' \in [Block -> Nat]
          /\ status' \in [Block -> Status]
          /\ culprit' \in [Block -> Block]
      BY Zenon, <2>1, <2>2, <2>3, <3>1, <3>2 DEF Insert, TypeOK
    <3>5. tip' \in Block /\ best_header' \in Block /\ flagged' \subseteq Header
      BY Zenon, <2>1, <2>2 DEF Insert, TypeOK
    <3> QED
      BY Zenon, <3>1, <3>3, <3>4, <3>5 DEF TypeOK
  <2>5. /\ \A b \in Block \ {h} : /\ index'[b] = index[b]
                                 /\ height'[b] = height[b]
                                 /\ chainwork'[b] = chainwork[b]
                                 /\ status'[b] = status[b]
                                 /\ culprit'[b] = culprit[b]
        /\ index'[h] = Len(entries) + 1
        /\ height'[h] = height[p] + 1
        /\ chainwork'[h] = chainwork[p] + BlockWork[h]
        /\ status'[h] = s
        /\ culprit'[h] = c
    BY Zenon, <2>1, <2>2 DEF Insert, TypeOK
  <2>6. Tree' = Tree \cup {h}
    <3>1. index'[h] # 0
      BY <2>1, <2>5 DEF TypeOK
    <3> QED
      BY Zenon, <3>1, <2>2, <2>5 DEF Tree
  <2>7. ParentsFirst'
    <3>1. /\ DOMAIN entries = 1 .. Len(entries)
          /\ DOMAIN entries' = 1 .. Len(entries) + 1
          /\ \A i \in 1 .. Len(entries) : entries'[i] = entries[i]
          /\ entries'[Len(entries) + 1] = h
          /\ Len(entries) \in Nat
      <4>1. entries \in Seq(Block) /\ entries' = Append(entries, h)
        BY Zenon, <2>1 DEF Insert, TypeOK
      <4> QED
        BY <4>1, <2>2, AppendFacts
    <3>2. \A i \in DOMAIN entries : entries[i] \in Tree /\ entries[i] \in Block
      <4> SUFFICES ASSUME NEW i \in DOMAIN entries
                   PROVE  entries[i] \in Tree /\ entries[i] \in Block
        BY Zenon
      <4>1. entries[i] \in Block
        BY <2>1, <3>1 DEF TypeOK
      <4>2. index[entries[i]] = i /\ i # 0
        BY <2>1, <3>1 DEF ParentsFirst
      <4> QED
        BY Zenon, <4>1, <4>2 DEF Tree
    <3>3. ASSUME NEW i \in DOMAIN entries' PROVE index'[entries'[i]] = i
      <4>1. CASE i = Len(entries) + 1
        BY Zenon, <4>1, <2>5, <3>1
      <4>2. CASE i \in 1 .. Len(entries)
        <5>1. entries'[i] = entries[i] /\ entries[i] \in Block \ {h} /\ index[entries[i]] = i
          BY Zenon, <4>2, <2>1, <2>2, <3>1, <3>2 DEF ParentsFirst
        <5> QED
          BY Zenon, <5>1, <2>5
      <4> QED
        BY <4>1, <4>2, <3>1
    <3>4. ASSUME NEW b \in Tree'
          PROVE  index'[b] \in DOMAIN entries' /\ entries'[index'[b]] = b
      <4>1. CASE b = h
        BY <4>1, <2>5, <3>1
      <4>2. CASE b # h
        <5>1. b \in Tree /\ index'[b] = index[b]
          BY Zenon, <4>2, <2>5, <2>6 DEF Tree
        <5>2. index[b] \in 1 .. Len(entries) /\ entries[index[b]] = b
          BY Zenon, <5>1, <2>1, <3>1 DEF ParentsFirst
        <5> QED
          BY <5>1, <5>2, <3>1
      <4> QED
        BY Zenon, <4>1, <4>2
    <3>5. \A b \in Block : b \in Tree' <=> status'[b] # "Absent"
      BY <2>1, <2>5, <2>6 DEF ParentsFirst
    <3>6. ASSUME NEW b \in Tree' \ {Genesis}
          PROVE  /\ Prev[b] \in Tree'
                 /\ index'[Prev[b]] < index'[b]
                 /\ height'[b] = height'[Prev[b]] + 1
                 /\ chainwork'[b] = chainwork'[Prev[b]] + BlockWork[b]
      <4>1. CASE b = h
        <5>1. index[p] \in 1 .. Len(entries)
          BY Zenon, <2>1, <2>2, <3>1 DEF ParentsFirst
        <5> QED
          BY <4>1, <5>1, <2>2, <2>5, <2>6, <3>1
      <4>2. CASE b # h
        <5>1. b \in Tree \ {Genesis} /\ b \in Block
          BY Zenon, <4>2, <2>6 DEF Tree
        <5>2. /\ Prev[b] \in Tree
              /\ index[Prev[b]] < index[b]
              /\ height[b] = height[Prev[b]] + 1
              /\ chainwork[b] = chainwork[Prev[b]] + BlockWork[b]
          BY Zenon, <2>1, <5>1 DEF ParentsFirst
        <5>3. Prev[b] # h /\ Prev[b] \in Block
          BY Zenon, <5>2, <2>2 DEF Tree
        <5> QED
          BY Zenon, <5>1, <5>2, <5>3, <4>2, <2>5, <2>6
      <4> QED
        BY Zenon, <4>1, <4>2
    <3> QED
      BY Zenon, <3>3, <3>4, <3>5, <3>6, <2>1, <2>2, <2>5, BlockFacts DEF ParentsFirst
  <2>8. ActiveChain'
    <3>1. \A b \in Block : IsConnected(status'[b]) => b # h /\ status'[b] = status[b]
      BY Zenon, <2>5 DEF IsConnected
    <3>2. status[h] = "Absent"
      BY Zenon, <2>1, <2>2 DEF ParentsFirst
    <3>3. IsConnected(status'[tip']) /\ tip' = tip /\ tip # h /\ tip \in Block
      <4>1. tip' = tip /\ tip \in Block
        BY Zenon, <2>1 DEF Insert, TypeOK
      <4>2. IsConnected(status[tip])
        BY Zenon, <2>1 DEF ActiveChain
      <4>3. tip # h
        BY Zenon, <3>2, <4>2 DEF IsConnected
      <4>4. status'[tip] = status[tip]
        BY Zenon, <2>5, <4>1, <4>3
      <4> QED
        BY Zenon, <4>1, <4>2, <4>3, <4>4
    <3>4. \A b \in Block : status'[b] = "Genesis" <=> b = Genesis
      BY <2>1, <2>2, <2>5 DEF ActiveChain
    <3>5. ASSUME NEW b \in Header, status'[b] = "Connected"
          PROVE  IsConnected(status'[Prev[b]]) /\ height'[b] <= height'[tip']
      <4>1. b # h /\ status[b] = "Connected" /\ b \in Block /\ Prev[b] \in Block
        BY Zenon, <3>1, <3>5, BlockFacts DEF IsConnected
      <4>2. IsConnected(status[Prev[b]]) /\ height[b] <= height[tip]
        BY Zenon, <2>1, <4>1 DEF ActiveChain
      <4>3. Prev[b] # h
        BY Zenon, <4>2, <3>2 DEF IsConnected
      <4> QED
        BY Zenon, <4>1, <4>2, <4>3, <3>3, <2>5
    <3>6. \A b, d \in Block :
            /\ IsConnected(status'[b])
            /\ IsConnected(status'[d])
            /\ height'[b] = height'[d]
            => b = d
      BY Zenon, <2>1, <2>5, <3>1 DEF ActiveChain
    <3> QED
      BY Zenon, <3>3, <3>4, <3>5, <3>6 DEF ActiveChain
  <2>9. VerdictClosure'
    <3> SUFFICES ASSUME NEW b \in Tree' \ {Genesis}
                 PROVE  /\ Terminal(status'[Prev[b]]) => Terminal(status'[b])
                        /\ status'[b] = "InvalidAncestor" =>
                             /\ Terminal(status'[Prev[b]])
                             /\ culprit'[b] = Culprit(Prev[b])'
                             /\ Refused(status'[culprit'[b]])
                        /\ ~Terminal(status'[b]) => b \in AcceptOk
      BY Zenon DEF VerdictClosure
    <3>1. b \in Block /\ Prev[b] \in Tree /\ Prev[b] \in Block /\ Prev[b] # h
      <4>1. CASE b = h
        BY Zenon, <4>1, <2>2
      <4>2. CASE b # h
        BY <4>2, <2>1, <2>2, <2>6 DEF ParentsFirst, Tree
      <4> QED
        BY Zenon, <4>1, <4>2
    <3>2. status'[Prev[b]] = status[Prev[b]] /\ Culprit(Prev[b])' = Culprit(Prev[b])
      BY Zenon, <3>1, <2>5 DEF Culprit
    <3>3. status[h] = "Absent"
      BY Zenon, <2>1, <2>2 DEF ParentsFirst
    <3>4. CASE b = h
      <4>1. s = "InvalidAncestor" => Refused(status[c]) /\ c \in Block
        <5> SUFFICES ASSUME s = "InvalidAncestor" PROVE Refused(status[c])
          BY Zenon
        <5>1. Terminal(status[p]) /\ c = Culprit(p)
          BY Zenon
        <5>2. CASE Refused(status[p])
          BY Zenon, <5>1, <5>2 DEF Culprit
        <5>3. CASE ~Refused(status[p])
          <6>1. status[p] = "InvalidAncestor" /\ c = culprit[p]
            BY Zenon, <5>1, <5>3 DEF Culprit, Terminal
          <6>2. p # Genesis
            BY Zenon, <2>1, <6>1, BlockFacts DEF ActiveChain
          <6> QED
            BY Zenon, <6>1, <6>2, <2>1, <2>2 DEF VerdictClosure
        <5> QED
          BY Zenon, <5>2, <5>3
      <4>2. s = "InvalidAncestor" => status'[c] = status[c]
        BY Zenon, <4>1, <3>3, <2>5 DEF Refused
      <4> QED
        BY Zenon, <3>2, <3>4, <4>1, <4>2, <2>5 DEF Terminal, Refused
    <3>5. CASE b # h
      <4>1. b \in Tree \ {Genesis}
        BY Zenon, <3>5, <2>6
      <4>2. /\ Terminal(status[Prev[b]]) => Terminal(status[b])
            /\ status[b] = "InvalidAncestor" =>
                 /\ Terminal(status[Prev[b]])
                 /\ culprit[b] = Culprit(Prev[b])
                 /\ Refused(status[culprit[b]])
            /\ ~Terminal(status[b]) => b \in AcceptOk
        BY Zenon, <4>1, <2>1 DEF VerdictClosure
      <4>3. status'[b] = status[b] /\ culprit'[b] = culprit[b] /\ culprit[b] \in Block
        BY Zenon, <3>1, <3>5, <2>1, <2>5 DEF TypeOK
      <4>4. Refused(status[culprit[b]]) => culprit[b] # h
        BY Zenon, <3>3 DEF Refused
      <4> QED
        BY Zenon, <3>2, <4>2, <4>3, <4>4, <2>5
    <3> QED
      BY Zenon, <3>4, <3>5
  <2>10. BestHeader'
    <3>1. /\ best_header \in Tree /\ best_header # h /\ best_header \in Block
          /\ ~Terminal(status[best_header])
          /\ \A d \in Tree : ~Terminal(status[d]) =>
               \/ chainwork[d] < chainwork[best_header]
               \/ chainwork[d] = chainwork[best_header] /\ index[best_header] <= index[d]
      BY Zenon, <2>1, <2>2 DEF BestHeader, MostWork, TypeOK
    <3>2. \A d \in Tree : d \in Block /\ d # h /\ index[d] <= Len(entries)
      <4>1. DOMAIN entries = 1 .. Len(entries)
        BY <2>1 DEF TypeOK
      <4> QED
        BY <4>1, <2>1, <2>2 DEF ParentsFirst, Tree
    <3>3. \A d \in Block : chainwork[d] \in Nat /\ index[d] \in Nat
      BY Zenon, <2>1 DEF TypeOK
    <3>4. Len(entries) \in Nat
      BY <2>1 DEF TypeOK
    <3>5. chainwork'[h] \in Nat
      BY Zenon, <2>2, <2>4 DEF TypeOK
    <3>6. CASE ~Terminal(s) /\ chainwork'[h] > chainwork[best_header]
      <4>1. best_header' = h
        BY Zenon, <3>6, <2>5 DEF Insert, Displaces
      <4>2. ASSUME NEW d \in Tree', ~Terminal(status'[d])
            PROVE  \/ chainwork'[d] < chainwork'[h]
                   \/ chainwork'[d] = chainwork'[h] /\ index'[h] <= index'[d]
        <5>1. CASE d = h
          BY <5>1, <3>5, <3>4, <2>5
        <5>2. CASE d # h
          <6>1. d \in Tree /\ d \in Block /\ ~Terminal(status[d]) /\ chainwork'[d] = chainwork[d]
            BY Zenon, <5>2, <4>2, <3>2, <2>5, <2>6
          <6>2. chainwork[d] <= chainwork[best_header]
            BY <6>1, <3>1, <3>3
          <6> QED
            BY <6>1, <6>2, <3>1, <3>3, <3>5, <3>6
        <5> QED
          BY Zenon, <5>1, <5>2
      <4> QED
        BY Zenon, <4>1, <4>2, <3>6, <2>5, <2>6 DEF BestHeader, MostWork
    <3>7. CASE ~(~Terminal(s) /\ chainwork'[h] > chainwork[best_header])
      <4>1. best_header' = best_header
        BY Zenon, <3>7, <2>5 DEF Insert, Displaces
      <4>2. ASSUME NEW d \in Tree', ~Terminal(status'[d])
            PROVE  \/ chainwork'[d] < chainwork'[best_header]
                   \/ /\ chainwork'[d] = chainwork'[best_header]
                      /\ index'[best_header] <= index'[d]
        <5>1. CASE d = h
          <6>1. chainwork'[h] <= chainwork[best_header]
            BY <5>1, <4>2, <3>1, <3>3, <3>5, <3>7, <2>5
          <6>2. index[best_header] <= Len(entries) + 1
            BY <3>1, <3>2, <3>3, <3>4
          <6> QED
            BY <5>1, <6>1, <6>2, <3>1, <3>3, <3>5, <2>5
        <5>2. CASE d # h
          BY Zenon, <5>2, <4>2, <3>1, <3>2, <2>5, <2>6
        <5> QED
          BY Zenon, <5>1, <5>2
      <4> QED
        BY Zenon, <4>1, <4>2, <3>1, <2>5, <2>6 DEF BestHeader, MostWork
    <3> QED
      BY Zenon, <3>6, <3>7
  <2>11. DirtyOnce'
    <3>1. h \notin flagged /\ flagged' = flagged \cup {h}
      BY Zenon, <2>1, <2>2 DEF DirtyOnce, Insert
    <3>2. dirty \in Seq(Header) /\ dirty' = Append(dirty, h)
      BY Zenon, <2>1 DEF TypeOK, Insert
    <3>3. /\ DOMAIN dirty = 1 .. Len(dirty)
          /\ DOMAIN dirty' = 1 .. Len(dirty) + 1
          /\ \A i \in 1 .. Len(dirty) : dirty'[i] = dirty[i]
          /\ dirty'[Len(dirty) + 1] = h
          /\ Len(dirty) \in Nat
      <4>1. /\ DOMAIN dirty = 1 .. Len(dirty)
            /\ DOMAIN Append(dirty, h) = 1 .. Len(dirty) + 1
            /\ \A i \in 1 .. Len(dirty) : Append(dirty, h)[i] = dirty[i]
            /\ Append(dirty, h)[Len(dirty) + 1] = h
            /\ Len(dirty) \in Nat
        BY <3>2, AppendFacts
      <4> QED
        BY <3>2, <4>1, Zenon
    <3>4. \A i \in DOMAIN dirty : dirty[i] # h
      BY Zenon, <2>1, <3>1 DEF DirtyOnce
    <3>5. \A i, j \in DOMAIN dirty' : dirty'[i] = dirty'[j] => i = j
      <4>1. \A i, j \in 1 .. Len(dirty) : dirty[i] = dirty[j] => i = j
        BY Zenon, <2>1, <3>3 DEF DirtyOnce
      <4>2. \A i \in 1 .. Len(dirty) + 1 : i \in 1 .. Len(dirty) \/ i = Len(dirty) + 1
        BY <3>3
      <4> QED
        BY Zenon, <3>3, <3>4, <4>1, <4>2
    <3>6. \A b \in Header : b \in flagged' <=> \E i \in DOMAIN dirty' : dirty'[i] = b
      BY <2>1, <3>1, <3>3 DEF DirtyOnce
    <3>7. flagged' \subseteq Tree'
      BY Zenon, <2>1, <2>6, <3>1 DEF DirtyOnce
    <3> QED
      BY Zenon, <3>5, <3>6, <3>7 DEF DirtyOnce
  <2> QED
    BY Zenon, <2>4, <2>7, <2>8, <2>9, <2>10, <2>11 DEF IInv

(* Marking an entry dirty keeps the flags and the list in step.            *)
<1>MarkDirtyIInv.
    ASSUME IInv, NEW b \in Header, b \in Tree, MarkDirty(b), index' = index
    PROVE  DirtyOnce' /\ dirty' \in Seq(Header) /\ flagged' \subseteq Header
  <2> USE <1>MarkDirtyIInv
  <2>1. TypeOK /\ DirtyOnce
    BY Zenon DEF IInv
  <2>2. Tree' = Tree
    BY Zenon DEF Tree
  <2>3. CASE b \in flagged
    <3>1. dirty' = dirty /\ flagged' = flagged
      BY Zenon, <2>3 DEF MarkDirty
    <3> QED
      BY Zenon, <3>1, <2>1, <2>2 DEF DirtyOnce, TypeOK
  <2>4. CASE b \notin flagged
    <3>1. dirty \in Seq(Header) /\ dirty' = Append(dirty, b) /\ flagged' = flagged \cup {b}
      BY Zenon, <2>1, <2>4 DEF TypeOK, MarkDirty
    <3>2. /\ dirty' \in Seq(Header)
          /\ DOMAIN dirty = 1 .. Len(dirty)
          /\ DOMAIN dirty' = 1 .. Len(dirty) + 1
          /\ \A i \in 1 .. Len(dirty) : dirty'[i] = dirty[i]
          /\ dirty'[Len(dirty) + 1] = b
          /\ Len(dirty) \in Nat
      BY <3>1, AppendFacts
    <3>3. \A i \in DOMAIN dirty : dirty[i] # b
      BY Zenon, <2>1, <2>4 DEF DirtyOnce
    <3>4. \A i, j \in DOMAIN dirty' : dirty'[i] = dirty'[j] => i = j
      BY <2>1, <3>2, <3>3 DEF DirtyOnce
    <3>5. \A d \in Header : d \in flagged' <=> \E i \in DOMAIN dirty' : dirty'[i] = d
      BY <2>1, <3>1, <3>2 DEF DirtyOnce
    <3>6. flagged' \subseteq Tree' /\ flagged' \subseteq Header
      BY Zenon, <2>1, <2>2, <3>1 DEF DirtyOnce, TypeOK
    <3> QED
      BY Zenon, <3>2, <3>4, <3>5, <3>6 DEF DirtyOnce
  <2> QED
    BY Zenon, <2>3, <2>4

(* A step that leaves the arena alone and moves no block in or out of the  *)
(* status Absent keeps what depends on the arena only.                     *)
<1>ArenaKept.
    ASSUME IInv, UNCHANGED <<entries, index, height, chainwork>>,
           \A b \in Block : status[b] = "Absent" <=> status'[b] = "Absent"
    PROVE  ParentsFirst' /\ Tree' = Tree
  <2> USE <1>ArenaKept
  <2>1. Tree' = Tree
    BY Zenon DEF Tree
  <2> QED
    BY Zenon, <2>1 DEF IInv, ParentsFirst

(* A block that is neither terminal before nor after the step leaves every *)
(* verdict where it was, and with them the choice of the most-work header. *)
<1>StagesKeepVerdicts.
    ASSUME IInv, NEW b \in Header, NEW s,
           UNCHANGED <<entries, index, height, chainwork, culprit, best_header>>,
           ~Terminal(status[b]), ~Terminal(s), status[b] # "Absent", s # "Absent",
           status' = [status EXCEPT ![b] = s]
    PROVE  ParentsFirst' /\ VerdictClosure' /\ BestHeader'
  <2> USE <1>StagesKeepVerdicts
  <2>1. TypeOK /\ ParentsFirst /\ VerdictClosure /\ BestHeader /\ b \in Block
    BY Zenon, BlockFacts DEF IInv
  <2>2. status'[b] = s /\ \A d \in Block \ {b} : status'[d] = status[d]
    BY Zenon, <2>1 DEF TypeOK
  <2>3. ParentsFirst' /\ Tree' = Tree
    <3>1. \A d \in Block : status[d] = "Absent" <=> status'[d] = "Absent"
      BY Zenon, <2>2
    <3> QED
      BY Zenon, <3>1, <1>ArenaKept
  <2>4. \A d \in Block : /\ Terminal(status'[d]) <=> Terminal(status[d])
                         /\ Refused(status'[d]) <=> Refused(status[d])
                         /\ status'[d] = "InvalidAncestor" <=> status[d] = "InvalidAncestor"
    BY Zenon, <2>2 DEF Terminal, Refused
  <2>5. \A d \in Block : Culprit(d)' = Culprit(d)
    BY Zenon, <2>4 DEF Culprit
  <2>6. \A d \in Tree \ {Genesis} : d \in Block /\ Prev[d] \in Block /\ culprit[d] \in Block
    BY Zenon, <2>1, BlockFacts DEF Tree, TypeOK
  <2>7. VerdictClosure'
    BY <2>1, <2>3, <2>4, <2>5, <2>6 DEF VerdictClosure
  <2>8. BestHeader'
    <3>1. \A d \in Tree : d \in Block
      BY Zenon DEF Tree
    <3> QED
      BY Zenon, <2>1, <2>3, <2>4, <3>1 DEF BestHeader, MostWork
  <2> QED
    BY Zenon, <2>3, <2>7, <2>8

(* Checking a block preserves the invariant.                               *)
<1>BlockCheckedIInv.
    ASSUME IInv, NEW b \in Header, BlockChecked(b)
    PROVE  IInv'
  <2> USE <1>BlockCheckedIInv
  <2>1. TypeOK /\ ParentsFirst /\ ActiveChain /\ b \in Block
    BY Zenon, BlockFacts DEF IInv
  <2>2. b \in Tree
    BY Zenon, <2>1 DEF ParentsFirst, BlockChecked
  <2>3. DirtyOnce' /\ dirty' \in Seq(Header) /\ flagged' \subseteq Header
    BY Zenon, <2>2, <1>MarkDirtyIInv DEF BlockChecked
  <2>4. ParentsFirst' /\ VerdictClosure' /\ BestHeader'
    <3>1. ~Terminal(status[b]) /\ ~Terminal("BlockChecked") /\ status[b] # "Absent"
      BY Zenon DEF BlockChecked, Terminal, Refused
    <3> QED
      BY Zenon, <3>1, <1>StagesKeepVerdicts DEF BlockChecked
  <2>5. status'[b] = "BlockChecked" /\ \A d \in Block \ {b} : status'[d] = status[d]
    BY Zenon, <2>1 DEF TypeOK, BlockChecked
  <2>6. TypeOK'
    BY Zenon, <2>1, <2>3 DEF TypeOK, BlockChecked, Status
  <2>7. ActiveChain'
    <3>1. \A d \in Block : /\ IsConnected(status'[d]) <=> IsConnected(status[d])
                           /\ status'[d] = "Connected" <=> status[d] = "Connected"
                           /\ status'[d] = "Genesis" <=> status[d] = "Genesis"
      BY Zenon, <2>1, <2>5 DEF IsConnected, BlockChecked
    <3> QED
      BY Zenon, <2>1, <3>1, BlockFacts DEF ActiveChain, BlockChecked, TypeOK
  <2> QED
    BY Zenon, <2>3, <2>4, <2>6, <2>7 DEF IInv

(* Connecting the block after the tip preserves the invariant: its height  *)
(* is one more than any connected block's.                                 *)
<1>ConnectedIInv.
    ASSUME IInv, NEW b \in Header, Connected(b)
    PROVE  IInv'
  <2> USE <1>ConnectedIInv
  <2>1. TypeOK /\ ParentsFirst /\ ActiveChain /\ b \in Block /\ b # Genesis
    BY Zenon, BlockFacts DEF IInv
  <2>2. b \in Tree
    BY Zenon, <2>1 DEF ParentsFirst, Connected, OnTip
  <2>3. DirtyOnce' /\ dirty' \in Seq(Header) /\ flagged' \subseteq Header
    BY Zenon, <2>2, <1>MarkDirtyIInv DEF Connected, OnTip
  <2>4. ParentsFirst' /\ VerdictClosure' /\ BestHeader'
    <3>1. ~Terminal(status[b]) /\ ~Terminal("Connected") /\ status[b] # "Absent"
      BY Zenon DEF Connected, OnTip, Terminal, Refused
    <3> QED
      BY Zenon, <3>1, <1>StagesKeepVerdicts DEF Connected, OnTip
  <2>5. status'[b] = "Connected" /\ \A d \in Block \ {b} : status'[d] = status[d]
    BY Zenon, <2>1 DEF TypeOK, Connected, OnTip
  <2>6. TypeOK'
    BY Zenon, <2>1, <2>3 DEF TypeOK, Connected, OnTip, Status
  <2>7. ActiveChain'
    <3>1. height[b] = height[tip] + 1 /\ tip \in Block /\ tip' = b /\ height' = height
      BY Zenon, <2>1, <2>2 DEF ParentsFirst, Connected, OnTip, TypeOK
    <3>2. \A d \in Block : height[d] \in Nat
      BY Zenon, <2>1 DEF TypeOK
    <3>3. \A d \in Block : IsConnected(status[d]) => height[d] <= height[tip]
      <4>1. \A d \in Header : IsConnected(status[d]) => height[d] <= height[tip]
        BY Zenon, <2>1, BlockFacts DEF ActiveChain, IsConnected
      <4>2. height[Genesis] <= height[tip]
        BY <2>1, <3>1, <3>2 DEF ParentsFirst
      <4> QED
        BY Zenon, <4>1, <4>2, BlockFacts
    <3>4. \A d \in Block : status'[d] = "Genesis" <=> d = Genesis
      BY Zenon, <2>1, <2>5 DEF ActiveChain
    <3>5. ASSUME NEW d \in Header, status'[d] = "Connected"
          PROVE  IsConnected(status'[Prev[d]]) /\ height'[d] <= height'[tip']
      <4>1. \A e \in Block : IsConnected(status[e]) => IsConnected(status'[e])
        BY Zenon, <2>5 DEF IsConnected
      <4>2. d \in Block /\ Prev[d] \in Block
        BY Zenon, BlockFacts
      <4>3. CASE d = b
        BY <4>1, <4>2, <4>3, <2>1, <3>1, <3>2 DEF ActiveChain, Connected, OnTip
      <4>4. CASE d # b
        <5>1. IsConnected(status[Prev[d]]) /\ height[d] <= height[tip]
          BY Zenon, <4>2, <4>4, <3>5, <2>1, <2>5 DEF ActiveChain
        <5> QED
          BY <5>1, <4>1, <4>2, <3>1, <3>2
      <4> QED
        BY Zenon, <4>3, <4>4
    <3>6. ASSUME NEW d \in Block, NEW e \in Block,
                 IsConnected(status'[d]), IsConnected(status'[e]), height'[d] = height'[e]
          PROVE  d = e
      <4>1. \A x \in Block : IsConnected(status'[x]) => x = b \/ IsConnected(status[x])
        BY Zenon, <2>5
      <4>2. \A x \in Block : IsConnected(status[x]) => height[x] # height[b]
        BY <3>1, <3>2, <3>3
      <4>3. \A x, y \in Block :
              IsConnected(status[x]) /\ IsConnected(status[y]) /\ height[x] = height[y] => x = y
        BY Zenon, <2>1 DEF ActiveChain
      <4> QED
        BY Zenon, <3>1, <3>6, <4>1, <4>2, <4>3
    <3> QED
      BY Zenon, <3>1, <3>4, <3>5, <3>6, <2>5 DEF ActiveChain, IsConnected
  <2> QED
    BY Zenon, <2>3, <2>4, <2>6, <2>7 DEF IInv

(* Disconnecting the tip preserves the invariant: the parent is connected, *)
(* and every other connected block is below the old tip.                   *)
<1>DisconnectedIInv.
    ASSUME IInv, NEW b \in Header, Disconnected(b)
    PROVE  IInv'
  <2> USE <1>DisconnectedIInv
  <2>1. TypeOK /\ ParentsFirst /\ ActiveChain /\ b \in Block /\ b # Genesis /\ Prev[b] \in Block
    BY Zenon, BlockFacts DEF IInv
  <2>2. b \in Tree
    BY Zenon, <2>1 DEF ParentsFirst, Disconnected, IsTip
  <2>3. DirtyOnce' /\ dirty' \in Seq(Header) /\ flagged' \subseteq Header
    BY Zenon, <2>2, <1>MarkDirtyIInv DEF Disconnected, IsTip
  <2>4. ParentsFirst' /\ VerdictClosure' /\ BestHeader'
    <3>1. ~Terminal(status[b]) /\ ~Terminal("BlockChecked") /\ status[b] # "Absent"
      BY Zenon DEF Disconnected, IsTip, Terminal, Refused
    <3> QED
      BY Zenon, <3>1, <1>StagesKeepVerdicts DEF Disconnected, IsTip
  <2>5. status'[b] = "BlockChecked" /\ \A d \in Block \ {b} : status'[d] = status[d]
    BY Zenon, <2>1 DEF TypeOK, Disconnected, IsTip
  <2>6. TypeOK'
    BY Zenon, <2>1, <2>3 DEF TypeOK, Disconnected, IsTip, Status
  <2>7. ActiveChain'
    <3>1. height[b] = height[Prev[b]] + 1 /\ tip = b /\ tip' = Prev[b] /\ height' = height
      BY Zenon, <2>1, <2>2 DEF ParentsFirst, Disconnected, IsTip
    <3>2. \A d \in Block : height[d] \in Nat
      BY Zenon, <2>1 DEF TypeOK
    <3>3. \A d \in Block : IsConnected(status'[d]) => d # b /\ status'[d] = status[d]
      BY Zenon, <2>5 DEF IsConnected
    <3>4. IsConnected(status'[tip'])
      <4>1. IsConnected(status[Prev[b]]) /\ Prev[b] # b
        <5>1. status[b] = "Connected"
          BY Zenon DEF Disconnected
        <5>2. IsConnected(status[Prev[b]])
          BY Zenon, <2>1, <5>1 DEF ActiveChain
        <5>3. Prev[b] # b
          BY <2>1, <3>1, <3>2
        <5> QED
          BY Zenon, <5>2, <5>3
      <4>2. status'[Prev[b]] = status[Prev[b]]
        BY Zenon, <4>1, <2>1, <2>5
      <4> QED
        BY Zenon, <4>1, <4>2, <3>1
    <3>5. \A d \in Block : status'[d] = "Genesis" <=> d = Genesis
      BY Zenon, <2>1, <2>5 DEF ActiveChain
    <3>6. ASSUME NEW d \in Header, status'[d] = "Connected"
          PROVE  IsConnected(status'[Prev[d]]) /\ height'[d] <= height'[tip']
      <4>1. d \in Block /\ Prev[d] \in Block /\ d # b /\ status[d] = "Connected" /\ d # Genesis
        BY Zenon, <3>3, <3>6, BlockFacts DEF IsConnected
      <4>2. IsConnected(status[Prev[d]]) /\ height[d] <= height[b]
        BY Zenon, <4>1, <3>1, <2>1 DEF ActiveChain
      <4>3. height[d] # height[b]
        BY Zenon, <4>1, <2>1 DEF ActiveChain, IsConnected, Disconnected, IsTip
      <4>4. d \in Tree
        BY Zenon, <4>1, <2>1 DEF ParentsFirst
      <4>5. Prev[d] # b
        <5>1. height[d] = height[Prev[d]] + 1
          BY Zenon, <4>1, <4>4, <2>1 DEF ParentsFirst
        <5> QED
          BY <4>1, <4>2, <5>1, <2>1, <3>2
      <4>6. status'[Prev[d]] = status[Prev[d]]
        BY Zenon, <4>1, <4>5, <2>5
      <4>7. height[d] <= height[Prev[b]]
        BY <4>1, <4>2, <4>3, <3>1, <3>2, <2>1
      <4> QED
        BY Zenon, <4>2, <4>6, <4>7, <3>1
    <3>7. \A d, e \in Block :
            IsConnected(status'[d]) /\ IsConnected(status'[e]) /\ height'[d] = height'[e] => d = e
      BY Zenon, <2>1, <3>1, <3>3 DEF ActiveChain
    <3> QED
      BY Zenon, <3>4, <3>5, <3>6, <3>7 DEF ActiveChain
  <2> QED
    BY Zenon, <2>3, <2>4, <2>6, <2>7 DEF IInv

(* Refusing a block preserves the invariant.                               *)
<1>InvalidateIInv.
    ASSUME IInv, NEW from \in Header, Invalidate(from)
    PROVE  IInv'
  <2> USE <1>InvalidateIInv
  <2>1. TypeOK /\ ParentsFirst /\ ActiveChain /\ VerdictClosure /\ from \in Block
    BY Zenon, BlockFacts DEF IInv
  <2>2. from \in Tree /\ from # Genesis
    BY Zenon, <2>1, BlockFacts DEF ParentsFirst, Invalidate
  <2>3. DirtyOnce' /\ dirty' \in Seq(Header) /\ flagged' \subseteq Header
    BY Zenon, <2>2, <1>MarkDirtyIInv DEF Invalidate
  <2>4. PICK S \in SUBSET (Tree \ {Genesis}) :
          Inherits(from, S) /\ PropagateAndReselect(from, S)
    BY Zenon DEF Invalidate
  <2>5. \A b \in S : /\ b \in Header
                    /\ ~Terminal(status[b])
                    /\ Prev[b] \in S \cup {from}
                    /\ ~IsConnected(status[b])
    BY Zenon, <2>4, InheritorsOffChain DEF Invalidate
  <2>6. /\ status'[from] = "InvalidBlock"
        /\ \A b \in S : b # from => status'[b] = "InvalidAncestor" /\ culprit'[b] = from
        /\ \A b \in Block \ (S \cup {from}) : status'[b] = status[b]
        /\ \A b \in Block \ S : culprit'[b] = culprit[b]
    <3>1. S \subseteq Block
      BY Zenon, <2>5, BlockFacts
    <3>2. status' = [b \in Block |-> IF b = from THEN "InvalidBlock"
                                     ELSE IF b \in S THEN "InvalidAncestor"
                                     ELSE status[b]]
      BY Zenon, <2>4 DEF PropagateAndReselect
    <3>3. culprit' = [b \in Block |->
                        IF b \notin S THEN culprit[b]
                        ELSE IF Prev[b] \in S \cup {from} THEN from
                        ELSE Culprit(Prev[b])]
      BY Zenon, <2>4 DEF PropagateAndReselect
    <3>4. /\ status'[from] = "InvalidBlock"
          /\ \A b \in S : b # from => status'[b] = "InvalidAncestor"
          /\ \A b \in Block \ (S \cup {from}) : status'[b] = status[b]
      BY Zenon, <2>1, <3>1, <3>2
    <3>5. /\ \A b \in S : culprit'[b] = from
          /\ \A b \in Block \ S : culprit'[b] = culprit[b]
      BY Zenon, <2>5, <3>1, <3>3
    <3> QED
      BY Zenon, <3>4, <3>5
  <2>7. from \notin S
    <3>1. index[from] \in Nat
      BY Zenon, <2>1 DEF TypeOK
    <3>2. from \in S => index[from] > index[from]
      BY Zenon, <2>4 DEF Inherits
    <3> QED
      BY <3>1, <3>2
  <2>8. TypeOK'
    <3>1. status' \in [Block -> Status]
      BY Zenon, <2>1, <2>4 DEF PropagateAndReselect, TypeOK, Status
    <3>2. culprit' \in [Block -> Block]
      BY Zenon, <2>1, <2>4, <2>5 DEF PropagateAndReselect, TypeOK
    <3>3. best_header' \in Block
      BY Zenon, <2>4 DEF PropagateAndReselect, Tree
    <3> QED
      BY Zenon, <2>1, <2>3, <3>1, <3>2, <3>3 DEF TypeOK, Invalidate
  <2>9. ParentsFirst' /\ Tree' = Tree
    <3>1. \A b \in S : status[b] # "Absent"
      BY Zenon, <2>1, BlockFacts DEF ParentsFirst, Tree
    <3>2. \A b \in Block : status[b] = "Absent" <=> status'[b] = "Absent"
      BY Zenon, <2>5, <2>6, <2>7, <3>1 DEF Invalidate
    <3> QED
      BY Zenon, <3>2, <1>ArenaKept DEF Invalidate
  <2>10. ActiveChain'
    <3>1. \A b \in Block : IsConnected(status'[b]) <=> IsConnected(status[b])
      BY Zenon, <2>5, <2>6, <2>7 DEF IsConnected, Invalidate
    <3>2. \A b \in Block : IsConnected(status[b]) => status'[b] = status[b]
      BY Zenon, <2>5, <2>6 DEF IsConnected, Invalidate
    <3>3. \A b \in Block : /\ status'[b] = "Connected" <=> status[b] = "Connected"
                           /\ status'[b] = "Genesis" <=> status[b] = "Genesis"
      BY Zenon, <3>1, <3>2 DEF IsConnected
    <3> QED
      BY Zenon, <2>1, <3>1, <3>3, BlockFacts DEF ActiveChain, Invalidate, TypeOK
  <2>11. VerdictClosure'
    <3>1. \A b \in Block : Terminal(status[b]) => b \notin S /\ b # from /\ status'[b] = status[b]
      BY Zenon, <2>5, <2>6 DEF Terminal, Refused, Invalidate
    <3>2. \A b \in Block : Terminal(status[b]) => culprit'[b] = culprit[b]
      BY Zenon, <3>1, <2>6
    <3>3. \A b \in Block : Terminal(status'[b]) <=> Terminal(status[b]) \/ b \in S \cup {from}
      BY Zenon, <2>5, <2>6, <2>7, <3>1 DEF Terminal, Refused
    <3> SUFFICES ASSUME NEW b \in Tree \ {Genesis}
                 PROVE  /\ Terminal(status'[Prev[b]]) => Terminal(status'[b])
                        /\ status'[b] = "InvalidAncestor" =>
                             /\ Terminal(status'[Prev[b]])
                             /\ culprit'[b] = Culprit(Prev[b])'
                             /\ Refused(status'[culprit'[b]])
                        /\ ~Terminal(status'[b]) => b \in AcceptOk
      BY Zenon, <2>9 DEF VerdictClosure
    <3>4. /\ b \in Block /\ b \in Header /\ Prev[b] \in Block /\ Prev[b] \in Tree
          /\ index[Prev[b]] < index[b] /\ index[b] \in Nat /\ index[Prev[b]] \in Nat
          /\ index[from] \in Nat
      <4>1. b \in Block /\ b \in Header /\ Prev[b] \in Block
        BY Zenon, BlockFacts DEF Tree
      <4>2. Prev[b] \in Tree /\ index[Prev[b]] < index[b]
        BY Zenon, <2>1 DEF ParentsFirst
      <4>3. index[b] \in Nat /\ index[Prev[b]] \in Nat /\ index[from] \in Nat
        BY Zenon, <2>1, <4>1, BlockFacts DEF TypeOK
      <4> QED
        BY Zenon, <4>1, <4>2, <4>3
    <3>5. Terminal(status'[Prev[b]]) => Terminal(status'[b])
      <4>1. CASE Terminal(status[Prev[b]])
        BY Zenon, <4>1, <2>1, <3>1, <3>3, <3>4 DEF VerdictClosure
      <4>2. CASE Prev[b] \in S \cup {from}
        <5>1. index[from] < index[b]
          <6>1. CASE Prev[b] = from
            BY Zenon, <6>1, <3>4
          <6>2. CASE Prev[b] \in S
            <7>1. index[from] < index[Prev[b]]
              BY Zenon, <6>2, <2>4, <3>4 DEF Inherits
            <7> QED
              BY <7>1, <3>4
          <6> QED
            BY Zenon, <4>2, <6>1, <6>2
        <5>2. Terminal(status[b]) \/ b \in S
          BY Zenon, <5>1, <4>2, <2>4, <3>4 DEF Inherits
        <5> QED
          BY Zenon, <5>2, <3>3, <3>4
      <4> QED
        BY Zenon, <4>1, <4>2, <3>3, <3>4
    <3>6. ASSUME status'[b] = "InvalidAncestor"
          PROVE  /\ Terminal(status'[Prev[b]])
                 /\ culprit'[b] = Culprit(Prev[b])'
                 /\ Refused(status'[culprit'[b]])
      <4>1. CASE b \in S
        <5>1. Prev[b] \in S \cup {from} /\ culprit'[b] = from
          BY Zenon, <4>1, <2>5, <2>6, <2>7
        <5>2. Culprit(Prev[b])' = from
          BY Zenon, <5>1, <2>6, <2>7 DEF Culprit, Refused
        <5>3. Refused(status'[from])
          BY Zenon, <2>6 DEF Refused
        <5> QED
          BY Zenon, <5>1, <5>2, <5>3, <3>3, <3>4
      <4>2. CASE b \notin S
        <5>1. b # from /\ status[b] = "InvalidAncestor" /\ culprit'[b] = culprit[b]
          BY Zenon, <4>2, <3>4, <3>6, <2>6
        <5>2. /\ Terminal(status[Prev[b]])
              /\ culprit[b] = Culprit(Prev[b])
              /\ Refused(status[culprit[b]])
              /\ culprit[b] \in Block
          BY Zenon, <5>1, <3>4, <2>1 DEF VerdictClosure, TypeOK
        <5>3. Culprit(Prev[b])' = Culprit(Prev[b])
          BY Zenon, <5>2, <3>1, <3>2, <3>4 DEF Culprit
        <5>4. status'[culprit[b]] = status[culprit[b]]
          BY Zenon, <5>2, <3>1 DEF Terminal
        <5> QED
          BY Zenon, <5>1, <5>2, <5>3, <5>4, <3>3, <3>4
      <4> QED
        BY Zenon, <4>1, <4>2
    <3>7. ~Terminal(status'[b]) => b \in AcceptOk
      BY Zenon, <3>3, <3>4, <2>1 DEF VerdictClosure
    <3> QED
      BY Zenon, <3>5, <3>6, <3>7
  <2>12. BestHeader'
    <3>1. PICK b \in Tree : MostWork(b, status') /\ best_header' = b
      BY Zenon, <2>4 DEF PropagateAndReselect
    <3>2. chainwork' = chainwork /\ index' = index
      BY Zenon DEF Invalidate
    <3> QED
      BY Zenon, <2>9, <3>1, <3>2 DEF BestHeader, MostWork
  <2> QED
    BY Zenon, <2>3, <2>8, <2>9, <2>10, <2>11, <2>12 DEF IInv

(* Clearing the dirty list after a commit preserves the invariant.         *)
<1>ClearDirtyIInv.
    ASSUME IInv, ClearDirty
    PROVE  IInv'
  <2> USE <1>ClearDirtyIInv
  <2>1. TypeOK /\ DirtyOnce
    BY Zenon DEF IInv
  <2>2. flagged' = {}
    BY Zenon, <2>1 DEF ClearDirty, DirtyOnce, TypeOK
  <2>3. Tree' = Tree
    BY Zenon DEF ClearDirty, Tree
  <2>4. TypeOK' /\ DirtyOnce'
    <3>1. dirty' = <<>> /\ dirty' \in Seq(Header)
      BY DEF ClearDirty
    <3>2. DirtyOnce'
      BY <2>2, <3>1 DEF DirtyOnce
    <3> QED
      BY Zenon, <2>1, <2>2, <3>1, <3>2 DEF ClearDirty, TypeOK
  <2>5. ParentsFirst' /\ VerdictClosure' /\ BestHeader' /\ ActiveChain'
    <3>1. UNCHANGED <<entries, index, height, chainwork, status, culprit, tip, best_header>>
      BY Zenon DEF ClearDirty
    <3>2. ParentsFirst' /\ VerdictClosure'
      BY Zenon, <2>3, <3>1 DEF IInv, ParentsFirst, VerdictClosure, Culprit
    <3>3. BestHeader' /\ ActiveChain'
      BY Zenon, <2>3, <3>1 DEF IInv, BestHeader, ActiveChain, MostWork
    <3> QED
      BY Zenon, <3>2, <3>3
  <2> QED
    BY Zenon, <2>4, <2>5 DEF IInv

(* Accepting a header, with any outcome that stores it, preserves the      *)
(* invariant.                                                              *)
<1>AcceptIInv.
    ASSUME IInv, NEW h \in Header, NEW now, Accept(h, now)
    PROVE  IInv'
  <2> USE <1>AcceptIInv
  <2>1. Prev[h] \in Block /\ Genesis \in Block
    BY Zenon, BlockFacts
  <2>2. Culprit(Prev[h]) \in Block
    BY Zenon, <2>1 DEF IInv, TypeOK, Culprit
  <2>3. CASE AcceptInvalidAncestor(h)
    BY Zenon, <2>2, <2>3, <1>InsertIInv DEF AcceptInvalidAncestor
  <2>4. CASE AcceptInvalid(h)
    BY Zenon, <2>1, <2>4, <1>InsertIInv DEF AcceptInvalid
  <2>5. CASE AcceptFirst(h, now)
    BY Zenon, <2>1, <2>5, <1>InsertIInv DEF AcceptFirst
  <2> QED
    BY Zenon, <2>3, <2>4, <2>5 DEF Accept
<1> SUFFICES ASSUME NEW now, IInv, Operation(now) PROVE IInv'
  BY Zenon
<1>1. CASE \E h \in Header : Accept(h, now)
  BY Zenon, <1>1, <1>AcceptIInv
<1>2. CASE \E b \in Header : BlockChecked(b) \/ Connected(b) \/ Disconnected(b)
  BY Zenon, <1>2, <1>BlockCheckedIInv, <1>ConnectedIInv, <1>DisconnectedIInv
<1>3. CASE \E b \in Header : Invalidate(b)
  BY Zenon, <1>3, <1>InvalidateIInv
<1>4. CASE ClearDirty
  BY Zenon, <1>4, <1>ClearDirtyIInv
<1> QED
  BY Zenon, <1>1, <1>2, <1>3, <1>4 DEF Operation

(* Every step of the tree preserves the invariant.                         *)
LEMMA NextIInv == IInv /\ [Next]_vars => IInv'
BY Zenon, OperationIInv, StutterIInv DEF Next, Operation

(* The inductive invariant holds in every reachable state of the tree.     *)
THEOREM InductiveInvariant == Spec => []IInv
<1> QED
  BY InitIInv, NextIInv, PTL DEF Spec

(* Every variable keeps its type and the arena its cap, whatever headers   *)
(* arrive.                                                                 *)
THEOREM TypeCorrect == Spec => []TypeOK
<1>1. IInv => TypeOK
  BY Zenon DEF IInv
<1> QED
  BY <1>1, InductiveInvariant, PTL

(* The arena and the hash index agree, and every child follows its parent  *)
(* in the arena.                                                           *)
THEOREM ParentsFirstHolds == Spec => []ParentsFirst
<1>1. IInv => ParentsFirst
  BY Zenon DEF IInv
<1> QED
  BY <1>1, InductiveInvariant, PTL

(* The connected blocks are exactly one chain from genesis to the tip.     *)
THEOREM ActiveChainHolds == Spec => []ActiveChain
<1>1. IInv => ActiveChain
  BY Zenon DEF IInv
<1> QED
  BY <1>1, InductiveInvariant, PTL

(* A refusal reaches every descendant, before and after it arrives, and    *)
(* each of them names the nearest block that earned it.                    *)
THEOREM VerdictClosureHolds == Spec => []VerdictClosure
<1>1. IInv => VerdictClosure
  BY Zenon DEF IInv
<1> QED
  BY <1>1, InductiveInvariant, PTL

(* The header the download scheduler aims at is always the first-seen      *)
(* header of most work that is not invalid.                                *)
THEOREM BestHeaderHolds == Spec => []BestHeader
<1>1. IInv => BestHeader
  BY Zenon DEF IInv
<1> QED
  BY <1>1, InductiveInvariant, PTL

(* The dirty list holds each flagged entry once.                           *)
THEOREM DirtyOnceHolds == Spec => []DirtyOnce
<1>1. IInv => DirtyOnce
  BY Zenon DEF IInv
<1> QED
  BY <1>1, InductiveInvariant, PTL

-----------------------------------------------------------------------------
(* No step takes back a verdict, forgets a header or moves the tip by more *)
(* than one block.                                                         *)
THEOREM VerdictsFinalHolds == Spec => VerdictsFinal
<1>1. ASSUME IInv, Next PROVE VerdictStep
  <2>1. TypeOK /\ ParentsFirst /\ ActiveChain
    BY Zenon, <1>1 DEF IInv
  <2>2. \A b \in Tree : b \in Block
    BY Zenon DEF Tree
  <2>3. ASSUME NEW h \in Header, NEW s, NEW c, Connects(h), Insert(h, s, c)
        PROVE  VerdictStep
    <3>1. h \in Block /\ h \notin Tree
      BY Zenon, <2>3, BlockFacts DEF Connects, Tree
    <3> QED
      BY Zenon, <2>1, <2>2, <2>3, <3>1 DEF Insert, VerdictStep, TypeOK
  <2>4. ASSUME NEW b \in Header, BlockChecked(b) \/ Connected(b) \/ Disconnected(b)
        PROVE  VerdictStep
    <3>1. b \in Block
      BY Zenon, BlockFacts
    <3>2. ~Terminal(status[b])
      BY Zenon, <2>4 DEF BlockChecked, Connected, OnTip, Disconnected, IsTip, Terminal, Refused
    <3>3. ASSUME NEW d \in Tree, Terminal(status[d]) PROVE status'[d] = status[d]
      <4>1. d # b /\ d \in Block
        BY Zenon, <2>2, <3>2, <3>3
      <4>2. CASE BlockChecked(b)
        BY Zenon, <2>1, <4>1, <4>2 DEF BlockChecked, TypeOK
      <4>3. CASE Connected(b)
        BY Zenon, <2>1, <4>1, <4>3 DEF Connected, OnTip, TypeOK
      <4>4. CASE Disconnected(b)
        BY Zenon, <2>1, <4>1, <4>4 DEF Disconnected, IsTip, TypeOK
      <4> QED
        BY Zenon, <2>4, <4>2, <4>3, <4>4
    <3>4. UNCHANGED <<index, height, chainwork, culprit>>
      BY Zenon, <2>4 DEF BlockChecked, Connected, OnTip, Disconnected, IsTip
    <3>5. \/ tip' = tip
          \/ tip' \in Header /\ Prev[tip'] = tip
          \/ tip \in Header /\ tip' = Prev[tip]
      <4>1. CASE BlockChecked(b)
        BY Zenon, <4>1 DEF BlockChecked
      <4>2. CASE Connected(b)
        BY Zenon, <4>2 DEF Connected, OnTip
      <4>3. CASE Disconnected(b)
        BY Zenon, <4>3 DEF Disconnected, IsTip
      <4> QED
        BY Zenon, <2>4, <4>1, <4>2, <4>3
    <3> QED
      BY Zenon, <3>3, <3>4, <3>5 DEF VerdictStep
  <2>5. ASSUME NEW b \in Header, Invalidate(b)
        PROVE  VerdictStep
    <3>1. PICK S \in SUBSET (Tree \ {Genesis}) :
            Inherits(b, S) /\ PropagateAndReselect(b, S)
      BY Zenon, <2>5 DEF Invalidate
    <3>2. \A d \in S : ~Terminal(status[d])
      BY Zenon, <1>1, <2>5, <3>1, InheritorsOffChain DEF Invalidate
    <3>3. ~Terminal(status[b])
      BY Zenon, <2>5 DEF Invalidate, Terminal, Refused
    <3>4. ASSUME NEW d \in Tree, Terminal(status[d])
          PROVE  status'[d] = status[d] /\ culprit'[d] = culprit[d]
      <4>1. d \in Block /\ d # b /\ d \notin S
        BY Zenon, <2>2, <3>2, <3>3, <3>4
      <4> QED
        BY Zenon, <3>1, <4>1 DEF PropagateAndReselect
    <3>5. UNCHANGED <<index, height, chainwork, tip>>
      BY Zenon, <2>5 DEF Invalidate
    <3> QED
      BY Zenon, <3>4, <3>5 DEF VerdictStep
  <2>6. CASE ClearDirty
    BY Zenon, <2>6 DEF ClearDirty, VerdictStep
  <2> QED
    BY Zenon, <1>1, <2>3, <2>4, <2>5, <2>6
    DEF Next, Accept, AcceptInvalidAncestor, AcceptInvalid, AcceptFirst
<1>2. IInv /\ [Next]_vars => [VerdictStep]_vars
  BY Zenon, <1>1
<1> QED
  BY <1>2, InductiveInvariant, PTL DEF Spec, VerdictsFinal

-----------------------------------------------------------------------------
(* The tree implements ChainStack.                                         *)

(* A set with one element is represented by it.                            *)
LEMMA TheOneSingleton == \A x : TheOne({x}) = x
BY Zenon DEF TheOne

(* The abstract step each concrete step takes: connected and disconnected  *)
(* push and pop, and every other step leaves the stack alone.              *)
LEMMA StackStep == IInv /\ [Next]_vars => [Stack!Next]_ActiveBlocks

(* The block connected at the height of a connected block is that block.   *)
<1>ConnectedAtOwnHeight.
    ASSUME IInv, NEW b \in Block, IsConnected(status[b])
    PROVE  ConnectedAt(height[b]) = {b} /\ TheOne(ConnectedAt(height[b])) = b
  <2> USE <1>ConnectedAtOwnHeight
  <2>1. ConnectedAt(height[b]) = {b}
    BY DEF IInv, ActiveChain, ConnectedAt
  <2> QED
    BY Zenon, <2>1, TheOneSingleton

(* What the abstract chain holds at each place.                            *)
<1>ActiveBlocksAt.
    /\ DOMAIN ActiveBlocks = 1 .. height[tip] + 1
    /\ \A i \in 1 .. height[tip] + 1 : \A n :
         n = i - 1 => ActiveBlocks[i] = TheOne(ConnectedAt(n))
  BY Zenon DEF ActiveBlocks

(* A function on 1 .. n+1 that extends one on 1 .. n by b is what Append   *)
(* returns.                                                                *)
<1>AppendIs.
    ASSUME NEW n \in Nat, NEW f, NEW g, NEW b,
           f = [i \in 1 .. n |-> f[i]], g = [i \in 1 .. n + 1 |-> g[i]],
           \A i \in 1 .. n : g[i] = f[i], g[n + 1] = b
    PROVE  g = Append(f, b)
  <2> USE <1>AppendIs
  <2>1. f \in Seq({f[i] : i \in 1 .. n} \cup {b}) /\ Len(f) = n
    OBVIOUS
  <2>2. Append(f, b) = [i \in 1 .. n + 1 |-> IF i = n + 1 THEN b ELSE f[i]]
    BY <2>1
  <2>3. \A i \in 1 .. n + 1 : g[i] = IF i = n + 1 THEN b ELSE f[i]
    <3>1. \A i \in 1 .. n + 1 : i # n + 1 => i \in 1 .. n
      OBVIOUS
    <3> QED
      BY <3>1, Zenon
  <2>4. g = [i \in 1 .. n + 1 |-> IF i = n + 1 THEN b ELSE f[i]]
    <3>1. [i \in 1 .. n + 1 |-> g[i]] = [i \in 1 .. n + 1 |-> IF i = n + 1 THEN b ELSE f[i]]
      BY <2>3, Zenon
    <3> QED
      BY <3>1, Zenon
  <2> QED
    BY Zenon, <2>2, <2>4

(* A step that changes no connected block is a stutter of ChainStack.      *)
<1>ActiveBlocksKept.
    ASSUME IInv, UNCHANGED tip,
           \A b \in Block : IsConnected(status'[b]) <=> IsConnected(status[b]),
           \A b \in Block : IsConnected(status[b]) => height'[b] = height[b]
    PROVE  ActiveBlocks' = ActiveBlocks
  <2> USE <1>ActiveBlocksKept
  <2>1. \A n : ConnectedAt(n)' = ConnectedAt(n)
    BY Zenon DEF ConnectedAt
  <2>2. height'[tip'] = height[tip]
    BY Zenon DEF IInv, ActiveChain, TypeOK
  <2> QED
    BY Zenon, <2>1, <2>2 DEF ActiveBlocks
<1> SUFFICES ASSUME IInv, [Next]_vars PROVE [Stack!Next]_ActiveBlocks
  BY Zenon
<1>1. TypeOK /\ ParentsFirst /\ ActiveChain
  BY Zenon DEF IInv
<1>2. IInv'
  BY Zenon, NextIInv
<1>3. \A b \in Block : height[b] \in Nat
  BY Zenon, <1>1 DEF TypeOK
<1>4. tip \in Block /\ IsConnected(status[tip])
  BY Zenon, <1>1 DEF TypeOK, ActiveChain
<1>5. /\ DOMAIN ActiveBlocks = 1 .. height[tip] + 1
      /\ ActiveBlocks[height[tip] + 1] = tip
      /\ Len(ActiveBlocks) = height[tip] + 1
  <2>1. height[tip] = height[tip] + 1 - 1 /\ height[tip] + 1 \in 1 .. height[tip] + 1
    BY <1>3, <1>4
  <2>2. TheOne(ConnectedAt(height[tip])) = tip
    BY Zenon, <1>4, <1>ConnectedAtOwnHeight
  <2>3. DOMAIN ActiveBlocks = 1 .. height[tip] + 1
    BY Zenon DEF ActiveBlocks
  <2>4. Len(ActiveBlocks) = height[tip] + 1
    BY <1>3, <1>4 DEF ActiveBlocks
  <2>5. ActiveBlocks[height[tip] + 1] = TheOne(ConnectedAt(height[tip]))
    <3>1. PICK k : k = height[tip] + 1
      BY Zenon
    <3>2. height[tip] = k - 1 /\ k \in 1 .. height[tip] + 1
      BY <1>3, <1>4, <3>1
    <3>3. ActiveBlocks[k] = TheOne(ConnectedAt(height[tip]))
      BY Zenon, <3>2, <1>ActiveBlocksAt
    <3> QED
      BY Zenon, <3>1, <3>3
  <2> QED
    BY Zenon, <2>1, <2>2, <2>3, <2>4, <2>5
<1>6a. /\ DOMAIN ActiveBlocks' = 1 .. height'[tip'] + 1
       /\ \A i \in 1 .. height'[tip'] + 1 : \A n :
            n = i - 1 => ActiveBlocks'[i] = TheOne(ConnectedAt(n)')
  BY Zenon DEF ActiveBlocks
<1>6. ASSUME NEW b \in Header, Connected(b) PROVE Stack!Connect(b)
  <2>1. b \in Block /\ b \in Tree \ {Genesis} /\ Prev[b] = tip /\ tip' = b /\ height' = height
    BY Zenon, <1>1, <1>6, BlockFacts DEF Connected, OnTip, ParentsFirst
  <2>2. height[b] = height[tip] + 1
    BY Zenon, <1>1, <2>1 DEF ParentsFirst
  <2>3. status'[b] = "Connected" /\ \A d \in Block \ {b} : status'[d] = status[d]
    BY Zenon, <1>1, <1>6, <2>1 DEF Connected, OnTip, TypeOK
  <2>4. \A n \in 0 .. height[tip] : ConnectedAt(n)' = ConnectedAt(n)
    <3>1. ~IsConnected(status[b])
      BY Zenon, <1>6 DEF Connected, OnTip, IsConnected
    <3> QED
      BY <1>3, <1>4, <2>1, <2>2, <2>3, <3>1 DEF ConnectedAt
  <2>5. \A m : m = height[b] => TheOne(ConnectedAt(m)') = b
    <3>1. \A d \in Block : IsConnected(status[d]) => height[d] <= height[tip]
      <4>1. height[Genesis] = 0 /\ height[tip] \in Nat
        BY Zenon, <1>1, <1>3, <1>4 DEF ParentsFirst
      <4>2. \A d \in Header : status[d] = "Connected" => height[d] <= height[tip]
        BY Zenon, <1>1 DEF ActiveChain
      <4>3. \A d \in Block : IsConnected(status[d]) => d = Genesis \/ status[d] = "Connected"
        BY Zenon, <1>1 DEF ActiveChain, IsConnected
      <4>4. 0 <= height[tip]
        BY <4>1
      <4> QED
        BY Zenon, <4>1, <4>2, <4>3, <4>4, BlockFacts
    <3>2. ASSUME NEW d \in Block \ {b}, IsConnected(status'[d]) PROVE height[d] # height[b]
      <4>1. height[d] <= height[tip]
        BY Zenon, <2>3, <3>1, <3>2
      <4>2. height[d] \in Nat /\ height[tip] \in Nat
        BY Zenon, <1>3, <1>4
      <4> QED
        BY <2>2, <4>1, <4>2
    <3>3. \A m : m = height[b] => ConnectedAt(m)' = {b}
      BY Zenon, <2>1, <2>3, <3>2 DEF ConnectedAt, IsConnected
    <3> QED
      BY Zenon, <3>3, TheOneSingleton
  <2>6. height[tip] + 1 = height'[tip'] /\ height[tip] \in Nat
    BY Zenon, <1>3, <1>4, <2>1, <2>2
  <2>7. ASSUME NEW i \in 1 .. height[tip] + 1 PROVE ActiveBlocks'[i] = ActiveBlocks[i]
    <3>1. i - 1 \in 0 .. height[tip] /\ i \in 1 .. height'[tip'] + 1
      BY <2>6
    <3>2. ConnectedAt(i - 1)' = ConnectedAt(i - 1)
      BY Zenon, <2>4, <3>1
    <3>3. ActiveBlocks'[i] = TheOne(ConnectedAt(i - 1)')
      BY <3>1, <1>6a, Zenon
    <3>4. ActiveBlocks[i] = TheOne(ConnectedAt(i - 1))
      BY <1>ActiveBlocksAt, Zenon
    <3> QED
      BY Zenon, <3>2, <3>3, <3>4
  <2>8. ActiveBlocks'[height[tip] + 2] = b
    <3>1. PICK k : k = height[tip] + 2
      BY Zenon
    <3>2. PICK m : m = height[b]
      BY Zenon
    <3>3. m = k - 1 /\ k \in 1 .. height'[tip'] + 1
      BY <2>2, <2>6, <3>1, <3>2
    <3>4. ActiveBlocks'[k] = TheOne(ConnectedAt(m)')
      BY Zenon, <3>3, <1>6a
    <3> QED
      BY Zenon, <2>5, <3>1, <3>2, <3>4
  <2>9. ActiveBlocks' = Append(ActiveBlocks, b)
    <3>1. PICK n \in Nat : n = height[tip] + 1
      BY <2>6
    <3>2. n + 1 = height[tip] + 2 /\ n + 1 = height'[tip'] + 1
      BY <2>6, <3>1
    <3>3. ActiveBlocks = [i \in 1 .. n |-> ActiveBlocks[i]]
      BY Zenon, <3>1 DEF ActiveBlocks
    <3>4. ActiveBlocks' = [i \in 1 .. n + 1 |-> ActiveBlocks'[i]]
      BY Zenon, <3>2 DEF ActiveBlocks
    <3> HIDE DEF ActiveBlocks
    <3>5. ActiveBlocks'[n + 1] = b /\ \A i \in 1 .. n : ActiveBlocks'[i] = ActiveBlocks[i]
      BY Zenon, <2>7, <2>8, <3>1, <3>2
    <3> QED
      BY <3>3, <3>4, <3>5, <1>AppendIs
  <2> QED
    BY Zenon, <1>5, <2>1, <2>9 DEF Stack!Connect
<1>7. ASSUME NEW b \in Header, Disconnected(b) PROVE Stack!Disconnect
  <2>1. b \in Block /\ b \in Tree \ {Genesis} /\ tip = b /\ tip' = Prev[b] /\ height' = height
    BY Zenon, <1>1, <1>7, BlockFacts DEF Disconnected, IsTip, ParentsFirst
  <2>2. height[b] = height[Prev[b]] + 1 /\ Prev[b] \in Block
    BY Zenon, <1>1, <2>1, BlockFacts DEF ParentsFirst
  <2>3. ~IsConnected(status'[b]) /\ \A d \in Block \ {b} : status'[d] = status[d]
    BY Zenon, <1>1, <1>7, <2>1 DEF Disconnected, IsTip, TypeOK, IsConnected
  <2>4. \A n : n # height[b] => ConnectedAt(n)' = ConnectedAt(n)
    BY Zenon, <2>1, <2>3 DEF ConnectedAt
  <2>5. height'[tip'] + 1 = height[tip] /\ height'[tip'] \in Nat /\ height[tip] \in Nat
    BY Zenon, <1>3, <1>4, <2>1, <2>2
  <2>6. ASSUME NEW i \in 1 .. height[tip] PROVE ActiveBlocks'[i] = ActiveBlocks[i]
    <3>1. /\ i - 1 # height[b]
          /\ i \in 1 .. height'[tip'] + 1
          /\ i \in 1 .. height[tip] + 1
      BY <2>1, <2>5
    <3>2. ConnectedAt(i - 1)' = ConnectedAt(i - 1)
      BY Zenon, <2>4, <3>1
    <3>3. ActiveBlocks'[i] = TheOne(ConnectedAt(i - 1)')
      BY <3>1, <1>6a, Zenon
    <3>4. ActiveBlocks[i] = TheOne(ConnectedAt(i - 1))
      BY <3>1, <1>ActiveBlocksAt, Zenon
    <3> QED
      BY Zenon, <3>2, <3>3, <3>4
  <2>7. ActiveBlocks' = [i \in 1 .. Len(ActiveBlocks) - 1 |-> ActiveBlocks[i]]
    <3>1. PICK n : n = height[tip]
      BY Zenon
    <3>2. n = height'[tip'] + 1 /\ n = Len(ActiveBlocks) - 1
      BY <1>5, <2>5, <3>1
    <3>3. ActiveBlocks' = [i \in 1 .. n |-> ActiveBlocks'[i]]
      BY Zenon, <3>2 DEF ActiveBlocks
    <3>4. [i \in 1 .. n |-> ActiveBlocks'[i]] = [i \in 1 .. n |-> ActiveBlocks[i]]
      BY <2>6, <3>1, Zenon
    <3> QED
      BY Zenon, <3>2, <3>3, <3>4
  <2>8. Len(ActiveBlocks) > 1
    BY <1>5, <2>5
  <2> QED
    BY Zenon, <2>7, <2>8 DEF Stack!Disconnect
<1>8. ASSUME NEW h \in Header, NEW s, NEW c, Connects(h), Insert(h, s, c), ~IsConnected(s)
      PROVE  UNCHANGED ActiveBlocks
  <2>1. h \in Block /\ h \notin Tree
    BY Zenon, <1>8, BlockFacts DEF Connects, Tree
  <2>2. ~IsConnected(status[h])
    BY Zenon, <1>1, <2>1 DEF ParentsFirst, IsConnected
  <2>3. \A b \in Block : IsConnected(status'[b]) <=> IsConnected(status[b])
    BY Zenon, <1>1, <1>8, <2>1, <2>2 DEF Insert, TypeOK
  <2>4. \A b \in Block : IsConnected(status[b]) => height'[b] = height[b]
    BY Zenon, <1>1, <1>8, <2>1, <2>2 DEF Insert, TypeOK
  <2> QED
    BY Zenon, <1>8, <2>3, <2>4, <1>ActiveBlocksKept DEF Insert
<1>9. ASSUME NEW b \in Header, BlockChecked(b) PROVE UNCHANGED ActiveBlocks
  <2>1. \A d \in Block : IsConnected(status'[d]) <=> IsConnected(status[d])
    BY Zenon, <1>1, <1>9, BlockFacts DEF BlockChecked, TypeOK, IsConnected
  <2> QED
    BY Zenon, <1>9, <2>1, <1>ActiveBlocksKept DEF BlockChecked
<1>10. ASSUME NEW b \in Header, Invalidate(b) PROVE UNCHANGED ActiveBlocks
  <2>1. PICK S \in SUBSET (Tree \ {Genesis}) :
          Inherits(b, S) /\ PropagateAndReselect(b, S)
    BY Zenon, <1>10 DEF Invalidate
  <2>2. \A d \in S : ~IsConnected(status[d])
    BY Zenon, <1>10, <2>1, InheritorsOffChain DEF Invalidate
  <2>3. ~IsConnected(status[b])
    BY Zenon, <1>10 DEF Invalidate, IsConnected
  <2>4. ASSUME NEW d \in Block PROVE IsConnected(status'[d]) <=> IsConnected(status[d])
    <3>1. CASE d = b \/ d \in S
      <4>1. status'[d] \in {"InvalidBlock", "InvalidAncestor"}
        BY Zenon, <2>1, <3>1 DEF PropagateAndReselect
      <4> QED
        BY Zenon, <2>2, <2>3, <3>1, <4>1 DEF IsConnected
    <3>2. CASE d # b /\ d \notin S
      BY Zenon, <2>1, <3>2 DEF PropagateAndReselect
    <3> QED
      BY Zenon, <3>1, <3>2
  <2> QED
    BY Zenon, <1>10, <2>4, <1>ActiveBlocksKept DEF Invalidate
<1>11. CASE ClearDirty
  BY Zenon, <1>11, <1>ActiveBlocksKept DEF ClearDirty
<1>12. CASE UNCHANGED vars
  BY Zenon, <1>12, <1>ActiveBlocksKept DEF vars
<1>13. \A s \in {"HeaderAccepted", "InvalidHeader", "InvalidAncestor"} : ~IsConnected(s)
  BY Zenon DEF IsConnected
<1>14. CASE Next
  <2>1. CASE \E h \in Header, now \in Clock : Accept(h, now)
    BY Zenon, <1>8, <1>13, <2>1 DEF Accept, AcceptInvalidAncestor, AcceptInvalid, AcceptFirst
  <2>2. CASE \E b \in Header : BlockChecked(b) \/ Connected(b) \/ Disconnected(b)
    BY Zenon, <1>6, <1>7, <1>9, <2>2 DEF Stack!Next
  <2>3. CASE \E b \in Header : Invalidate(b)
    BY Zenon, <1>10, <2>3
  <2> QED
    BY Zenon, <1>11, <1>14, <2>1, <2>2, <2>3 DEF Next
<1> QED
  BY Zenon, <1>12, <1>14

(* The header tree implements ChainStack: its connected blocks, read by    *)
(* height, are a stack that changes at the tip only.                       *)
THEOREM Refinement == Spec => ActiveChainIsStack
<1>1. Init => Stack!Init
  <2> SUFFICES ASSUME Init PROVE ActiveBlocks = <<Genesis>>
    BY Zenon DEF Stack!Init
  <2>1. tip = Genesis /\ height[tip] = 0
    BY Zenon, BlockFacts DEF Init
  <2>2. ConnectedAt(0) = {Genesis}
    BY Zenon, BlockFacts DEF Init, ConnectedAt, IsConnected
  <2>3. ASSUME NEW i \in 1 .. 1 PROVE TheOne(ConnectedAt(i - 1)) = Genesis
    <3>1. i - 1 = 0
      OBVIOUS
    <3> QED
      BY <2>2, <3>1, TheOneSingleton, Zenon
  <2>4. ActiveBlocks = [i \in 1 .. 1 |-> Genesis]
    <3>1. 1 .. height[tip] + 1 = 1 .. 1
      BY <2>1
    <3> QED
      BY <2>3, <3>1, Zenon DEF ActiveBlocks
  <2> QED
    BY <2>4
<1>2. IInv /\ [Next]_vars => [Stack!Next]_ActiveBlocks
  BY Zenon, StackStep
<1> QED
  BY <1>1, <1>2, InductiveInvariant, PTL DEF Spec, ActiveChainIsStack, Stack!Spec
=============================================================================
