----------------------------- MODULE ReorgProofs ----------------------------
(***************************************************************************)
(* Proofs, for every tree of headers, every room and every locator, of     *)
(* what the planner plans and of what a getheaders is answered.  Both only *)
(* read the tree, so its invariant IInv is the inductive one: the rest is  *)
(* about walks along parents.  A walk is a recursive function; that there  *)
(* is such a function, and what it returns, follows by taking the least    *)
(* step at which it would go wrong.                                        *)
(***************************************************************************)
EXTENDS Reorg, HeaderTreeProofs, FiniteSetTheorems

(* What Min returns.                                                       *)
LEMMA MinFacts ==
    ASSUME NEW S, S \subseteq Nat, S # {}
    PROVE  Min(S) \in S /\ \A n \in S : Min(S) <= n
<1>1. \E n \in S : \A m \in S : n <= m
  BY Zenon, LeastNatural
<1> QED
  BY Zenon, <1>1 DEF Min

(* The lesser of two numbers.                                              *)
LEMMA MinOfTwo ==
    ASSUME NEW x \in Nat, NEW y \in Nat
    PROVE  Min({x, y}) = IF x <= y THEN x ELSE y
<1>1. {x, y} \subseteq Nat /\ {x, y} # {}
  BY Zenon
<1>2. Min({x, y}) \in {x, y} /\ \A n \in {x, y} : Min({x, y}) <= n
  BY Zenon, <1>1, MinFacts
<1> QED
  BY <1>2

-----------------------------------------------------------------------------
(* Walks along parents.                                                    *)

(* f is the walk of n steps along parents from b.                          *)
WalkFrom(b, n, f) == f = [i \in 0 .. n |-> IF i = 0 THEN b ELSE Prev[f[i - 1]]]

(* A walk of any length along parents exists.                              *)
LEMMA WalkExists ==
    ASSUME NEW n \in Nat, NEW b
    PROVE  \E f : WalkFrom(b, n, f)
<1> DEFINE Walk(m, f) == f = [i \in 0 .. m |-> IF i = 0 THEN b ELSE Prev[f[i - 1]]]
           Bad == {m \in Nat : ~ \E f : Walk(m, f)}
<1>1. 0 \notin Bad
  <2>1. Walk(0, [i \in 0 .. 0 |-> b])
    OBVIOUS
  <2> QED
    BY Zenon, <2>1
<1>2. ASSUME NEW m \in Nat, NEW f, Walk(m, f) PROVE \E g : Walk(m + 1, g)
  <2> DEFINE g == [i \in 0 .. m + 1 |-> IF i <= m THEN f[i] ELSE Prev[f[m]]]
  <2>1. ASSUME NEW i \in 0 .. m + 1
        PROVE  g[i] = IF i = 0 THEN b ELSE Prev[g[i - 1]]
    <3>1. \A j \in 0 .. m : f[j] = IF j = 0 THEN b ELSE Prev[f[j - 1]]
      BY Zenon, <1>2
    <3>2. CASE i = 0
      BY <3>1, <3>2
    <3>3. CASE i # 0
      <4>1. i - 1 \in 0 .. m /\ i - 1 \in 0 .. m + 1 /\ g[i - 1] = f[i - 1]
        BY <3>3
      <4> QED
        BY <3>1, <3>3, <4>1
    <3> QED
      BY Zenon, <3>2, <3>3
  <2>2. Walk(m + 1, g)
    BY Zenon, <2>1
  <2> QED
    BY Zenon, <2>2
<1>3. Bad = {}
  <2> SUFFICES ASSUME Bad # {} PROVE FALSE
    BY Zenon
  <2>1. Bad \subseteq Nat
    BY Zenon
  <2>2. PICK m \in Bad : \A k \in Bad : m <= k
    <3> HIDE DEF Bad
    <3> QED
      BY Zenon, <2>1, LeastNatural
  <2>3. m \in Nat /\ m # 0
    BY Zenon, <1>1, <2>2
  <2>4. m - 1 \in Nat /\ m - 1 \notin Bad /\ (m - 1) + 1 = m
    <3> HIDE DEF Bad
    <3> QED
      BY <2>2, <2>3
  <2>5. PICK f : Walk(m - 1, f)
    BY Zenon, <2>4
  <2>6. \E g : Walk((m - 1) + 1, g)
    <3> HIDE DEF Walk
    <3> QED
      BY Zenon, <1>2, <2>4, <2>5
  <2> QED
    BY SMTT(20), <2>2, <2>4, <2>6
<1>4. PICK f : Walk(n, f)
  BY Zenon, <1>3
<1> QED
  BY Zenon, <1>4 DEF WalkFrom

(* What AncestorAt returns is a step of such a walk.                       *)
LEMMA AncestorWalk ==
    ASSUME TypeOK, NEW b \in Block
    PROVE  \E f : /\ f = [i \in 0 .. height[b] |-> IF i = 0 THEN b ELSE Prev[f[i - 1]]]
                  /\ \A n : AncestorAt(b, n) = f[height[b] - n]
<1>1. PICK H \in Nat : H = height[b]
  BY Zenon DEF TypeOK
<1> DEFINE Walk(f) == f = [i \in 0 .. H |-> IF i = 0 THEN b ELSE Prev[f[i - 1]]]
<1>2. \E f : Walk(f)
  <2>1. PICK f : WalkFrom(b, H, f)
    BY Zenon, WalkExists
  <2> QED
    BY Zenon, <2>1 DEF WalkFrom
<1>3. \A n : AncestorAt(b, n) = (CHOOSE f : Walk(f))[H - n]
  BY Zenon, <1>1 DEF AncestorAt
<1> HIDE DEF Walk
<1>4. PICK f : f = CHOOSE g : Walk(g)
  BY Zenon
<1>5. Walk(f)
  BY Zenon, <1>2, <1>4
<1>6. \A n : AncestorAt(b, n) = f[H - n]
  BY Zenon, <1>3, <1>4
<1> QED
  BY Zenon, <1>1, <1>5, <1>6 DEF Walk

(* The blocks AncestorAt names are in the tree, at the heights asked for,  *)
(* each the parent of the one above it.                                    *)
LEMMA AncestorFacts ==
    ASSUME IInv, NEW b \in Tree
    PROVE  /\ height[b] \in Nat
           /\ AncestorAt(b, height[b]) = b
           /\ AncestorAt(b, 0) = Genesis
           /\ \A n \in 0 .. height[b] :
                AncestorAt(b, n) \in Tree /\ height[AncestorAt(b, n)] = n
           /\ \A n \in 1 .. height[b] :
                AncestorAt(b, n) \in Header /\ Prev[AncestorAt(b, n)] = AncestorAt(b, n - 1)
<1>1. TypeOK /\ ParentsFirst /\ b \in Block /\ Tree \subseteq Block
  BY Zenon DEF IInv, Tree
<1>2. PICK H : H = height[b]
  BY Zenon
<1>3. H \in Nat /\ \A c \in Tree : height[c] \in Nat
  BY Zenon, <1>1, <1>2 DEF TypeOK
<1>4. PICK f : /\ f = [i \in 0 .. H |-> IF i = 0 THEN b ELSE Prev[f[i - 1]]]
               /\ \A n : AncestorAt(b, n) = f[H - n]
  BY ZenonT(30), <1>1, <1>2, AncestorWalk
<1>5. f[0] = b /\ \A i \in 1 .. H : f[i] = Prev[f[i - 1]]
  <2>1. \A i \in 0 .. H : f[i] = IF i = 0 THEN b ELSE Prev[f[i - 1]]
    BY Zenon, <1>4
  <2> QED
    BY <1>3, <2>1
<1>6. \A c \in Tree : height[c] = 0 <=> c = Genesis
  BY <1>1, <1>3, BlockFacts DEF ParentsFirst
<1>7. \A c \in Tree : c # Genesis => Prev[c] \in Tree /\ height[c] = height[Prev[c]] + 1
  BY Zenon, <1>1 DEF ParentsFirst
<1> DEFINE Right(i) == f[i] \in Tree /\ height[f[i]] = H - i
           Bad == {i \in 0 .. H : ~Right(i)}
<1>8. ASSUME NEW i \in 1 .. H, Right(i - 1) PROVE Right(i) /\ f[i - 1] # Genesis
  <2>1. height[f[i - 1]] # 0
    BY <1>3, <1>8
  <2>2. f[i - 1] # Genesis
    BY Zenon, <1>6, <1>8, <2>1
  <2>3. Prev[f[i - 1]] \in Tree /\ height[f[i - 1]] = height[Prev[f[i - 1]]] + 1
    BY Zenon, <1>7, <1>8, <2>2
  <2> QED
    BY SMTT(20), <1>3, <1>5, <1>8, <2>2, <2>3
<1>9. Bad = {}
  <2> SUFFICES ASSUME Bad # {} PROVE FALSE
    BY Zenon
  <2>1. Bad \subseteq Nat
    BY <1>3
  <2>2. PICK i \in Bad : \A k \in Bad : i <= k
    <3> HIDE DEF Bad
    <3> QED
      BY Zenon, <2>1, LeastNatural
  <2>3. i # 0
    BY <1>2, <1>3, <1>5, <2>2
  <2>4. i \in 1 .. H /\ i - 1 \in 0 .. H /\ i - 1 \notin Bad
    BY <1>3, <2>2, <2>3
  <2> QED
    BY Zenon, <1>8, <2>2, <2>4
<1>10. \A i \in 0 .. H : Right(i)
  BY Zenon, <1>9
<1>11. ASSUME NEW n \in 0 .. H
       PROVE  AncestorAt(b, n) \in Tree /\ height[AncestorAt(b, n)] = n
  <2>1. H - n \in 0 .. H /\ H - (H - n) = n
    BY <1>3
  <2> QED
    BY Zenon, <1>4, <1>10, <2>1
<1>12. ASSUME NEW n \in 1 .. H
       PROVE  AncestorAt(b, n) \in Header /\ Prev[AncestorAt(b, n)] = AncestorAt(b, n - 1)
  <2>1. PICK i : i = H - (n - 1)
    BY Zenon
  <2>2. i \in 1 .. H /\ i - 1 = H - n /\ i - 1 \in 0 .. H
    BY <1>3, <2>1
  <2>3. f[i] = Prev[f[i - 1]] /\ f[i - 1] # Genesis /\ f[i - 1] \in Tree
    BY Zenon, <1>5, <1>8, <1>10, <2>2
  <2>4. AncestorAt(b, n - 1) = f[i] /\ AncestorAt(b, n) = f[i - 1]
    BY Zenon, <1>4, <2>1, <2>2
  <2> QED
    BY Zenon, <1>1, <2>3, <2>4, BlockFacts
<1>13. AncestorAt(b, H) = b /\ AncestorAt(b, 0) = Genesis
  <2>1. H - H = 0 /\ H \in 0 .. H /\ 0 \in 0 .. H
    BY <1>3
  <2>2. AncestorAt(b, H) = b
    BY Zenon, <1>4, <1>5, <2>1
  <2> QED
    BY Zenon, <1>6, <1>11, <2>1, <2>2
<1> QED
  BY Zenon, <1>2, <1>3, <1>11, <1>12, <1>13

(* What holds of a block, and of the parent of every block it holds of,    *)
(* holds of the block's ancestors.                                         *)
LEMMA Downward ==
    ASSUME IInv, NEW b \in Tree, NEW S, b \in S,
           \A c \in Tree \cap S : c # Genesis => Prev[c] \in S
    PROVE  \A n \in 0 .. height[b] : AncestorAt(b, n) \in S
<1>1. PICK H : H = height[b]
  BY Zenon
<1>2. /\ H \in Nat
      /\ AncestorAt(b, H) = b
      /\ \A n \in 0 .. H : AncestorAt(b, n) \in Tree
      /\ \A n \in 1 .. H : AncestorAt(b, n) \in Header
                           /\ Prev[AncestorAt(b, n)] = AncestorAt(b, n - 1)
  BY Zenon, <1>1, AncestorFacts
<1> DEFINE Bad == {i \in 0 .. H : AncestorAt(b, H - i) \notin S}
<1>3. Bad = {}
  <2> SUFFICES ASSUME Bad # {} PROVE FALSE
    BY Zenon
  <2>1. Bad \subseteq Nat
    BY <1>2
  <2>2. PICK i \in Bad : \A k \in Bad : i <= k
    <3> HIDE DEF Bad
    <3> QED
      BY Zenon, <2>1, LeastNatural
  <2>3. i # 0
    BY <1>2, <2>2
  <2>4. i - 1 \in 0 .. H /\ i - 1 \notin Bad
    BY <1>2, <2>2, <2>3
  <2>5. PICK n : n = H - (i - 1)
    BY Zenon
  <2>6. n \in 1 .. H /\ n \in 0 .. H /\ n - 1 = H - i
    BY <1>2, <2>2, <2>3, <2>5
  <2>7. AncestorAt(b, n) \in S
    BY Zenon, <2>4, <2>5
  <2>8. Prev[AncestorAt(b, n)] \in S
    BY Zenon, <1>2, <2>6, <2>7, BlockFacts
  <2>9. AncestorAt(b, n - 1) \in S
    BY Zenon, <1>2, <2>6, <2>8
  <2> QED
    BY Zenon, <2>2, <2>6, <2>9
<1>4. ASSUME NEW n \in 0 .. H PROVE AncestorAt(b, n) \in S
  <2>1. H - n \in 0 .. H /\ H - (H - n) = n
    BY <1>2
  <2> QED
    BY Zenon, <1>3, <2>1
<1> QED
  BY Zenon, <1>1, <1>4

(* The active chain is closed under parents, and one block high at each    *)
(* height.                                                                 *)
LEMMA ActiveFacts ==
    ASSUME IInv
    PROVE  /\ tip \in Tree /\ IsActive(tip)
           /\ Genesis \in Tree /\ IsActive(Genesis)
           /\ \A b \in Tree : IsActive(b) => height[b] <= height[tip]
           /\ \A b \in Tree : IsActive(b) /\ b # Genesis => IsActive(Prev[b])
           /\ \A b, c \in Tree : IsActive(b) /\ IsActive(c) /\ height[b] = height[c] => b = c
<1>1. TypeOK /\ ParentsFirst /\ ActiveChain /\ Tree \subseteq Block
  BY Zenon DEF IInv, Tree
<1>2. \A b \in Block : IsActive(b) => b \in Tree
  BY Zenon, <1>1 DEF ParentsFirst, IsActive, IsConnected
<1>3. tip \in Tree /\ IsActive(tip)
  BY Zenon, <1>1, <1>2 DEF ActiveChain, IsActive, TypeOK
<1>4. Genesis \in Tree /\ IsActive(Genesis)
  BY Zenon, <1>1, <1>2, BlockFacts DEF ActiveChain, IsActive, IsConnected
<1>5. ASSUME NEW b \in Tree, IsActive(b)
      PROVE  height[b] <= height[tip] /\ (b # Genesis => IsActive(Prev[b]))
  <2>1. CASE b = Genesis
    BY <1>1, <1>3, <2>1 DEF ParentsFirst, TypeOK
  <2>2. CASE b # Genesis
    <3>1. b \in Header /\ status[b] = "Connected"
      BY Zenon, <1>1, <1>5, <2>2, BlockFacts DEF ActiveChain, IsActive, IsConnected
    <3> QED
      BY Zenon, <1>1, <3>1 DEF ActiveChain, IsActive
  <2> QED
    BY Zenon, <2>1, <2>2
<1>6. ASSUME NEW b \in Tree, NEW c \in Tree, IsActive(b), IsActive(c), height[b] = height[c]
      PROVE  b = c
  BY Zenon, <1>1, <1>6 DEF ActiveChain, IsActive
<1> QED
  BY Zenon, <1>3, <1>4, <1>5, <1>6

(* The ancestors of the tip are active.                                    *)
LEMMA TipChainActive ==
    ASSUME IInv
    PROVE  \A n \in 0 .. height[tip] : IsActive(AncestorAt(tip, n))
<1>1. PICK S : S = {b \in Tree : IsActive(b)}
  BY Zenon
<1>2. tip \in Tree /\ tip \in S
  BY Zenon, <1>1, ActiveFacts
<1>3. ASSUME NEW c \in Tree \cap S, c # Genesis PROVE Prev[c] \in S
  <2>1. Prev[c] \in Tree
    BY Zenon, <1>3 DEF IInv, ParentsFirst
  <2> QED
    BY Zenon, <1>1, <1>3, <2>1, ActiveFacts
<1>4. \A n \in 0 .. height[tip] : AncestorAt(tip, n) \in S
  BY Zenon, <1>2, <1>3, Downward
<1> QED
  BY Zenon, <1>1, <1>4

(* A block that has no verdict has no ancestor with one.                   *)
LEMMA NoVerdictBelow ==
    ASSUME IInv, NEW b \in Tree, ~Terminal(status[b])
    PROVE  \A n \in 0 .. height[b] : ~Terminal(status[AncestorAt(b, n)])
<1>1. PICK S : S = {c \in Tree : ~Terminal(status[c])}
  BY Zenon
<1>2. b \in S
  BY Zenon, <1>1
<1>3. ASSUME NEW c \in Tree \cap S, c # Genesis PROVE Prev[c] \in S
  <2>1. Prev[c] \in Tree
    BY Zenon, <1>3 DEF IInv, ParentsFirst
  <2>2. ~Terminal(status[Prev[c]])
    BY Zenon, <1>1, <1>3 DEF IInv, VerdictClosure
  <2> QED
    BY Zenon, <1>1, <2>1, <2>2
<1>4. \A n \in 0 .. height[b] : AncestorAt(b, n) \in S
  BY Zenon, <1>2, <1>3, Downward
<1> QED
  BY Zenon, <1>1, <1>4

(* A chain is shorter than the arena.                                      *)
LEMMA HeightBound ==
    ASSUME IInv, NEW b \in Tree
    PROVE  height[b] < Len(entries)
<1>1. TypeOK /\ ParentsFirst /\ Tree \subseteq Block
  BY Zenon DEF IInv, Tree
<1>2. \A c \in Tree : height[c] \in Nat /\ index[c] \in Nat /\ index[c] # 0
  BY Zenon, <1>1 DEF TypeOK, Tree
<1>3. PICK Bad : Bad = {c \in Tree : ~(height[c] < index[c])}
  BY Zenon
<1>4. Bad = {}
  <2> SUFFICES ASSUME Bad # {} PROVE FALSE
    BY Zenon
  <2>1. PICK I : I = {index[c] : c \in Bad}
    BY Zenon
  <2>2. I \subseteq Nat /\ I # {}
    BY Zenon, <1>2, <1>3, <2>1
  <2>3. PICK n \in I : \A k \in I : n <= k
    BY Zenon, <2>2, LeastNatural
  <2>4. PICK c \in Bad : index[c] = n
    BY Zenon, <2>1, <2>3
  <2>5. c \in Tree /\ ~(height[c] < index[c])
    BY Zenon, <1>3, <2>4
  <2>6. c # Genesis
    BY <1>1, <1>2, <2>5 DEF ParentsFirst
  <2>7. Prev[c] \in Tree /\ index[Prev[c]] < index[c] /\ height[c] = height[Prev[c]] + 1
    BY Zenon, <1>1, <2>5, <2>6 DEF ParentsFirst
  <2>8. Prev[c] \notin Bad
    <3>1. Prev[c] \in Bad => index[c] <= index[Prev[c]]
      BY Zenon, <2>1, <2>3, <2>4
    <3> QED
      BY SMTT(20), <1>2, <2>5, <2>7, <3>1
  <2>9. height[Prev[c]] < index[Prev[c]]
    BY Zenon, <1>3, <2>7, <2>8
  <2> QED
    BY <1>2, <2>5, <2>7, <2>9
<1>5. height[b] < index[b] /\ index[b] \in DOMAIN entries
  BY Zenon, <1>1, <1>3, <1>4 DEF ParentsFirst
<1>6. DOMAIN entries = 1 .. Len(entries) /\ Len(entries) \in Nat
  BY <1>1 DEF TypeOK
<1> QED
  BY <1>2, <1>5, <1>6

-----------------------------------------------------------------------------
(* The fork point.                                                         *)

(* The walk back to the active chain comes to an end.                      *)
LEMMA WalkBackExists ==
    ASSUME IInv
    PROVE  \E f : f = [b \in Tree |-> IF IsActive(b) THEN b ELSE f[Prev[b]]]
<1> DEFINE Step(f) == [b \in Tree |-> IF IsActive(b) THEN b ELSE f[Prev[b]]]
           Good(n, f) == \A b \in Tree : index[b] < n => f[b] = Step(f)[b]
           Bad == {n \in Nat : ~ \E f : Good(n, f)}
<1>1. /\ Len(entries) \in Nat
      /\ \A b \in Tree : index[b] \in 1 .. Len(entries)
  <2>1. DOMAIN entries = 1 .. Len(entries) /\ Len(entries) \in Nat
    BY DEF IInv, TypeOK
  <2>2. \A b \in Tree : index[b] \in DOMAIN entries
    BY Zenon DEF IInv, ParentsFirst
  <2> QED
    BY Zenon, <2>1, <2>2
<1>2. ASSUME NEW b \in Tree, ~IsActive(b)
      PROVE  Prev[b] \in Tree /\ index[Prev[b]] < index[b]
  BY Zenon, <1>2, ActiveFacts DEF IInv, ParentsFirst
<1>3. ASSUME NEW n \in Nat, NEW f, Good(n, f) PROVE Good(n + 1, Step(f))
  <2> SUFFICES ASSUME NEW b \in Tree, index[b] < n + 1
               PROVE  Step(f)[b] = Step(Step(f))[b]
    BY Zenon
  <2>1. CASE IsActive(b)
    BY Zenon, <2>1
  <2>2. CASE ~IsActive(b)
    <3>1. Prev[b] \in Tree /\ index[Prev[b]] < n
      BY <1>1, <1>2, <2>2
    <3>2. f[Prev[b]] = Step(f)[Prev[b]]
      BY Zenon, <1>3, <3>1
    <3> QED
      BY Zenon, <2>2, <3>2
  <2> QED
    BY Zenon, <2>1, <2>2
<1>4. 0 \notin Bad
  <2>1. Good(0, [b \in Tree |-> b])
    BY <1>1
  <2> QED
    BY Zenon, <2>1
<1>5. Bad = {}
  <2> SUFFICES ASSUME Bad # {} PROVE FALSE
    BY Zenon
  <2>1. Bad \subseteq Nat
    BY Zenon
  <2>2. PICK n \in Bad : \A k \in Bad : n <= k
    <3> HIDE DEF Bad
    <3> QED
      BY Zenon, <2>1, LeastNatural
  <2>3. n - 1 \in Nat /\ n - 1 \notin Bad /\ (n - 1) + 1 = n
    <3> HIDE DEF Bad
    <3> QED
      BY <1>4, <2>1, <2>2
  <2>4. PICK f : Good(n - 1, f)
    <3> HIDE DEF Good
    <3> QED
      BY Zenon, <2>3
  <2>5. Good((n - 1) + 1, Step(f))
    <3> HIDE DEF Good, Step
    <3> QED
      BY Zenon, <1>3, <2>3, <2>4
  <2>6. Good(n, Step(f))
    <3> HIDE DEF Good, Step
    <3> QED
      BY Zenon, <2>3, <2>5
  <2> HIDE DEF Good, Step
  <2> QED
    BY Zenon, <2>2, <2>6
<1>6. Len(entries) + 1 \in Nat
  BY <1>1
<1>7. PICK f : Good(Len(entries) + 1, f)
  <2> HIDE DEF Good
  <2> QED
    BY Zenon, <1>5, <1>6
<1>8. \A b \in Tree : f[b] = Step(f)[b]
  BY <1>1, <1>7
<1>9. PICK g : g = [b \in Tree |-> f[b]]
  BY Zenon
<1>10. \A b \in Tree : g[b] = IF IsActive(b) THEN b ELSE g[Prev[b]]
  BY Zenon, <1>2, <1>8, <1>9
<1>11. g = [b \in Tree |-> IF IsActive(b) THEN b ELSE g[Prev[b]]]
  BY Zenon, <1>9, <1>10
<1> QED
  BY Zenon, <1>11

(* The fork point is the highest ancestor of the target that is active.    *)
LEMMA ForkFacts ==
    ASSUME IInv, NEW t \in Tree
    PROVE  \E m \in 0 .. height[t] :
              /\ m <= height[tip]
              /\ ForkPoint(t) = AncestorAt(t, m)
              /\ IsActive(AncestorAt(t, m))
              /\ \A k \in m + 1 .. height[t] : ~IsActive(AncestorAt(t, k))
<1> DEFINE Step(f) == f = [b \in Tree |-> IF IsActive(b) THEN b ELSE f[Prev[b]]]
<1>1. \E f : Step(f)
  BY Zenon, WalkBackExists
<1>2. PICK L : L = Min({height[t], height[tip]})
  BY Zenon
<1>3. ForkPoint(t) = (CHOOSE f : Step(f))[AncestorAt(t, L)]
  BY Zenon, <1>2 DEF ForkPoint
<1>4. PICK f : f = CHOOSE g : Step(g)
  BY Zenon
<1>5. Step(f)
  <2> HIDE DEF Step
  <2> QED
    BY Zenon, <1>1, <1>4
<1>6. ForkPoint(t) = f[AncestorAt(t, L)]
  <2> HIDE DEF Step
  <2> QED
    BY Zenon, <1>3, <1>4
<1>7. PICK H : H = height[t]
  BY Zenon
<1>8. H \in Nat /\ height[tip] \in Nat
  BY Zenon, <1>7, AncestorFacts, ActiveFacts
<1>9. L = IF H <= height[tip] THEN H ELSE height[tip]
  BY Zenon, <1>2, <1>7, <1>8, MinOfTwo
<1>10. /\ AncestorAt(t, 0) = Genesis
       /\ \A n \in 0 .. H : AncestorAt(t, n) \in Tree /\ height[AncestorAt(t, n)] = n
       /\ \A n \in 1 .. H : Prev[AncestorAt(t, n)] = AncestorAt(t, n - 1)
  BY Zenon, <1>7, AncestorFacts
<1>11. \A b \in Tree : f[b] = IF IsActive(b) THEN b ELSE f[Prev[b]]
  BY Zenon, <1>5
<1> HIDE DEF Step
<1> DEFINE Fork(k, m) == /\ f[AncestorAt(t, k)] = AncestorAt(t, m)
                         /\ IsActive(AncestorAt(t, m))
                         /\ \A j \in m + 1 .. k : ~IsActive(AncestorAt(t, j))
           Bad == {k \in 0 .. H : ~ \E m \in 0 .. k : Fork(k, m)}
<1>12. ASSUME NEW k \in 0 .. H, IsActive(AncestorAt(t, k)) PROVE k \notin Bad
  <2>1. Fork(k, k)
    BY <1>8, <1>10, <1>11, <1>12
  <2> QED
    BY <1>8, <2>1
<1>13. Bad = {}
  <2> SUFFICES ASSUME Bad # {} PROVE FALSE
    BY Zenon
  <2>1. Bad \subseteq Nat
    BY <1>8
  <2>2. PICK k \in Bad : \A j \in Bad : k <= j
    <3> HIDE DEF Bad
    <3> QED
      BY Zenon, <2>1, LeastNatural
  <2>3. k \in 0 .. H /\ ~IsActive(AncestorAt(t, k))
    BY Zenon, <1>12, <2>2
  <2>4. k # 0
    BY Zenon, <1>10, <2>3, ActiveFacts
  <2>5. k \in 1 .. H /\ k - 1 \in 0 .. H
    BY <1>8, <2>3, <2>4
  <2>6. k - 1 \notin Bad
    <3> HIDE DEF Bad
    <3> QED
      BY <1>8, <2>2, <2>5
  <2>7. PICK m \in 0 .. k - 1 : Fork(k - 1, m)
    BY Zenon, <2>5, <2>6
  <2>8. f[AncestorAt(t, k)] = f[AncestorAt(t, k - 1)]
    BY Zenon, <1>10, <1>11, <2>3, <2>5
  <2>9. Fork(k, m) /\ m \in 0 .. k
    BY SMTT(20), <2>3, <2>5, <2>7, <2>8
  <2> QED
    BY Zenon, <2>2, <2>9
<1>14. L \in 0 .. H
  BY <1>8, <1>9
<1>15. PICK m \in 0 .. L : Fork(L, m)
  BY Zenon, <1>13, <1>14
<1>16. ASSUME NEW k \in m + 1 .. H PROVE ~IsActive(AncestorAt(t, k))
  <2>1. CASE k <= L
    BY <1>14, <1>15, <1>16, <2>1
  <2>2. CASE ~(k <= L)
    <3>1. AncestorAt(t, k) \in Tree /\ height[AncestorAt(t, k)] = k
      BY <1>8, <1>10, <1>14, <2>2
    <3>2. ~(k <= height[tip])
      BY <1>8, <1>9, <1>14, <2>2
    <3> QED
      BY Zenon, <3>1, <3>2, ActiveFacts
  <2> QED
    BY Zenon, <2>1, <2>2
<1>17. m \in 0 .. H /\ m <= height[tip]
  BY <1>8, <1>9, <1>14, <1>15
<1> QED
  BY Zenon, <1>6, <1>7, <1>15, <1>16, <1>17

-----------------------------------------------------------------------------
(* The plan.                                                               *)

(* Of the K blocks above the fork, the first N have their bytes here, and  *)
(* they are planned as far as there is room.                               *)
ConnectsUpTo(t, fork, K, N) ==
    LET node(i) == AncestorAt(t, height[fork] + i) IN
    /\ \A i \in 1 .. N : HasLocation(status[node(i)])
    /\ N < K => ~HasLocation(status[node(N + 1)])
    /\ \A room \in Nat : LET on == PlanConnects(t, fork, room) IN
         /\ on.jobs = [i \in 1 .. (IF room <= N THEN room ELSE N) |->
                         [kind |-> "Connect", block |-> node(i)]]
         /\ on.missing = IF N < K /\ room > N THEN node(N + 1) ELSE None

(* The blocks a plan connects are those of the path up from the fork, up   *)
(* to the first one not held.                                              *)
LEMMA ConnectsShape ==
    ASSUME NEW t, NEW fork, NEW K \in Nat, K = StepsBetween(t, fork)
    PROVE  \E N \in 0 .. K : ConnectsUpTo(t, fork, K, N)
<1> DEFINE node(i) == AncestorAt(t, height[fork] + i)
           lacks(i) == ~HasLocation(status[node(i)])
           All == {i \in 1 .. K : lacks(i)}
           lacking(room) == {i \in 1 .. Min({room, K}) : lacks(i)}
           count(room) == IF lacking(room) = {} THEN Min({room, K}) ELSE Min(lacking(room)) - 1
<1>1. ASSUME NEW room
      PROVE  /\ PlanConnects(t, fork, room).jobs =
                  [i \in 1 .. count(room) |-> [kind |-> "Connect", block |-> node(i)]]
             /\ PlanConnects(t, fork, room).missing =
                  IF lacking(room) = {} THEN None ELSE node(count(room) + 1)
  BY Zenon DEF PlanConnects
<1> HIDE DEF node
<1>2. PICK N \in 0 .. K : /\ \A i \in 1 .. N : ~lacks(i)
                          /\ N < K => lacks(N + 1)
  <2>1. CASE All = {}
    <3>1. K \in 0 .. K /\ \A i \in 1 .. K : ~lacks(i)
      BY <2>1
    <3> QED
      BY <3>1
  <2>2. CASE All # {}
    <3>1. All \subseteq Nat
      OBVIOUS
    <3>2. PICK n \in All : \A i \in All : n <= i
      <4> HIDE DEF All
      <4> QED
        BY Zenon, <2>2, <3>1, LeastNatural
    <3>3. n \in 1 .. K /\ lacks(n) /\ \A i \in 1 .. K : lacks(i) => n <= i
      BY Zenon, <3>2
    <3>4. n - 1 \in 0 .. K /\ (n - 1) + 1 = n
      BY <3>3
    <3> HIDE DEF lacks
    <3>5. \A i \in 1 .. n - 1 : ~lacks(i)
      BY <3>3
    <3> QED
      BY Zenon, <3>3, <3>4, <3>5
  <2> QED
    BY Zenon, <2>1, <2>2
<1> HIDE DEF lacks
<1>3. ASSUME NEW room \in Nat
      PROVE  /\ count(room) = IF room <= N THEN room ELSE N
             /\ lacking(room) = {} <=> ~(N < K /\ room > N)
  <2>1. PICK span : span = Min({room, K})
    BY Zenon
  <2>2. span = IF room <= K THEN room ELSE K
    BY Zenon, <2>1, MinOfTwo
  <2>3. PICK lack : lack = lacking(room)
    BY Zenon
  <2>4. lack = {i \in 1 .. span : lacks(i)}
    BY Zenon, <2>1, <2>3
  <2>5. count(room) = IF lack = {} THEN span ELSE Min(lack) - 1
    BY Zenon, <2>1, <2>3
  <2>6. CASE N < K /\ room > N
    <3>1. N + 1 \in lack
      BY <1>2, <2>2, <2>4, <2>6
    <3>2. \A i \in lack : N + 1 <= i
      BY <1>2, <2>2, <2>4
    <3>3. lack \subseteq Nat
      BY <2>2, <2>4
    <3>4. PICK least : least = Min(lack)
      BY Zenon
    <3>5. least \in lack /\ \A i \in lack : least <= i
      BY Zenon, <3>1, <3>3, <3>4, MinFacts
    <3>6. least \in Nat /\ least <= N + 1 /\ N + 1 <= least
      BY Zenon, <3>1, <3>2, <3>3, <3>5
    <3>7. Min(lack) = N + 1
      BY <1>2, <3>4, <3>6
    <3> QED
      BY SMTT(20), <1>2, <2>3, <2>5, <2>6, <3>1, <3>7
  <2>7. CASE ~(N < K /\ room > N)
    <3>1. \A i \in 1 .. span : i <= N
      BY <1>2, <2>2, <2>7
    <3>2. \A i \in 1 .. span : ~lacks(i)
      BY <1>2, <2>2, <3>1
    <3>3. lack = {}
      BY Zenon, <2>4, <3>2
    <3>4. span = IF room <= N THEN room ELSE N
      BY <1>2, <2>2, <2>7
    <3> QED
      BY Zenon, <2>3, <2>5, <2>7, <3>3, <3>4
  <2> QED
    BY Zenon, <2>6, <2>7
<1> HIDE DEF count, lacking
<1>4. ASSUME NEW room \in Nat
      PROVE  /\ PlanConnects(t, fork, room).jobs =
                  [i \in 1 .. (IF room <= N THEN room ELSE N) |->
                     [kind |-> "Connect", block |-> node(i)]]
             /\ PlanConnects(t, fork, room).missing =
                  IF N < K /\ room > N THEN node(N + 1) ELSE None
  <2>1. CASE N < K /\ room > N
    <3>1. count(room) = N /\ lacking(room) # {}
      BY <1>2, <1>3, <2>1
    <3> QED
      BY Zenon, <1>1, <1>3, <2>1, <3>1
  <2>2. CASE ~(N < K /\ room > N)
    BY Zenon, <1>1, <1>3, <2>2
  <2> QED
    BY Zenon, <2>1, <2>2
<1>5. ConnectsUpTo(t, fork, K, N)
  BY Zenon, <1>2, <1>4 DEF node, lacks, ConnectsUpTo
<1> QED
  BY Zenon, <1>2, <1>5

(* What concatenation does to the elements of two sequences.               *)
LEMMA ConcatFacts ==
    ASSUME NEW S, NEW p \in Seq(S), NEW q \in Seq(S)
    PROVE  /\ p \o q \in Seq(S)
           /\ Len(p \o q) = Len(p) + Len(q)
           /\ DOMAIN (p \o q) = 1 .. Len(p) + Len(q)
           /\ \A i \in 1 .. Len(p) : (p \o q)[i] = p[i]
           /\ \A i \in Len(p) + 1 .. Len(p) + Len(q) : (p \o q)[i] = q[i - Len(p)]
OBVIOUS

(* The i-th job of a plan whose fork is at height m.                       *)
PlannedJob(m, i) ==
    LET d == height[tip] - m IN
    IF i <= d THEN [kind |-> "Disconnect", block |-> AncestorAt(tip, height[tip] + 1 - i)]
    ELSE [kind |-> "Connect", block |-> AncestorAt(best_header, m + (i - d))]

(* A plan's fork is at height m, and N blocks above it can be connected.   *)
ForkAt(m, N) ==
    /\ m \in 0 .. height[tip] /\ m <= height[best_header]
    /\ N \in 0 .. height[best_header] - m
    /\ AncestorAt(best_header, m) = AncestorAt(tip, m)
    /\ \A i \in 1 .. N : status[AncestorAt(best_header, m + i)] = "BlockChecked"
    /\ m + N < height[best_header] =>
         status[AncestorAt(best_header, m + (N + 1))] = "HeaderAccepted"

(* Cut to limit.                                                           *)
AtMost(limit, n) == IF limit <= n THEN limit ELSE n

Job == [kind : {"Disconnect", "Connect"}, block : Block]

(* What a plan then is.                                                    *)
PlanOf(m, N, limit) ==
    LET plan == Plan(limit)
        all == height[tip] - m + N IN
    /\ plan.depth = height[tip] - m
    /\ plan.jobs \in Seq(Job)
    /\ Len(plan.jobs) = AtMost(limit, all)
    /\ DOMAIN plan.jobs = 1 .. AtMost(limit, all)
    /\ \A i \in 1 .. AtMost(limit, all) : plan.jobs[i] = PlannedJob(m, i)
    /\ plan.missing = IF m + N < height[best_header] /\ limit > all
                      THEN AncestorAt(best_header, m + (N + 1)) ELSE None

(* The fork of the tip and the best header, and every plan from it.        *)
LEMMA PlanShape ==
    ASSUME IInv
    PROVE  \E m \in Nat, N \in Nat :
              ForkAt(m, N) /\ \A limit \in Nat : PlanOf(m, N, limit)
<1>1. best_header \in Tree /\ ~Terminal(status[best_header]) /\ tip \in Tree
  BY Zenon, ActiveFacts DEF IInv, BestHeader, MostWork
<1>2. PICK T, H : T = height[tip] /\ H = height[best_header]
  BY Zenon
<1>3. /\ T \in Nat /\ H \in Nat
      /\ \A n \in 0 .. H : /\ AncestorAt(best_header, n) \in Tree
                           /\ height[AncestorAt(best_header, n)] = n
      /\ \A n \in 0 .. T : /\ AncestorAt(tip, n) \in Tree
                           /\ height[AncestorAt(tip, n)] = n
  BY Zenon, <1>1, <1>2, AncestorFacts
<1>4. PICK m \in 0 .. H :
          /\ m <= T
          /\ ForkPoint(best_header) = AncestorAt(best_header, m)
          /\ IsActive(AncestorAt(best_header, m))
          /\ \A k \in m + 1 .. H : ~IsActive(AncestorAt(best_header, k))
  BY Zenon, <1>1, <1>2, ForkFacts
<1>5. PICK fork : fork = ForkPoint(best_header)
  BY Zenon
<1>6. height[fork] = m
  BY Zenon, <1>3, <1>4, <1>5
<1>7. StepsBetween(best_header, fork) = H - m /\ StepsBetween(tip, fork) = T - m
  BY Zenon, <1>2, <1>6 DEF StepsBetween
<1>8. PICK K : K = H - m
  BY Zenon
<1>9. K \in Nat /\ K = StepsBetween(best_header, fork)
  BY <1>3, <1>4, <1>7, <1>8
<1>10a. PICK N \in 0 .. K : ConnectsUpTo(best_header, fork, K, N)
  BY Zenon, <1>9, ConnectsShape
<1>10. /\ N \in 0 .. K
       /\ /\ \A i \in 1 .. N : HasLocation(status[AncestorAt(best_header, height[fork] + i)])
          /\ N < K => ~HasLocation(status[AncestorAt(best_header, height[fork] + (N + 1))])
          /\ \A room \in Nat : LET on == PlanConnects(best_header, fork, room) IN
               /\ on.jobs = [i \in 1 .. (IF room <= N THEN room ELSE N) |->
                               [kind |-> "Connect",
                                block |-> AncestorAt(best_header, height[fork] + i)]]
               /\ on.missing = IF N < K /\ room > N
                               THEN AncestorAt(best_header, height[fork] + (N + 1))
                               ELSE None
  BY Zenon, <1>10a DEF ConnectsUpTo
<1>11. \A k \in m + 1 .. H : /\ ~IsActive(AncestorAt(best_header, k))
                             /\ ~Terminal(status[AncestorAt(best_header, k)])
                             /\ status[AncestorAt(best_header, k)] \in Status \ {"Absent"}
  <2> SUFFICES ASSUME NEW k \in m + 1 .. H
               PROVE  /\ ~IsActive(AncestorAt(best_header, k))
                      /\ ~Terminal(status[AncestorAt(best_header, k)])
                      /\ status[AncestorAt(best_header, k)] \in Status \ {"Absent"}
    BY Zenon
  <2>1. k \in 0 .. H
    BY <1>4
  <2>2. ~Terminal(status[AncestorAt(best_header, k)])
    BY Zenon, <1>1, <1>2, <2>1, NoVerdictBelow
  <2>3. AncestorAt(best_header, k) \in Tree /\ AncestorAt(best_header, k) \in Block
    BY Zenon, <1>3, <2>1 DEF Tree
  <2> QED
    BY Zenon, <1>4, <2>2, <2>3 DEF IInv, ParentsFirst, TypeOK
<1>12. ForkAt(m, N)
  <2>1. AncestorAt(best_header, m) = AncestorAt(tip, m)
    <3>1. m \in 0 .. T /\ m \in 0 .. H
      BY <1>3, <1>4
    <3>2. IsActive(AncestorAt(tip, m))
      BY Zenon, <1>2, <3>1, TipChainActive
    <3> QED
      BY Zenon, <1>3, <1>4, <3>1, <3>2, ActiveFacts
  <2>2. ASSUME NEW i \in 1 .. N PROVE status[AncestorAt(best_header, m + i)] = "BlockChecked"
    <3>1. m + i \in m + 1 .. H
      BY <1>3, <1>4, <1>8, <1>10
    <3> QED
      BY Zenon, <1>6, <1>10, <1>11, <3>1 DEF HasLocation, IsActive, IsConnected
  <2>3. ASSUME m + N < H PROVE status[AncestorAt(best_header, m + (N + 1))] = "HeaderAccepted"
    <3>1. m + (N + 1) \in m + 1 .. H /\ N < K
      BY SMTT(20), <1>3, <1>4, <1>8, <1>10, <2>3
    <3> QED
      BY Zenon, <1>6, <1>10, <1>11, <3>1
         DEF HasLocation, IsActive, IsConnected, Terminal, Refused, Status
  <2> QED
    BY SMTT(20), <1>2, <1>3, <1>4, <1>8, <1>10, <2>1, <2>2, <2>3 DEF ForkAt
<1>13. ASSUME NEW limit \in Nat PROVE PlanOf(m, N, limit)
  <2>1. PICK off : off = PlanDisconnects(fork, limit)
    BY Zenon
  <2>2. PICK d : d = T - m
    BY Zenon
  <2>3. d \in Nat /\ N \in Nat
    BY SMTT(20), <1>3, <1>4, <1>10, <2>2, <1>9
  <2>4. off = [i \in 1 .. AtMost(limit, d) |->
                 [kind |-> "Disconnect", block |-> AncestorAt(tip, T + 1 - i)]]
    <3>1. Min({limit, StepsBetween(tip, fork)}) = AtMost(limit, d)
      BY Zenon, <1>7, <2>2, <2>3, MinOfTwo DEF AtMost
    <3> QED
      BY Zenon, <1>2, <2>1, <3>1 DEF PlanDisconnects
  <2>5. AtMost(limit, d) \in Nat
    BY Zenon, <2>3 DEF AtMost
  <2>6. PICK V : V = Job
    BY Zenon
  <2>7. off \in Seq(V) /\ Len(off) = AtMost(limit, d)
    <3>1. ASSUME NEW i \in 1 .. AtMost(limit, d)
          PROVE  [kind |-> "Disconnect", block |-> AncestorAt(tip, T + 1 - i)] \in V
      <4>1. T + 1 - i \in 0 .. T
        BY <1>3, <1>4, <2>2, <2>3 DEF AtMost
      <4>2. AncestorAt(tip, T + 1 - i) \in Block
        BY Zenon, <1>3, <4>1 DEF Tree
      <4> QED
        BY Zenon, <2>6, <4>2 DEF Job
    <3> QED
      BY <2>4, <2>5, <3>1
  <2>8. PICK room : room = limit - Len(off)
    BY Zenon
  <2>9. room \in Nat /\ room = RoomLeft(limit, off)
    BY <2>3, <2>7, <2>8 DEF AtMost, RoomLeft
  <2>10. PICK on : on = PlanConnects(best_header, fork, room)
    BY Zenon
  <2>11. /\ on.jobs = [i \in 1 .. AtMost(room, N) |->
                         [kind |-> "Connect", block |-> AncestorAt(best_header, m + i)]]
         /\ on.missing = IF N < K /\ room > N
                         THEN AncestorAt(best_header, m + (N + 1)) ELSE None
    BY Zenon, <1>6, <1>10, <2>9, <2>10 DEF AtMost
  <2>12. AtMost(room, N) \in Nat
    BY Zenon, <2>3, <2>9 DEF AtMost
  <2>13. on.jobs \in Seq(V) /\ Len(on.jobs) = AtMost(room, N)
    <3>0. PICK q, n : q = on.jobs /\ n = AtMost(room, N)
      BY Zenon
    <3>1. ASSUME NEW i \in 1 .. n
          PROVE  [kind |-> "Connect", block |-> AncestorAt(best_header, m + i)] \in V
      <4>1. m + i \in 0 .. H
        BY SMTT(20), <1>3, <1>4, <1>8, <1>10, <2>3, <2>9, <3>0 DEF AtMost
      <4>2. AncestorAt(best_header, m + i) \in Block
        BY Zenon, <1>3, <4>1 DEF Tree
      <4> QED
        BY Zenon, <2>6, <4>2 DEF Job
    <3>2. q = [i \in 1 .. n |-> [kind |-> "Connect", block |-> AncestorAt(best_header, m + i)]]
      BY Zenon, <2>11, <3>0
    <3>3. q \in Seq(V) /\ Len(q) = n
      BY SMTT(20), <2>12, <3>0, <3>1, <3>2
    <3> QED
      BY Zenon, <3>0, <3>3
  <2>14. /\ Plan(limit).depth = T - m
         /\ Plan(limit).jobs = off \o on.jobs
         /\ Plan(limit).missing = on.missing
    BY Zenon, <1>5, <1>7, <2>1, <2>9, <2>10 DEF Plan
  <2>15. PICK p, q : p = off /\ q = on.jobs
    BY Zenon
  <2>16. p \in Seq(V) /\ q \in Seq(V) /\ Len(p) = AtMost(limit, d) /\ Len(q) = AtMost(room, N)
    BY Zenon, <2>7, <2>13, <2>15
  <2>17. /\ p \o q \in Seq(V)
         /\ Len(p \o q) = Len(p) + Len(q)
         /\ DOMAIN (p \o q) = 1 .. Len(p) + Len(q)
         /\ \A i \in 1 .. Len(p) : (p \o q)[i] = p[i]
         /\ \A i \in Len(p) + 1 .. Len(p) + Len(q) : (p \o q)[i] = q[i - Len(p)]
    BY Zenon, <2>16, ConcatFacts
  <2>18. PICK all : all = T - m + N
    BY Zenon
  <2>19. Len(p) + Len(q) = AtMost(limit, all)
    BY SMTT(20), <1>3, <1>4, <2>2, <2>3, <2>7, <2>8, <2>16, <2>18 DEF AtMost
  <2>20. ASSUME NEW i \in 1 .. AtMost(limit, all) PROVE (p \o q)[i] = PlannedJob(m, i)
    <3>1. CASE i <= Len(p)
      <4>1. i \in 1 .. Len(p) /\ i <= d
        BY SMTT(20), <2>3, <2>16, <2>19, <3>1 DEF AtMost
      <4>2. (p \o q)[i] = [kind |-> "Disconnect", block |-> AncestorAt(tip, T + 1 - i)]
        BY Zenon, <2>4, <2>15, <2>16, <2>17, <4>1
      <4> QED
        BY Zenon, <1>2, <2>2, <4>1, <4>2 DEF PlannedJob
    <3>2. CASE ~(i <= Len(p))
      <4>1. /\ i \in Len(p) + 1 .. Len(p) + Len(q) /\ ~(i <= d)
            /\ Len(p) = d /\ i - d \in 1 .. AtMost(room, N)
        BY SMTT(20), <2>3, <2>5, <2>7, <2>8, <2>9, <2>12, <2>16, <2>19, <3>2 DEF AtMost
      <4>2. (p \o q)[i] = q[i - d]
        BY Zenon, <2>17, <4>1
      <4>3. q[i - d] = [kind |-> "Connect", block |-> AncestorAt(best_header, m + (i - d))]
        BY Zenon, <2>11, <2>15, <4>1
      <4> QED
        BY Zenon, <1>2, <2>2, <4>1, <4>2, <4>3 DEF PlannedJob
    <3> QED
      BY Zenon, <3>1, <3>2
  <2>21. on.missing = IF m + N < H /\ limit > all
                      THEN AncestorAt(best_header, m + (N + 1)) ELSE None
    <3>1. (N < K /\ room > N) <=> (m + N < H /\ limit > all)
      BY SMTT(20), <1>3, <1>4, <1>8, <2>2, <2>3, <2>7, <2>8, <2>18 DEF AtMost
    <3> QED
      BY Zenon, <2>11, <3>1
  <2> QED
    BY ZenonT(30), <1>2, <2>6, <2>14, <2>15, <2>17, <2>18, <2>19, <2>20, <2>21 DEF PlanOf
<1>14. m \in Nat /\ N \in Nat
  BY SMTT(20), <1>4, <1>9, <1>10
<1> QED
  BY Zenon, <1>12, <1>13, <1>14

(* What begins a sequence.                                                 *)
LEMMA PrefixIs ==
    ASSUME NEW S, NEW p \in Seq(S), NEW w \in Seq(S), NEW n \in 0 .. Len(w),
           Len(p) = n, \A i \in 1 .. n : p[i] = w[i]
    PROVE  p = SubSeq(w, 1, n)
OBVIOUS

(* In every state the tree can be in, plans are batches of one reorg.      *)
LEMMA PlansAreBatches == IInv => PlanIsBatch
<1> SUFFICES ASSUME IInv PROVE PlanIsBatch
  BY Zenon
<1>1. PICK m \in Nat, N \in Nat : ForkAt(m, N) /\ \A limit \in Nat : PlanOf(m, N, limit)
  BY Zenon, PlanShape
<1>2. PICK T, H, d, all : /\ T = height[tip] /\ H = height[best_header]
                          /\ d = T - m /\ all = d + N
  BY Zenon
<1>3. best_header \in Tree /\ tip \in Tree /\ best_header \in Block
  BY Zenon, ActiveFacts DEF IInv, BestHeader, Tree
<1>4. /\ T \in Nat /\ H \in Nat
      /\ AncestorAt(best_header, H) = best_header /\ AncestorAt(tip, T) = tip
      /\ \A n \in 0 .. H : /\ AncestorAt(best_header, n) \in Tree
                           /\ height[AncestorAt(best_header, n)] = n
      /\ \A n \in 1 .. H : Prev[AncestorAt(best_header, n)] = AncestorAt(best_header, n - 1)
      /\ \A n \in 1 .. T : /\ AncestorAt(tip, n) \in Header
                           /\ Prev[AncestorAt(tip, n)] = AncestorAt(tip, n - 1)
  BY Zenon, <1>2, <1>3, AncestorFacts
<1>5. /\ m \in 0 .. T /\ m <= H /\ N \in 0 .. H - m
      /\ AncestorAt(best_header, m) = AncestorAt(tip, m)
      /\ \A i \in 1 .. N : status[AncestorAt(best_header, m + i)] = "BlockChecked"
      /\ m + N < H => status[AncestorAt(best_header, m + (N + 1))] = "HeaderAccepted"
  BY Zenon, <1>1, <1>2 DEF ForkAt
<1>6. d \in Nat /\ all \in Nat /\ d <= T /\ all <= T + H
  BY SMTT(20), <1>2, <1>4, <1>5
<1>7. Everything \in Nat /\ all < Everything
  <2>1. T < Len(entries) /\ H < Len(entries)
    BY Zenon, <1>2, <1>3, HeightBound
  <2>2. Len(entries) \in Nat
    BY DEF IInv, TypeOK
  <2> QED
    BY <1>4, <1>6, <2>1, <2>2 DEF Everything
<1>8. \A n \in 1 .. T : status[AncestorAt(tip, n)] = "Connected"
  <2> SUFFICES ASSUME NEW n \in 1 .. T PROVE status[AncestorAt(tip, n)] = "Connected"
    BY Zenon
  <2>1. IsActive(AncestorAt(tip, n)) /\ AncestorAt(tip, n) \in Header
    BY <1>2, <1>4, TipChainActive
  <2> QED
    BY Zenon, <2>1, BlockFacts DEF IInv, ActiveChain, IsActive, IsConnected
<1>9. ASSUME NEW limit \in Nat
      PROVE  /\ Plan(limit).depth = d
             /\ Plan(limit).jobs \in Seq(Job)
             /\ Len(Plan(limit).jobs) = AtMost(limit, all)
             /\ DOMAIN Plan(limit).jobs = 1 .. AtMost(limit, all)
             /\ \A i \in 1 .. AtMost(limit, all) :
                  Plan(limit).jobs[i] =
                    IF i <= d THEN [kind |-> "Disconnect", block |-> AncestorAt(tip, T + 1 - i)]
                    ELSE [kind |-> "Connect", block |-> AncestorAt(best_header, m + (i - d))]
             /\ Plan(limit).missing = IF m + N < H /\ limit > all
                                      THEN AncestorAt(best_header, m + (N + 1)) ELSE None
  <2>1. PlanOf(m, N, limit) /\ all = height[tip] - m + N
    BY Zenon, <1>1, <1>2
  <2> QED
    BY Zenon, <1>2, <2>1 DEF PlanOf, PlannedJob
<1>10. PICK w : w = Plan(Everything).jobs
  BY Zenon
<1>11. /\ w \in Seq(Job) /\ Len(w) = all /\ DOMAIN w = 1 .. all
       /\ \A i \in 1 .. all :
            w[i] = IF i <= d THEN [kind |-> "Disconnect", block |-> AncestorAt(tip, T + 1 - i)]
                   ELSE [kind |-> "Connect", block |-> AncestorAt(best_header, m + (i - d))]
  <2>1. AtMost(Everything, all) = all
    BY <1>6, <1>7 DEF AtMost
  <2> QED
    BY Zenon, <1>7, <1>9, <1>10, <2>1
<1>12. PICK lost : lost = Plan(Everything).missing
  BY Zenon
<1>13. lost = IF m + N < H THEN AncestorAt(best_header, m + (N + 1)) ELSE None
  BY Zenon, <1>6, <1>7, <1>9, <1>12
<1>14. ASSUME NEW i \in 0 .. all
       PROVE  TipAfter(w, i) = IF i <= d THEN AncestorAt(tip, T - i)
                               ELSE AncestorAt(best_header, m + (i - d))
  <2>1. CASE i = 0
    BY SMTT(20), <1>4, <1>6, <2>1 DEF TipAfter
  <2>2. CASE i # 0 /\ i <= d
    <3>1. i \in 1 .. all /\ T + 1 - i \in 1 .. T /\ (T + 1 - i) - 1 = T - i
      BY <1>4, <1>6, <2>2
    <3>2. w[i].kind = "Disconnect" /\ w[i].block = AncestorAt(tip, T + 1 - i)
      BY <1>11, <2>2, <3>1
    <3>3. Prev[AncestorAt(tip, T + 1 - i)] = AncestorAt(tip, T - i)
      BY Zenon, <1>4, <3>1
    <3> QED
      BY Zenon, <2>2, <3>2, <3>3 DEF TipAfter
  <2>3. CASE ~(i <= d)
    <3>1. i \in 1 .. all /\ i # 0
      BY <1>6, <2>3
    <3>2. w[i].kind = "Connect" /\ w[i].block = AncestorAt(best_header, m + (i - d))
      BY <1>11, <2>3, <3>1
    <3> QED
      BY Zenon, <2>3, <3>1, <3>2 DEF TipAfter
  <2> QED
    BY ZenonT(30), <2>1, <2>2, <2>3
<1>15. Legal(w)
  <2> SUFFICES ASSUME NEW i \in 1 .. all
               PROVE  \/ /\ w[i].kind = "Disconnect"
                         /\ w[i].block = TipAfter(w, i - 1)
                         /\ status[w[i].block] = "Connected"
                      \/ /\ w[i].kind = "Connect"
                         /\ Prev[w[i].block] = TipAfter(w, i - 1)
                         /\ status[w[i].block] = "BlockChecked"
    BY Zenon, <1>11 DEF Legal
  <2>1. i - 1 \in 0 .. all
    BY <1>6
  <2>2. CASE i <= d
    <3>1. w[i].kind = "Disconnect" /\ w[i].block = AncestorAt(tip, T + 1 - i)
      BY <1>11, <2>2
    <3>2. i - 1 <= d /\ T + 1 - i \in 1 .. T /\ T - (i - 1) = T + 1 - i
      BY <1>4, <1>6, <2>2
    <3> QED
      BY Zenon, <1>8, <1>14, <2>1, <3>1, <3>2
  <2>3. CASE ~(i <= d)
    <3>1. PICK k : k = i - d
      BY Zenon
    <3>2. k \in 1 .. N /\ m + k \in 1 .. H
      BY SMTT(20), <1>2, <1>4, <1>5, <1>6, <2>3, <3>1
    <3>3. w[i].kind = "Connect" /\ w[i].block = AncestorAt(best_header, m + k)
      BY <1>11, <2>3, <3>1
    <3>4. status[w[i].block] = "BlockChecked"
      BY Zenon, <1>5, <3>2, <3>3
    <3>5. Prev[w[i].block] = AncestorAt(best_header, (m + k) - 1)
      BY Zenon, <1>4, <3>2, <3>3
    <3>6. CASE i - 1 <= d
      <4>1. i - 1 = d /\ T - (i - 1) = m /\ (m + k) - 1 = m
        BY SMTT(20), <1>2, <1>4, <1>5, <1>6, <2>3, <3>1, <3>6
      <4> QED
        BY Zenon, <1>5, <1>14, <2>1, <3>3, <3>4, <3>5, <3>6, <4>1
    <3>7. CASE ~(i - 1 <= d)
      <4>1. m + ((i - 1) - d) = (m + k) - 1
        BY <1>5, <1>6, <3>1
      <4> QED
        BY Zenon, <1>14, <2>1, <3>3, <3>4, <3>5, <3>7, <4>1
    <3> QED
      BY Zenon, <3>6, <3>7
  <2> QED
    BY Zenon, <2>2, <2>3
<1>16. ASSUME NEW limit \in Room
       PROVE  /\ Plan(limit).jobs = SubSeq(w, 1, Min({limit, Len(w)}))
              /\ Plan(limit).depth = Cardinality({i \in DOMAIN w : w[i].kind = "Disconnect"})
              /\ Plan(limit).missing \in {None, lost}
  <2>1. limit \in Nat
    BY Zenon, ReorgAssumption
  <2>2. PICK n : n = AtMost(limit, all)
    BY Zenon
  <2>3. n \in 0 .. all /\ Min({limit, Len(w)}) = n
    BY <1>6, <1>11, <2>1, <2>2, MinOfTwo DEF AtMost
  <2>4. PICK p : p = Plan(limit).jobs
    BY Zenon
  <2>5. /\ p \in Seq(Job) /\ Len(p) = n
        /\ \A i \in 1 .. n :
             p[i] = IF i <= d THEN [kind |-> "Disconnect", block |-> AncestorAt(tip, T + 1 - i)]
                    ELSE [kind |-> "Connect", block |-> AncestorAt(best_header, m + (i - d))]
    BY Zenon, <1>9, <2>1, <2>2, <2>4
  <2>6. \A i \in 1 .. n : p[i] = w[i]
    BY <1>11, <2>3, <2>5
  <2>7. p = SubSeq(w, 1, n)
    BY Zenon, <1>11, <2>3, <2>5, <2>6, PrefixIs
  <2>8. {i \in DOMAIN w : w[i].kind = "Disconnect"} = 1 .. d
    <3>1. \A i \in 1 .. all : w[i].kind = "Disconnect" <=> i <= d
      BY <1>11
    <3>2. d <= all
      BY <1>2, <1>6
    <3> QED
      BY SMTT(20), <1>6, <1>11, <3>1, <3>2
  <2>9. Cardinality(1 .. d) = d
    BY <1>6, FS_Interval
  <2>10. Plan(limit).missing \in {None, lost}
    BY Zenon, <1>9, <1>13, <2>1
  <2> QED
    BY Zenon, <1>9, <2>1, <2>3, <2>4, <2>7, <2>8, <2>9, <2>10
<1>17. PICK end : end = TipAfter(w, Len(w))
  BY Zenon
<1>18. end = AncestorAt(best_header, m + N)
  <2>1. all \in 0 .. all
    BY <1>6
  <2>2. CASE all <= d
    <3>1. N = 0 /\ T - all = m /\ m + N = m
      BY SMTT(20), <1>2, <1>4, <1>5, <1>6, <2>2
    <3> QED
      BY ZenonT(30), <1>5, <1>11, <1>14, <1>17, <2>1, <2>2, <3>1
  <2>3. CASE ~(all <= d)
    <3>1. m + (all - d) = m + N
      BY <1>2, <1>5, <1>6
    <3> QED
      BY Zenon, <1>11, <1>14, <1>17, <2>1, <2>3, <3>1
  <2> QED
    BY Zenon, <2>2, <2>3
<1>19. IF lost = None THEN end = best_header
       ELSE /\ Prev[lost] = end
            /\ status[lost] = "HeaderAccepted"
            /\ AncestorAt(best_header, height[lost]) = lost
  <2>1. CASE m + N < H
    <3>1. PICK k : k = m + (N + 1)
      BY Zenon
    <3>2. k \in 1 .. H /\ k \in 0 .. H /\ k - 1 = m + N
      BY <1>4, <1>5, <2>1, <3>1
    <3>3. lost = AncestorAt(best_header, k) /\ lost \in Tree /\ height[lost] = k
      BY Zenon, <1>4, <1>13, <2>1, <3>1, <3>2
    <3>4. lost # None
      BY Zenon, <3>3, ReorgAssumption DEF Tree
    <3>5. Prev[lost] = AncestorAt(best_header, k - 1)
      BY Zenon, <1>4, <3>2, <3>3
    <3> QED
      BY Zenon, <1>5, <1>18, <2>1, <3>1, <3>2, <3>3, <3>4, <3>5
  <2>2. CASE ~(m + N < H)
    <3>1. m + N = H
      BY <1>4, <1>5, <2>2
    <3> QED
      BY Zenon, <1>4, <1>13, <1>18, <2>2, <3>1
  <2> QED
    BY Zenon, <2>1, <2>2
<1> QED
  BY ZenonT(30), <1>10, <1>12, <1>15, <1>16, <1>17, <1>19 DEF PlanIsBatch

-----------------------------------------------------------------------------
(* The answer to a getheaders.                                             *)

(* Past an entry of a locator that the tree holds, the tree holds every    *)
(* entry, each lower than the one before it.                               *)
LEMMA LocatorDescends ==
    ASSUME IInv, NEW locator \in Locators, NEW i \in DOMAIN locator, locator[i] \in Tree
    PROVE  \A j \in DOMAIN locator :
              i < j => locator[j] \in Tree /\ height[locator[j]] < height[locator[i]]
<1>1. /\ TypeOK /\ ParentsFirst /\ Tree \subseteq Block
      /\ \A b \in Tree : height[b] \in Nat
  BY Zenon DEF IInv, Tree, TypeOK
<1>2. PICK n : n = Len(locator)
  BY Zenon
<1>3. n \in Nat /\ DOMAIN locator = 1 .. n
  BY <1>2, ReorgAssumption
<1>4. \A k \in 1 .. n - 1 : ProperAncestor(locator[k + 1], locator[k])
  BY Zenon, <1>2, ReorgAssumption
<1> DEFINE Below(j) == locator[j] \in Tree /\ height[locator[j]] < height[locator[i]]
           Bad == {j \in 1 .. n : i < j /\ ~Below(j)}
<1>5. ASSUME NEW k \in 1 .. n - 1, locator[k] \in Tree
      PROVE  locator[k + 1] \in Tree /\ height[locator[k + 1]] < height[locator[k]]
  <2>1. PICK b : b = locator[k]
    BY Zenon
  <2>2. PICK S : S = {c \in Tree : height[c] < height[b]}
    BY Zenon
  <2>3. b \in Header /\ b \in Tree
    BY Zenon, <1>4, <1>5, <2>1 DEF ProperAncestor
  <2>4. S \in SUBSET Block
    BY Zenon, <1>1, <2>2
  <2>5. Prev[b] \in S
    BY SMTT(20), <1>1, <2>2, <2>3, BlockFacts DEF ParentsFirst
  <2>6. ASSUME NEW h \in S \cap Header PROVE Prev[h] \in S
    <3>1. h \in Tree /\ h # Genesis /\ height[h] < height[b]
      BY Zenon, <2>2, BlockFacts
    <3>2. Prev[h] \in Tree /\ height[h] = height[Prev[h]] + 1
      BY Zenon, <1>1, <3>1 DEF ParentsFirst
    <3> QED
      BY <1>1, <2>2, <2>3, <3>1, <3>2
  <2>7. locator[k + 1] \in S
    BY Zenon, <1>4, <2>1, <2>4, <2>5, <2>6 DEF ProperAncestor
  <2> QED
    BY Zenon, <2>1, <2>2, <2>7
<1>6. Bad = {}
  <2> SUFFICES ASSUME Bad # {} PROVE FALSE
    BY Zenon
  <2>1. Bad \subseteq Nat
    BY <1>3
  <2>2. PICK j \in Bad : \A k \in Bad : j <= k
    <3> HIDE DEF Bad
    <3> QED
      BY Zenon, <2>1, LeastNatural
  <2>3. j \in 1 .. n /\ i < j /\ ~Below(j) /\ i \in 1 .. n
    BY Zenon, <1>3, <2>2
  <2>4. PICK k : k = j - 1
    BY Zenon
  <2>5. k \in 1 .. n - 1 /\ k + 1 = j /\ (k = i \/ i < k) /\ k \in 1 .. n
    BY <1>3, <2>3, <2>4
  <2>6. k = i \/ Below(k)
    <3>1. k \notin Bad
      BY SMTT(20), <2>2, <2>3, <2>5
    <3> QED
      BY Zenon, <2>5, <3>1
  <2>7. locator[k] \in Tree /\ height[locator[k]] <= height[locator[i]]
    BY <1>1, <2>6
  <2>8. locator[j] \in Tree /\ height[locator[j]] < height[locator[k]]
    BY Zenon, <1>5, <2>5, <2>7
  <2> QED
    BY <1>1, <2>3, <2>7, <2>8
<1> QED
  BY Zenon, <1>3, <1>6

(* The fork of a locator is its first entry on the active chain.           *)
LEMMA LocatorFork ==
    ASSUME IInv, NEW locator \in Locators
    PROVE  \E x \in DOMAIN locator :
              /\ ForkInActiveChain(locator) = locator[x]
              /\ locator[x] \in Tree /\ IsActive(locator[x])
              /\ \A i \in DOMAIN locator : locator[i] = tip => x <= i
<1>1. PICK found : found = {i \in DOMAIN locator : Serves(locator[i])}
  BY Zenon
<1>2. /\ Len(locator) \in Nat \ {0} /\ DOMAIN locator = 1 .. Len(locator)
      /\ locator[Len(locator)] = Genesis
  BY ReorgAssumption
<1>3. Len(locator) \in found
  BY <1>1, <1>2, ActiveFacts DEF Serves
<1>4. found \subseteq Nat /\ found # {}
  BY <1>1, <1>2, <1>3
<1>5. PICK x : x = Min(found)
  BY Zenon
<1>6. x \in found /\ \A i \in found : x <= i
  BY Zenon, <1>4, <1>5, MinFacts
<1>7. ForkInActiveChain(locator) = locator[x]
  BY Zenon, <1>1, <1>4, <1>5 DEF ForkInActiveChain
<1>8. \A i \in DOMAIN locator : locator[i] = tip => i \in found
  BY Zenon, <1>1, ActiveFacts DEF Serves
<1>9. x \in DOMAIN locator /\ locator[x] \in Tree /\ IsActive(locator[x])
  BY Zenon, <1>1, <1>6 DEF Serves
<1> QED
  BY Zenon, <1>6, <1>7, <1>8, <1>9

(* In every state the tree can be in, a getheaders is answered with what   *)
(* comes next.                                                             *)
LEMMA AnswersAdvance == IInv => AnswerAdvances
<1> SUFFICES ASSUME IInv, NEW locator \in Locators, NEW stop \in Block
             PROVE  LET got == HeadersAfter(locator, stop, MaxHeaders) IN
                    /\ Len(got) <= MaxHeaders
                    /\ got = <<>> <=> \E i \in DOMAIN locator : locator[i] = tip
                    /\ got # <<>> => \E i \in DOMAIN locator : locator[i] = Prev[got[1]]
                    /\ \A i \in 1 .. Len(got) - 1 : Prev[got[i + 1]] = got[i] /\ got[i] # stop
                    /\ \A i \in DOMAIN got : IsActive(got[i])
  BY Zenon DEF AnswerAdvances
<1>1. PICK x \in DOMAIN locator :
          /\ ForkInActiveChain(locator) = locator[x]
          /\ locator[x] \in Tree /\ IsActive(locator[x])
          /\ \A i \in DOMAIN locator : locator[i] = tip => x <= i
  BY Zenon, LocatorFork
<1>2. PICK fork, F, T : fork = locator[x] /\ F = height[fork] /\ T = height[tip]
  BY Zenon
<1>3. tip \in Tree /\ IsActive(tip)
  BY Zenon, ActiveFacts
<1>4. /\ T \in Nat /\ AncestorAt(tip, T) = tip
      /\ \A n \in 0 .. T : AncestorAt(tip, n) \in Tree /\ height[AncestorAt(tip, n)] = n
      /\ \A n \in 1 .. T : Prev[AncestorAt(tip, n)] = AncestorAt(tip, n - 1)
  BY Zenon, <1>2, <1>3, AncestorFacts
<1>5. \A n \in 0 .. T : IsActive(AncestorAt(tip, n))
  BY Zenon, <1>2, TipChainActive
<1>6. F \in Nat /\ F <= T
  BY Zenon, <1>1, <1>2, ActiveFacts DEF IInv, TypeOK, Tree
<1>7. AncestorAt(tip, F) = fork
  <2>1. F \in 0 .. T
    BY <1>4, <1>6
  <2> QED
    BY Zenon, <1>1, <1>2, <1>4, <1>5, <2>1, ActiveFacts
<1>8. F = T <=> fork = tip
  BY Zenon, <1>2, <1>4, <1>7
<1>9. fork = tip <=> \E i \in DOMAIN locator : locator[i] = tip
  <2>1. ASSUME NEW i \in DOMAIN locator, locator[i] = tip PROVE fork = tip
    <3>1. x <= i /\ x \in Nat /\ i \in Nat
      BY <1>1, <2>1, ReorgAssumption
    <3>2. CASE x < i
      <4>1. T < F
        BY Zenon, <1>1, <1>2, <2>1, <3>2, LocatorDescends
      <4> QED
        BY <1>4, <1>6, <4>1
    <3> QED
      BY SMTT(20), <1>2, <2>1, <3>1, <3>2
  <2> QED
    BY Zenon, <1>1, <1>2, <2>1
<1>10. PICK M, first, reach, last :
          /\ M = MaxHeaders /\ first = F + 1
          /\ reach = Min({T, first + M - 1})
          /\ last = IF Serves(stop) /\ height[stop] \in first .. reach - 1
                    THEN height[stop] ELSE reach
  BY Zenon
<1>11. M \in Nat \ {0} /\ first \in Nat
  BY SMTT(20), <1>6, <1>10, ReorgAssumption
<1>12. reach \in Nat /\ reach <= T /\ reach <= F + M /\ F <= reach /\ (reach = F <=> F = T)
  <2>1. reach = IF T <= first + M - 1 THEN T ELSE first + M - 1
    BY SMTT(20), <1>4, <1>6, <1>10, <1>11, MinOfTwo
  <2> QED
    BY SMTT(20), <1>4, <1>6, <1>10, <1>11, <2>1
<1>13. last \in F .. reach /\ (last = F <=> F = T)
  BY <1>6, <1>10, <1>11, <1>12
<1>14. PICK n : n = last + 1 - first
  BY Zenon
<1>15. n \in Nat /\ n <= M /\ F + n = last /\ F + n <= T /\ (n = 0 <=> F = T)
  BY SMTT(20), <1>4, <1>6, <1>10, <1>11, <1>12, <1>13, <1>14
<1>16. PICK got : got = HeadersAfter(locator, stop, MaxHeaders)
  BY Zenon
<1>17. got = [i \in 1 .. n |-> AncestorAt(tip, first + i - 1)]
  <2>1. height[ForkInActiveChain(locator)] = F
    BY Zenon, <1>1, <1>2
  <2> QED
    BY Zenon, <1>2, <1>10, <1>14, <1>16, <2>1 DEF HeadersAfter
<1>18. \A i \in 1 .. n : got[i] = AncestorAt(tip, F + i) /\ F + i \in 1 .. T
  <2> SUFFICES ASSUME NEW i \in 1 .. n
               PROVE  got[i] = AncestorAt(tip, F + i) /\ F + i \in 1 .. T
    BY Zenon
  <2>1. first + i - 1 = F + i /\ F + i \in 1 .. T
    BY <1>4, <1>6, <1>10, <1>15
  <2> QED
    BY Zenon, <1>17, <2>1
<1>19. DOMAIN got = 1 .. n /\ got \in Seq(Tree) /\ Len(got) = n /\ (got = <<>> <=> n = 0)
  <2>1. \A i \in 1 .. n : AncestorAt(tip, first + i - 1) \in Tree
    BY <1>4, <1>17, <1>18
  <2>2. got \in Seq(Tree) /\ Len(got) = n /\ DOMAIN got = 1 .. n
    BY <1>15, <1>17, <2>1
  <2> QED
    BY <1>15, <2>2
<1>20. got # <<>> => \E i \in DOMAIN locator : locator[i] = Prev[got[1]]
  <2> SUFFICES ASSUME n # 0 PROVE Prev[got[1]] = locator[x]
    BY Zenon, <1>1, <1>19
  <2>1. 1 \in 1 .. n /\ F + 1 \in 1 .. T /\ (F + 1) - 1 = F
    BY <1>4, <1>6, <1>15
  <2>2. got[1] = AncestorAt(tip, F + 1)
    BY Zenon, <1>18, <2>1
  <2> QED
    BY Zenon, <1>2, <1>4, <1>7, <2>1, <2>2
<1>21. ASSUME NEW i \in 1 .. n - 1 PROVE Prev[got[i + 1]] = got[i] /\ got[i] # stop
  <2>1. i \in 1 .. n /\ i + 1 \in 1 .. n /\ (F + (i + 1)) - 1 = F + i
    BY <1>6, <1>15
  <2>2. /\ got[i] = AncestorAt(tip, F + i) /\ F + i \in 1 .. T
        /\ got[i + 1] = AncestorAt(tip, F + (i + 1)) /\ F + (i + 1) \in 1 .. T
    BY Zenon, <1>18, <2>1
  <2>3. Prev[got[i + 1]] = got[i]
    BY Zenon, <1>4, <2>1, <2>2
  <2>4. ASSUME got[i] = stop PROVE FALSE
    <3>1. F + i \in 0 .. T
      BY <2>2, <1>4
    <3>2. stop \in Tree /\ IsActive(stop) /\ height[stop] = F + i
      BY Zenon, <1>4, <1>5, <2>2, <2>4, <3>1
    <3>3. Serves(stop)
      BY Zenon, <3>2 DEF Serves
    <3>4. F + i \in first .. reach - 1
      BY SMTT(20), <1>6, <1>10, <1>12, <1>13, <1>15, <2>1
    <3>5. last = F + i
      BY Zenon, <1>10, <3>2, <3>3, <3>4
    <3> QED
      BY SMTT(20), <1>6, <1>15, <2>1, <3>5
  <2> QED
    BY Zenon, <2>3, <2>4
<1>22. \A i \in DOMAIN got : IsActive(got[i])
  <2> SUFFICES ASSUME NEW i \in 1 .. n PROVE IsActive(got[i])
    BY Zenon, <1>19
  <2>1. got[i] = AncestorAt(tip, F + i) /\ F + i \in 0 .. T
    BY <1>4, <1>18
  <2> QED
    BY Zenon, <1>5, <2>1
<1>23. got = <<>> <=> \E i \in DOMAIN locator : locator[i] = tip
  BY Zenon, <1>8, <1>9, <1>15, <1>19
<1>24. Len(got) <= MaxHeaders /\ \A i \in 1 .. Len(got) - 1 : Prev[got[i + 1]] = got[i] /\ got[i] # stop
  BY Zenon, <1>10, <1>15, <1>19, <1>21
<1> QED
  BY Zenon, <1>16, <1>20, <1>22, <1>23, <1>24

-----------------------------------------------------------------------------
(* Every step of the planner and its validation thread is one of the tree. *)

(* Every step of a reorganization is a step of the tree.                   *)
LEMMA ReorgStep == IInv /\ [ReorgNext]_vars => [Next]_vars
<1> SUFFICES ASSUME IInv, ReorgNext PROVE Next
  BY Zenon
<1>1. CASE Arrivals
  BY Zenon, <1>1 DEF Arrivals, Next
<1>2. ASSUME NEW limit \in Room, ApplyJob(limit) PROVE Next
  <2>1. PICK jobs : jobs = Plan(limit).jobs
    BY Zenon
  <2>2. /\ jobs # <<>>
        /\ \/ Head(jobs).kind = "Disconnect" /\ Disconnected(Head(jobs).block)
           \/ Head(jobs).kind = "Connect" /\ Connected(Head(jobs).block)
    BY Zenon, <1>2, <2>1 DEF ApplyJob
  <2>3. PICK m \in Nat, N \in Nat : PlanOf(m, N, limit)
    BY Zenon, PlanShape, ReorgAssumption
  <2>4. jobs \in Seq(Job)
    BY Zenon, <2>1, <2>3 DEF PlanOf
  <2>5. PICK b : b = Head(jobs).block
    BY Zenon
  <2>6. b \in Block
    <3>1. PICK job : job = Head(jobs)
      BY Zenon
    <3>2. job \in Job
      BY <2>2, <2>4, <3>1
    <3> QED
      BY Zenon, <2>5, <3>1, <3>2 DEF Job
  <2>7. Disconnected(b) \/ Connected(b)
    BY Zenon, <2>2, <2>5
  <2>8. b # Genesis
    <3>1. status[b] # "Genesis"
      BY Zenon, <2>7 DEF Disconnected, Connected
    <3> QED
      BY Zenon, <2>6, <3>1 DEF IInv, ActiveChain
  <2>9. b \in Header
    BY Zenon, <2>6, <2>8, BlockFacts
  <2> QED
    BY Zenon, <2>7, <2>9 DEF Next
<1> QED
  BY Zenon, <1>1, <1>2 DEF ReorgNext

(* A validation thread that works through the planner's jobs, the first of *)
(* a plan at a time, never asks the tree for a step it does not allow:     *)
(* with it the tree is the tree of HeaderTree, invariant and all.          *)
THEOREM PlannedTree == ReorgSpec => Spec /\ []IInv
<1>1. Init => IInv
  BY Zenon, InitIInv
<1>2. IInv /\ [Next]_vars => IInv'
  BY Zenon, NextIInv
<1> QED
  BY <1>1, <1>2, ReorgStep, PTL DEF ReorgSpec, Spec

(* Whatever is in the tree, a reorg done in batches is the reorg done at   *)
(* once: every plan the planner makes is the beginning of the whole plan,  *)
(* and the whole plan is one the tree allows and ends where it should.     *)
THEOREM PlanIsBatchTheorem == ReorgSpec => []PlanIsBatch
BY PlannedTree, PlansAreBatches, PTL

(* Whatever chain a peer is on, the answer to its getheaders continues it, *)
(* and is empty only when there is nothing to continue it with.            *)
THEOREM AnswerAdvancesTheorem == ReorgSpec => []AnswerAdvances
BY PlannedTree, AnswersAdvance, PTL
=============================================================================
