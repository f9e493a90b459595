--------------------------- MODULE DownloadProofs ---------------------------
(***************************************************************************)
(* Proofs, for every tree of headers, every number of slots and whatever   *)
(* the peers of PeerLink do, of what the chain thread's schedule promises: *)
(* a block in flight is owed by someone and has a clock running, the walk  *)
(* asks for nothing that is in flight, the window bounds what arrives, and *)
(* the schedule does to the peers only what PeerLink allows.               *)
(***************************************************************************)
EXTENDS Download, FiniteSetTheorems, WellFoundedInduction, TLAPS

-----------------------------------------------------------------------------
(* Types.                                                                  *)

Tree == Header \cup {Genesis}

Row == [conn : 0 .. made, best : Tree \cup {None}, common : Tree \cup {None},
        dl : BOOLEAN, stall : BOOLEAN, gh : BOOLEAN, started : BOOLEAN,
        deadline : BOOLEAN, sent : BOOLEAN]

(* The rows and the blocks in flight.                                      *)
Table == [row : [Slot -> Row], fly : [Header -> Slot \cup {0}]]

LinkState == [ready : BOOLEAN, services : Services \cup {{}}, doomed : BOOLEAN,
              requests : SUBSET Header]

(* A message a reader may hold: a block it was asked for is a header's.    *)
Fine == {m \in Message : m.kind = "block" => m.hash \in Header}

Walking == {"headers", "started", "blocks", "asked", "timeouts"}
Position == [pc : Walking \cup {"receive", "reconcile", "stale"},
             i : Slot \cup {0}, conn : Nat, preferred : Nat, syncing : Nat,
             recent : BOOLEAN]

LinkTypes ==
    /\ made \in Nat
    /\ slot \in [Slot -> 0 .. made]
    /\ link \in [Slot -> LinkState]
    /\ hold \in [Slot -> {<<>>} \cup {<<m>> : m \in Fine}]
    /\ inbox \in Seq(Slot \X Fine)

ScheduleTypes ==
    /\ Rows \in Table
    /\ delivered \subseteq Header
    /\ known \subseteq Tree
    /\ ch \in Position
    /\ ch.pc \in Walking => ch.i \in Slot

-----------------------------------------------------------------------------
(* The invariant.                                                          *)

InFlight == {h \in Header : fly[h] # 0}

(* A peer is never asked for more than its share, and what has arrived and *)
(* what is in flight stay below the bound block_received asserts.          *)
ShareKept == \A i \in Slot : Cardinality(InFlightFor(i)) <= MaxRequests
WindowKept ==
    Cardinality(delivered) + Cardinality(InFlight)
        < MaxUnstored + MaxRequests * Cardinality(Slot)

DownloadInv ==
    /\ LinkTypes /\ ScheduleTypes
    /\ InFlightIsOwed /\ InFlightHasClock
    /\ ShareKept /\ WindowKept
    /\ OtherAssertionsHold

-----------------------------------------------------------------------------
(* Numbers and finite sets.                                                *)

(* A set of naturals has a least element, so that Min names one of it.     *)
LEMMA LeastNumber ==
    ASSUME NEW T, T \subseteq Nat, T # {}
    PROVE  /\ \E n \in T : \A m \in T : n <= m
           /\ Min(T) \in T
<1>1. PICK n \in T : \A m \in T : ~(<<m, n>> \in OpToRel(<, Nat))
  BY Zenon, NatLessThanWellFounded, WFMin
<1>2. \A m \in T : ~(m < n)
  BY Zenon, <1>1 DEF OpToRel
<1>3. \A m \in T : n <= m
  BY <1>2
<1> QED
  BY Zenon, <1>3 DEF Min

(* One that is bounded has a greatest, which Max names.                    *)
LEMMA GreatestNumber ==
    ASSUME NEW T, T \subseteq Nat, T # {},
           NEW b \in Nat, \A n \in T : n <= b
    PROVE  /\ Max(T) \in T
           /\ \A m \in T : m <= Max(T)
<1> DEFINE D == {b - n : n \in T}
<1>1. D \subseteq Nat /\ D # {}
  <2>1. \A n \in T : b - n \in Nat
    OBVIOUS
  <2> QED
    BY Zenon, <2>1
<1>2. PICK d \in D : \A e \in D : d <= e
  BY Zenon, <1>1, LeastNumber
<1>3. PICK n \in T : d = b - n
  BY Zenon, <1>2
<1>4. \A m \in T : m <= n
  BY SMTT(20), <1>2, <1>3
<1> QED
  BY Zenon, <1>4 DEF Max

(* The least of two numbers.                                               *)
LEMMA LesserOfTwo ==
    ASSUME NEW a \in Nat, NEW b \in Nat
    PROVE  Min({a, b}) \in Nat /\ Min({a, b}) <= a /\ Min({a, b}) <= b
BY DEF Min

(* Sets of headers are finite.                                             *)
LEMMA HeaderFinite ==
    ASSUME NEW S, S \subseteq Header
    PROVE  IsFiniteSet(S) /\ Cardinality(S) \in Nat
BY Zenon, FS_Subset, FS_CardinalityType, DownloadAssumption

(* A subset has no more elements.                                          *)
LEMMA SubsetSmaller ==
    ASSUME NEW S, NEW R, S \subseteq R, R \subseteq Header
    PROVE  Cardinality(S) <= Cardinality(R)
BY Zenon, HeaderFinite, FS_Subset

(* A map of headers into the slots that sends few of them to each sends    *)
(* few of them to any.                                                     *)
LEMMA SharesAddUp ==
    ASSUME NEW f \in [Header -> Slot \cup {0}], NEW M \in Nat,
           \A i \in Slot : Cardinality({h \in Header : f[h] = i}) <= M
    PROVE  Cardinality({h \in Header : f[h] # 0}) <= M * Cardinality(Slot)
<1> DEFINE N == Cardinality(Slot)
           Upto(n) == {h \in Header : f[h] \in 1 .. n}
           Over == {n \in 0 .. N : ~(Cardinality(Upto(n)) <= M * n)}
<1>1. N \in Nat /\ Slot = 1 .. N
  BY Zenon, FS_CardinalityType, DownloadAssumption
<1> HIDE DEF N
<1>2. ASSUME Over # {} PROVE FALSE
  <2>1. PICK n \in Over : \A m \in Over : n <= m
    <3>1. Over \subseteq Nat
      BY <1>1
    <3> HIDE DEF Over
    <3> QED
      BY Zenon, <3>1, <1>2, LeastNumber
  <2>2. n # 0
    <3>1. Upto(0) = {}
      OBVIOUS
    <3>2. M * 0 = 0
      OBVIOUS
    <3> HIDE DEF Upto
    <3>3. Cardinality(Upto(0)) = 0
      BY Zenon, <3>1, FS_EmptySet
    <3>4. Cardinality(Upto(0)) <= M * 0
      BY <3>2, <3>3
    <3> QED
      BY Zenon, <3>4, <2>1
  <2>3. n - 1 \in 0 .. N /\ n \in 1 .. N
    BY <1>1, <2>1, <2>2
  <2>4. Cardinality(Upto(n - 1)) <= M * (n - 1)
    BY <1>1, <2>1, <2>3
  <2> DEFINE A == Upto(n - 1)
             B == {h \in Header : f[h] = n}
  <2>5. Upto(n) = A \cup B
    BY <1>1, <2>3
  <2>6. /\ IsFiniteSet(A) /\ IsFiniteSet(B) /\ IsFiniteSet(A \cap B)
        /\ Cardinality(A) \in Nat /\ Cardinality(B) \in Nat
        /\ Cardinality(A \cap B) \in Nat
    <3>1. A \subseteq Header /\ B \subseteq Header /\ A \cap B \subseteq Header
      BY Zenon
    <3> HIDE DEF A, B
    <3> QED
      BY Zenon, <3>1, HeaderFinite
  <2>7. Cardinality(B) <= M
    BY Zenon, <1>1, <2>3
  <2> HIDE DEF A, B
  <2>8. /\ Cardinality(A \cup B) <= Cardinality(A) + Cardinality(B)
        /\ Cardinality(A \cup B) \in Int
    <3>1. Cardinality(A \cup B) = Cardinality(A) + Cardinality(B) - Cardinality(A \cap B)
      BY Zenon, <2>6, FS_Union
    <3> QED
      BY <3>1, <2>6
  <2>9. M * (n - 1) + M = M * n /\ M * (n - 1) \in Nat
    BY <2>3, <1>1
  <2>10. Cardinality(Upto(n)) <= M * n
    <3>1. Cardinality(A) <= M * (n - 1)
      BY Zenon, <2>4 DEF A
    <3> DEFINE p == M * (n - 1)
               q == M * n
    <3>2. p + M = q /\ p \in Nat /\ Cardinality(A) <= p
      BY Zenon, <2>9, <3>1
    <3> HIDE DEF p, q, Upto
    <3>3. Cardinality(A \cup B) <= q
      BY <3>2, <2>6, <2>7, <2>8
    <3> QED
      BY Zenon, <3>3, <2>5 DEF q
  <2> QED
    BY Zenon, <2>1, <2>10
<1>3. Cardinality(Upto(N)) <= M * N
  <2>1. N \in 0 .. N /\ N \notin Over
    <3> HIDE DEF Over
    <3> QED
      BY <1>1, <1>2
  <2> HIDE DEF Upto
  <2> QED
    BY Zenon, <2>1
<1>4. Upto(N) = {h \in Header : f[h] # 0}
  BY <1>1
<1> QED
  BY Zenon, <1>3, <1>4 DEF N

-----------------------------------------------------------------------------
(* The tree of headers: it is finite, so walking down from a header comes  *)
(* to Genesis, and what is defined along the way is defined.               *)

(* Of a set of headers, one has its parent outside.                        *)
LEMMA LowestHeader ==
    ASSUME NEW B, B \subseteq Tree, B # {}
    PROVE  \E h \in B : h = Genesis \/ (h \in Header /\ Prev[h] \in Tree \ B)
<1>1. PICK rank \in [Tree -> 0 .. Cardinality(Header)] :
          \A h \in Header : rank[Prev[h]] < rank[h]
  BY Zenon, DownloadAssumption DEF Tree
<1> DEFINE R == {rank[h] : h \in B}
<1>2. Cardinality(Header) \in Nat
  BY Zenon, HeaderFinite
<1>3. R \subseteq Nat /\ R # {}
  BY <1>1, <1>2
<1>4. PICK n \in R : \A m \in R : n <= m
  BY Zenon, <1>3, LeastNumber
<1>5. PICK h \in B : n = rank[h]
  BY Zenon, <1>4
<1>6. h \in Header => Prev[h] \in Tree /\ rank[Prev[h]] < rank[h]
  BY Zenon, <1>1, DownloadAssumption DEF Tree
<1>7. h \in Header => Prev[h] \notin B
  BY <1>1, <1>2, <1>4, <1>5, <1>6
<1> QED
  BY Zenon, <1>5, <1>6, <1>7 DEF Tree

(* A function may be defined by recursion along Prev.                      *)
LEMMA RecursionOnTree ==
    ASSUME NEW V, NEW base \in V, NEW step \in [Header \X V -> V]
    PROVE  \E f \in [Tree -> V] :
              f = [h \in Tree |-> IF h = Genesis THEN base
                                  ELSE step[<<h, f[Prev[h]]>>]]
<1>1. PICK rank \in [Tree -> 0 .. Cardinality(Header)] :
          \A h \in Header : rank[Prev[h]] < rank[h]
  BY Zenon, DownloadAssumption DEF Tree
<1>2. Cardinality(Header) \in Nat
  BY Zenon, HeaderFinite
<1>3. Prev \in [Header -> Tree] /\ Genesis \notin Header /\ Tree = Header \cup {Genesis}
  BY Zenon, DownloadAssumption DEF Tree
<1> DEFINE Next(f) == [h \in Tree |-> IF h = Genesis THEN base
                                      ELSE step[<<h, f[Prev[h]]>>]]
           Good(n, f) == \A h \in Tree : rank[h] < n => f[h] = Next(f)[h]
           Over == {n \in Nat : ~ \E f \in [Tree -> V] : Good(n, f)}
<1>4. ASSUME NEW f \in [Tree -> V] PROVE Next(f) \in [Tree -> V]
  BY Zenon, <1>3
<1>5. ASSUME NEW n \in Nat, NEW f \in [Tree -> V], Good(n, f)
      PROVE  Good(n + 1, Next(f))
  <2> SUFFICES ASSUME NEW h \in Tree, rank[h] < n + 1
               PROVE  Next(f)[h] = Next(Next(f))[h]
    BY Zenon
  <2>1. CASE h = Genesis
    BY Zenon, <2>1
  <2>2. CASE h # Genesis
    <3>1. h \in Header /\ Prev[h] \in Tree /\ rank[Prev[h]] < rank[h]
      BY Zenon, <2>2, <1>1, <1>3
    <3>2. rank[Prev[h]] < n
      BY <3>1, <1>1, <1>2
    <3>3. f[Prev[h]] = Next(f)[Prev[h]]
      BY Zenon, <3>1, <3>2, <1>5
    <3> QED
      BY Zenon, <2>2, <3>3
  <2> QED
    BY Zenon, <2>1, <2>2
<1>6. 0 \notin Over
  <2>1. [h \in Tree |-> base] \in [Tree -> V]
    BY Zenon
  <2>2. Good(0, [h \in Tree |-> base])
    BY <1>1, <1>2
  <2> QED
    BY Zenon, <2>1, <2>2
<1>7. ASSUME Over # {} PROVE FALSE
  <2>1. PICK n \in Over : \A m \in Over : n <= m
    <3>1. Over \subseteq Nat
      BY Zenon
    <3> HIDE DEF Over
    <3> QED
      BY Zenon, <3>1, <1>7, LeastNumber
  <2>2. n \in Nat /\ n # 0
    BY Zenon, <2>1, <1>6
  <2>3. n - 1 \in Nat /\ n - 1 \notin Over /\ (n - 1) + 1 = n
    BY <2>1, <2>2
  <2>4. PICK f \in [Tree -> V] : Good(n - 1, f)
    BY Zenon, <2>3
  <2>5. Good(n, Next(f)) /\ Next(f) \in [Tree -> V]
    <3>1. Good((n - 1) + 1, Next(f))
      <4> HIDE DEF Good, Next
      <4> QED
        BY Zenon, <2>3, <2>4, <1>5
    <3> QED
      BY Zenon, <2>3, <3>1, <1>4
  <2> QED
    BY Zenon, <2>1, <2>5
<1>8. PICK f \in [Tree -> V] : Good(Cardinality(Header) + 1, f)
  <2>1. Cardinality(Header) + 1 \in Nat \ Over
    <3> HIDE DEF Over
    <3> QED
      BY <1>2, <1>7
  <2> HIDE DEF Good
  <2> QED
    BY Zenon, <2>1
<1>9. \A h \in Tree : f[h] = Next(f)[h]
  BY <1>1, <1>2, <1>8
<1>10. f = Next(f)
  BY Zenon, <1>9
<1> QED
  BY Zenon, <1>10

(* The tree is the headers and genesis, and closed under parents.          *)
LEMMA TreeShape ==
    /\ Tree = Header \cup {Genesis} /\ Genesis \notin Header
    /\ \A h \in Header : Prev[h] \in Tree
    /\ Tip \in Tree /\ Loaded \subseteq Tree
BY Zenon, DownloadAssumption DEF Tree

(* Height is the function its recursion describes.                         *)
LEMMA HeightEquation ==
    Height = [h \in Tree |-> IF h = Genesis THEN 0 ELSE Height[Prev[h]] + 1]
<1> DEFINE V == Nat
           base == 0
           step == [p \in Header \X V |-> p[2] + 1]
           Next(f) == [h \in Tree |-> IF h = Genesis THEN 0 ELSE f[Prev[h]] + 1]
<1>1. step \in [Header \X V -> V] /\ base \in V
  OBVIOUS
<1>2. PICK f \in [Tree -> V] :
          f = [h \in Tree |-> IF h = Genesis THEN base ELSE step[<<h, f[Prev[h]]>>]]
  <2> HIDE DEF step, V, base
  <2> QED
    BY <1>1, RecursionOnTree
<1>3. \A h \in Tree : f[h] = Next(f)[h]
  BY Zenon, <1>2, TreeShape
<1>4. f = Next(f)
  BY Zenon, <1>3
<1>5. \E g : g = Next(g)
  BY Zenon, <1>4
<1> HIDE DEF Next
<1>6. Height = CHOOSE g : g = Next(g)
  BY Zenon DEF Height, Next, Tree
<1>7. Height = Next(Height)
  BY Zenon, <1>5, <1>6
<1> QED
  BY Zenon, <1>7 DEF Next

(* Chain is the function its recursion describes.                          *)
LEMMA ChainEquation ==
    Chain = [h \in Tree |-> IF h = Genesis THEN {h} ELSE Chain[Prev[h]] \cup {h}]
<1> DEFINE V == SUBSET Tree
           step == [p \in Header \X V |-> p[2] \cup {p[1]}]
           Next(f) == [h \in Tree |-> IF h = Genesis THEN {h} ELSE f[Prev[h]] \cup {h}]
           base == {Genesis}
<1>1. step \in [Header \X V -> V] /\ base \in V
  BY Zenon, TreeShape
<1>2. PICK f \in [Tree -> V] :
          f = [h \in Tree |-> IF h = Genesis THEN base ELSE step[<<h, f[Prev[h]]>>]]
  <2> HIDE DEF step, V, base
  <2> QED
    BY <1>1, RecursionOnTree
<1>3. \A h \in Tree : f[h] = Next(f)[h]
  <2> SUFFICES ASSUME NEW h \in Tree PROVE f[h] = Next(f)[h]
    BY Zenon
  <2>1. CASE h = Genesis
    BY Zenon, <1>2, <2>1
  <2>2. CASE h # Genesis
    <3>1. h \in Header /\ f[Prev[h]] \in V
      BY Zenon, <2>2, <1>2, TreeShape
    <3>2. f[h] = step[<<h, f[Prev[h]]>>]
      <4> HIDE DEF step
      <4> QED
        BY Zenon, <1>2, <2>2
    <3>3. <<h, f[Prev[h]]>> \in Header \X V
      BY Zenon, <3>1
    <3> QED
      BY Zenon, <3>2, <3>3, <2>2
  <2> QED
    BY Zenon, <2>1, <2>2
<1>4. f = Next(f)
  BY Zenon, <1>3
<1>5. \E g : g = Next(g)
  BY Zenon, <1>4
<1> HIDE DEF Next
<1>6. Chain = CHOOSE g : g = Next(g)
  BY Zenon DEF Chain, Next, Tree
<1>7. Chain = Next(Chain)
  BY Zenon, <1>5, <1>6
<1> QED
  BY Zenon, <1>7 DEF Next

(* Heights count up from genesis.                                          *)
LEMMA HeightFacts ==
    /\ Height[Genesis] = 0
    /\ \A h \in Header : Height[h] = Height[Prev[h]] + 1
    /\ \A h \in Tree : Height[h] \in Nat
<1>1. /\ Height[Genesis] = 0
      /\ \A h \in Header : Height[h] = Height[Prev[h]] + 1
  BY Zenon, HeightEquation, TreeShape
<1>2. ASSUME NEW B, B = {h \in Tree : Height[h] \notin Nat}, B # {} PROVE FALSE
  <2>1. PICK h \in B : h = Genesis \/ (h \in Header /\ Prev[h] \in Tree \ B)
    BY Zenon, <1>2, LowestHeader
  <2> QED
    BY <1>1, <1>2, <2>1
<1> QED
  BY Zenon, <1>1, <1>2

(* A chain is its parent's chain and the block itself.                     *)
LEMMA ChainFacts ==
    /\ Chain[Genesis] = {Genesis}
    /\ \A h \in Header : Chain[h] = Chain[Prev[h]] \cup {h}
    /\ \A h \in Tree : Chain[h] \subseteq Tree /\ Genesis \in Chain[h]
<1>1. /\ Chain[Genesis] = {Genesis}
      /\ \A h \in Header : Chain[h] = Chain[Prev[h]] \cup {h}
  BY Zenon, ChainEquation, TreeShape
<1>2. ASSUME NEW B,
             B = {h \in Tree : ~(Chain[h] \subseteq Tree /\ Genesis \in Chain[h])},
             B # {}
      PROVE  FALSE
  <2>1. PICK h \in B : h = Genesis \/ (h \in Header /\ Prev[h] \in Tree \ B)
    BY Zenon, <1>2, LowestHeader
  <2>2. CASE h = Genesis
    BY Zenon, <1>1, <1>2, <2>1, <2>2, TreeShape
  <2>3. CASE h \in Header /\ Prev[h] \in Tree \ B
    BY <1>1, <1>2, <2>1, <2>3, TreeShape
  <2> QED
    BY Zenon, <2>1, <2>2, <2>3
<1> QED
  BY ZenonT(30), <1>1, <1>2

(* A header's chain has a block at every height up to its own, and none    *)
(* above.                                                                  *)
LEMMA ChainIsComplete ==
    ASSUME NEW h \in Tree
    PROVE  /\ \A n \in 0 .. Height[h] : \E a \in Chain[h] : Height[a] = n
           /\ \A a \in Chain[h] : Height[a] <= Height[h]
<1> DEFINE Full(k) == /\ \A n \in 0 .. Height[k] : \E a \in Chain[k] : Height[a] = n
                      /\ \A a \in Chain[k] : Height[a] <= Height[k]
<1>1. Full(Genesis)
  BY ChainFacts, HeightFacts
<1>2. ASSUME NEW k \in Header, Full(Prev[k]) PROVE Full(k)
  <2>1. /\ Prev[k] \in Tree /\ Height[Prev[k]] \in Nat
        /\ Height[k] = Height[Prev[k]] + 1
        /\ Chain[k] = Chain[Prev[k]] \cup {k}
        /\ Chain[Prev[k]] \subseteq Tree
    BY Zenon, TreeShape, ChainFacts, HeightFacts
  <2>2. ASSUME NEW n \in 0 .. Height[k] PROVE \E a \in Chain[k] : Height[a] = n
    <3>1. CASE n = Height[k]
      BY Zenon, <3>1, <2>1
    <3>2. CASE n # Height[k]
      <4>1. n \in 0 .. Height[Prev[k]]
        BY <3>2, <2>1
      <4> QED
        BY Zenon, <4>1, <1>2, <2>1
    <3> QED
      BY Zenon, <3>1, <3>2
  <2>3. ASSUME NEW a \in Chain[k] PROVE Height[a] <= Height[k]
    <3>1. CASE a = k
      BY <3>1, <2>1
    <3>2. CASE a \in Chain[Prev[k]]
      <4>1. Height[a] \in Nat /\ Height[a] <= Height[Prev[k]]
        BY Zenon, <3>2, <1>2, <2>1, HeightFacts
      <4> QED
        BY <4>1, <2>1
    <3> QED
      BY Zenon, <3>1, <3>2, <2>1
  <2> QED
    BY Zenon, <2>2, <2>3
<1>3. ASSUME NEW B, B = {k \in Tree : ~Full(k)}, B # {} PROVE FALSE
  <2> HIDE DEF Full
  <2>1. PICK k \in B : k = Genesis \/ (k \in Header /\ Prev[k] \in Tree \ B)
    BY Zenon, <1>3, LowestHeader
  <2> QED
    BY Zenon, <1>1, <1>2, <1>3, <2>1
<1> HIDE DEF Full
<1>4. Full(h)
  BY Zenon, <1>3
<1> QED
  BY Zenon, <1>4 DEF Full

(* The ancestor at a height is in the tree, at that height.                *)
LEMMA AncestorFacts ==
    ASSUME NEW h \in Tree, NEW n \in 0 .. Height[h]
    PROVE  /\ Ancestor(h, n) \in Tree /\ Height[Ancestor(h, n)] = n
           /\ n > 0 => Ancestor(h, n) \in Header
<1>1. \E a \in Chain[h] : Height[a] = n
  BY Zenon, ChainIsComplete
<1>2. Ancestor(h, n) \in Chain[h] /\ Height[Ancestor(h, n)] = n
  BY Zenon, <1>1 DEF Ancestor
<1> QED
  BY <1>2, ChainFacts, HeightFacts, TreeShape

(* Two blocks have a last common ancestor.                                 *)
LEMMA CommonAncestorFacts ==
    ASSUME NEW a \in Tree, NEW b \in Tree
    PROVE  /\ LastCommonAncestor(a, b) \in Tree
           /\ Height[LastCommonAncestor(a, b)] \in Nat
<1> DEFINE C == Chain[a] \cap Chain[b]
           H == {Height[k] : k \in C}
<1>1. C \subseteq Tree /\ C # {}
  BY Zenon, ChainFacts
<1>2. /\ H \subseteq Nat /\ H # {} /\ Height[a] \in Nat
      /\ \A n \in H : n <= Height[a]
  BY <1>1, HeightFacts, ChainIsComplete
<1>3. Max(H) \in H /\ \A m \in H : m <= Max(H)
  <2> HIDE DEF H
  <2> QED
    BY Zenon, <1>2, GreatestNumber
<1>4. \E h \in C : \A k \in C : Height[k] <= Height[h]
  BY Zenon, <1>3
<1> HIDE DEF C
<1>5. LastCommonAncestor(a, b) \in C
  <2>1. LastCommonAncestor(a, b) = CHOOSE h \in C : \A k \in C : Height[k] <= Height[h]
    BY Zenon DEF LastCommonAncestor, C
  <2> QED
    BY Zenon, <1>4, <2>1
<1> QED
  BY Zenon, <1>1, <1>5, HeightFacts

-----------------------------------------------------------------------------
(* The walk.                                                               *)

(* The block common with a peer is in the tree.                            *)
LEMMA CommonBlockFacts ==
    ASSUME NEW r \in Row, r.best \in Tree
    PROVE  CommonBlock(r) \in Tree /\ Height[CommonBlock(r)] \in Nat
<1> DEFINE level == Min({Height[Tip], Height[r.best]})
           edge == IF r.common = None THEN Ancestor(Tip, level) ELSE r.common
<1>1. Height[Tip] \in Nat /\ Height[r.best] \in Nat /\ Tip \in Tree
  BY Zenon, HeightFacts, TreeShape
<1>2. level \in 0 .. Height[Tip]
  BY <1>1, LesserOfTwo
<1> HIDE DEF level
<1>3. Ancestor(Tip, level) \in Tree
  BY Zenon, <1>1, <1>2, AncestorFacts
<1>4. edge \in Tree
  BY Zenon, <1>3 DEF Row
<1> HIDE DEF edge
<1>5. CommonBlock(r) = LastCommonAncestor(edge, r.best)
  BY Zenon DEF CommonBlock, edge, level
<1> QED
  BY Zenon, <1>4, <1>5, CommonAncestorFacts

(* The headers the walk looks at are above Genesis.                        *)
LEMMA BatchFacts ==
    ASSUME NEW b \in Tree, NEW first \in Nat \ {0}, NEW last \in Nat, last <= Height[b]
    PROVE  Batch(b, first, last) \in [1 .. last - first + 1 -> Header]
<1>1. Height[b] \in Nat
  BY Zenon, HeightFacts
<1>2. ASSUME NEW n \in 1 .. last - first + 1
      PROVE  Ancestor(b, first + n - 1) \in Header
  <2>1. first + n - 1 \in 0 .. Height[b] /\ first + n - 1 > 0
    BY <1>1
  <2> QED
    BY Zenon, <2>1, AncestorFacts
<1> QED
  BY Zenon, <1>2 DEF Batch

(* What the loop takes is not in flight and no more than is wanted.        *)
LEMMA WalkPathFacts ==
    ASSUME Rows \in Table, NEW i \in Slot, NEW want \in Nat, NEW limited, NEW top,
           NEW common \in Tree, NEW n \in Int, NEW path \in [1 .. n -> Header]
    PROVE  LET w == WalkPath(i, want, limited, top, common, path) IN
           /\ w.blocks \subseteq {h \in Header : fly[h] = 0}
           /\ Cardinality(w.blocks) <= want
           /\ w.common \in Tree
           /\ w.staller \in Slot \cup {0}
<1> DEFINE refused == {k \in DOMAIN path : path[k] \in Terminal}
           open == {k \in DOMAIN path : \A j \in refused : k < j}
           wanted == {k \in open : Wanted(path[k], limited, top)}
           taken == {k \in wanted : Cardinality({j \in wanted : j <= k}) <= want}
           had == {k \in open : \A j \in 1 .. k : Have(path[j])}
           waiting == {k \in open : ~Have(path[k]) /\ fly[path[k]] # 0}
           held == IF taken = {} /\ refused = {} /\ waiting # {}
                   THEN fly[path[Min(waiting)]] ELSE 0
           blocks == {path[k] : k \in taken}
           reached == IF had = {} THEN common ELSE path[Max(had)]
           staller == IF held = i THEN 0 ELSE held
<1>1. WalkPath(i, want, limited, top, common, path)
        = [blocks |-> blocks, common |-> reached, staller |-> staller]
  BY Zenon DEF WalkPath
<1>2. fly \in [Header -> Slot \cup {0}]
  BY Zenon DEF Rows, Table
<1>3. DOMAIN path = 1 .. n /\ 1 .. n \subseteq Nat
  OBVIOUS
<1>a. ASSUME NEW S, S \subseteq 1 .. n, S # {}
      PROVE  S \subseteq Nat /\ n \in Nat /\ \A k \in S : k <= n
  <2>1. PICK k \in S : TRUE
    BY Zenon, <1>a
  <2>2. k \in 1 .. n
    BY Zenon, <1>a, <2>1
  <2> QED
    BY <1>a, <2>2
<1>4. open \subseteq 1 .. n
  BY Zenon
<1>5. wanted \subseteq open /\ \A k \in wanted : fly[path[k]] = 0
  BY Zenon DEF Wanted
<1>6. had \subseteq open /\ waiting \subseteq open
  BY Zenon
<1>7. taken \subseteq wanted
  BY Zenon
<1> HIDE DEF refused, open
<1>8. blocks \subseteq {h \in Header : fly[h] = 0}
  <2> HIDE DEF taken, wanted
  <2> QED
    BY Zenon, <1>4, <1>5, <1>7
<1>9. reached \in Tree
  <2>1. CASE had = {}
    BY Zenon, <2>1
  <2>2. CASE had # {}
    <3> HIDE DEF had
    <3>1. had \subseteq 1 .. n /\ had \subseteq Nat /\ n \in Nat /\ \A k \in had : k <= n
      <4>1. had \subseteq 1 .. n
        BY Zenon, <1>4, <1>6
      <4> QED
        BY Zenon, <4>1, <1>a, <2>2
    <3>2. Max(had) \in had
      BY Zenon, <3>1, <2>2, GreatestNumber
    <3> QED
      BY Zenon, <3>1, <3>2, <2>2, TreeShape
  <2> QED
    BY Zenon, <2>1, <2>2
<1>10. staller \in Slot \cup {0}
  <2>1. ASSUME waiting # {} PROVE fly[path[Min(waiting)]] \in Slot \cup {0}
    <3> HIDE DEF waiting
    <3>1. waiting \subseteq 1 .. n /\ waiting \subseteq Nat
      BY <1>4, <1>6
    <3>2. Min(waiting) \in waiting
      BY Zenon, <3>1, <2>1, LeastNumber
    <3> QED
      BY Zenon, <3>1, <3>2, <1>2
  <2> HIDE DEF taken, waiting
  <2> QED
    BY Zenon, <2>1
<1>11. Cardinality(blocks) <= want
  <2>1. taken \subseteq 1 .. n /\ wanted \subseteq 1 .. n
    BY Zenon, <1>4, <1>5, <1>7
  <2>2. IsFiniteSet(1 .. n)
    BY FS_Interval
  <2>3. IsFiniteSet(taken) /\ IsFiniteSet(wanted)
    <3> HIDE DEF taken, wanted
    <3> QED
      BY Zenon, <2>1, <2>2, FS_Subset
  <2>4. Cardinality(taken) <= want
    <3>1. CASE taken = {}
      <4>1. Cardinality(taken) = 0
        <5> HIDE DEF taken
        <5> QED
          BY Zenon, <3>1, FS_EmptySet
      <4> HIDE DEF taken
      <4> QED
        BY <4>1
    <3>2. CASE taken # {}
      <4> DEFINE last == Max(taken)
                 upto == {j \in wanted : j <= last}
      <4>1. last \in taken /\ \A k \in taken : k <= last
        <5> HIDE DEF taken
        <5>1. taken \subseteq Nat /\ n \in Nat /\ \A k \in taken : k <= n
          BY Zenon, <2>1, <3>2, <1>a
        <5> QED
          BY Zenon, <5>1, <3>2, GreatestNumber
      <4> HIDE DEF last
      <4>2. Cardinality(upto) <= want
        BY Zenon, <4>1
      <4>3. taken \subseteq upto /\ upto \subseteq wanted
        BY Zenon, <4>1
      <4> HIDE DEF upto, taken, wanted
      <4>4. IsFiniteSet(upto) /\ Cardinality(upto) \in Nat
        BY Zenon, <4>3, <2>3, FS_Subset, FS_CardinalityType
      <4>5. Cardinality(taken) \in Nat /\ Cardinality(taken) <= Cardinality(upto)
        BY Zenon, <4>3, <4>4, <2>3, FS_Subset, FS_CardinalityType
      <4> QED
        BY <4>2, <4>4, <4>5
    <3> QED
      BY Zenon, <3>1, <3>2
  <2>5. Cardinality(blocks) \in Nat /\ Cardinality(blocks) <= Cardinality(taken)
    <3> HIDE DEF taken
    <3> DEFINE f == [k \in taken |-> path[k]]
    <3>1. f \in Surjection(taken, blocks)
      BY Zenon DEF Surjection
    <3> HIDE DEF f, blocks
    <3> QED
      BY Zenon, <3>1, <2>3, FS_Surjection, FS_CardinalityType
  <2> HIDE DEF taken, blocks
  <2> QED
    BY <2>3, <2>4, <2>5, FS_CardinalityType
<1> HIDE DEF blocks, reached, staller
<1> QED
  BY <1>1, <1>8, <1>9, <1>10, <1>11

(* A walk, of whichever slot the pass has come to.                         *)
LEMMA WalkFacts ==
    ASSUME Rows \in Table, ShareKept, NEW i \in Slot
    PROVE  LET w == WalkFor(i) IN
           /\ w.blocks \subseteq {h \in Header : fly[h] = 0}
           /\ Cardinality(w.blocks) + Cardinality(InFlightFor(i)) <= MaxRequests
           /\ w.common \in Tree \cup {None}
           /\ w.staller \in Slot \cup {0}
           /\ w.blocks # {} => slot[i] # 0
<1> DEFINE want == MaxRequests - Cardinality(InFlightFor(i))
           asks == slot[i] # 0 /\ link[i].ready /\ MayAsk(i) /\ want > 0
           r == row[i]
<1>1. Cardinality(InFlightFor(i)) \in Nat /\ MaxRequests \in Nat /\ want \in Nat
  <2>1. InFlightFor(i) \subseteq Header
    BY Zenon DEF InFlightFor
  <2> QED
    BY <2>1, HeaderFinite, DownloadAssumption DEF ShareKept
<1>2. r \in Row
  BY Zenon DEF Rows, Table
<1>3. CASE ~asks \/ NothingToWalk(r)
  <2>1. WalkFor(i) = [blocks |-> {}, common |-> r.common, staller |-> 0]
    BY Zenon, <1>3 DEF WalkFor, NoBlocks
  <2>2. Cardinality({}) = 0
    BY Zenon, FS_EmptySet
  <2>3. r.common \in Tree \cup {None}
    BY Zenon, <1>2 DEF Row
  <2> QED
    BY <2>1, <2>2, <2>3, <1>1 DEF ShareKept
<1>4. CASE ~(~asks \/ NothingToWalk(r))
  <2> DEFINE common == CommonBlock(r)
             top == Height[r.best]
             first == Height[common] + 1
             last == Min({top, Height[common] + Span})
             path == Batch(r.best, first, last)
             limited == IsLimited(i)
             w == WalkPath(i, want, limited, top, common, path)
  <2>1. WalkFor(i) = w
    BY Zenon, <1>4 DEF WalkFor, NextBlocks
  <2>2. r.best \in Tree
    BY Zenon, <1>2, <1>4 DEF NothingToWalk, Row
  <2>3. common \in Tree /\ Height[common] \in Nat
    BY Zenon, <1>2, <2>2, CommonBlockFacts
  <2>4. top \in Nat /\ Height[common] + Span \in Nat
    BY SMTT(20), <2>2, <2>3, HeightFacts, DownloadAssumption
  <2>5. last \in Nat /\ last <= Height[r.best] /\ first \in Nat \ {0}
    BY <2>3, <2>4, LesserOfTwo
  <2> HIDE DEF last, first, common
  <2>6. path \in [1 .. last - first + 1 -> Header] /\ last - first + 1 \in Int
    BY <2>2, <2>5, BatchFacts
  <2> HIDE DEF path, top, limited, want
  <2>7. /\ w.blocks \subseteq {h \in Header : fly[h] = 0}
        /\ Cardinality(w.blocks) <= want
        /\ w.common \in Tree
        /\ w.staller \in Slot \cup {0}
    BY Zenon, <2>3, <2>6, <1>1, WalkPathFacts
  <2> HIDE DEF w
  <2>8. w.blocks \subseteq Header
    BY Zenon, <2>7
  <2>9. Cardinality(w.blocks) \in Nat
    BY Zenon, <2>8, HeaderFinite
  <2>10. Cardinality(w.blocks) + Cardinality(InFlightFor(i)) <= MaxRequests
    BY <2>7, <2>9, <1>1 DEF want
  <2> QED
    BY Zenon, <2>1, <2>7, <2>10, <1>4
<1> QED
  BY Zenon, <1>3, <1>4

-----------------------------------------------------------------------------
(* The rows: what the schedule does to them between two requests.          *)

(* No block comes to be in flight, and one that stays in flight keeps its  *)
(* slot's connection and clock.                                            *)
Tidy(s, t) ==
    /\ t \in Table
    /\ \A h \in Header : t.fly[h] # 0 =>
          /\ t.fly[h] = s.fly[h]
          /\ s.row[s.fly[h]].dl => t.row[s.fly[h]].dl
          /\ t.row[s.fly[h]].conn = s.row[s.fly[h]].conn

(* A table left alone is tidy.                                             *)
LEMMA TidySelf == ASSUME NEW s \in Table PROVE Tidy(s, s)
BY Zenon DEF Tidy

(* Two tidy changes make one.                                              *)
LEMMA TidyTwice ==
    ASSUME NEW s, NEW t, NEW u, Tidy(s, t), Tidy(t, u)
    PROVE  Tidy(s, u)
BY DEF Tidy

(* A table is its rows and its requests.                                   *)
LEMMA TableShape ==
    ASSUME NEW s \in Table
    PROVE  /\ s = [row |-> s.row, fly |-> s.fly]
           /\ s.row \in [Slot -> Row] /\ s.fly \in [Header -> Slot \cup {0}]
           /\ \A i \in Slot : s.row[i] \in Row
BY Zenon DEF Table

(* One row is written to, but for its connection and but for stopping its  *)
(* clock.                                                                  *)
Marked(s, i, q) == [s EXCEPT !.row[i] = q]

(* Changing what a row says of its peer is tidy.                           *)
LEMMA TidyMark ==
    ASSUME NEW s \in Table, NEW i \in Slot, NEW q \in Row,
           q.conn = s.row[i].conn, s.row[i].dl => q.dl
    PROVE  Tidy(s, Marked(s, i, q)) /\ Marked(s, i, q).row[i] = q
<1>1. s.row \in [Slot -> Row] /\ s.fly \in [Header -> Slot \cup {0}]
  BY Zenon, TableShape
<1> DEFINE t == [row |-> [s.row EXCEPT ![i] = q], fly |-> s.fly]
<1>2. Marked(s, i, q) = t
  BY TableShape DEF Marked
<1>3. t \in Table /\ t.row[i] = q
  BY Zenon, <1>1 DEF Table
<1>4. \A j \in Slot : /\ s.row[j].dl => t.row[j].dl
                      /\ t.row[j].conn = s.row[j].conn
  BY Zenon, <1>1
<1>5. Tidy(s, t)
  BY Zenon, <1>1, <1>3, <1>4 DEF Tidy
<1> QED
  BY Zenon, <1>2, <1>3, <1>5

(* Matching a row to the connection in its slot is tidy.                   *)
LEMMA TidyMatched ==
    ASSUME LinkTypes, NEW s \in Table, NEW i \in Slot
    PROVE  Tidy(s, Matched(s, i)) /\ Matched(s, i) \in Table
           /\ Matched(s, i).row[i].conn = slot[i]
<1>1. s.row \in [Slot -> Row] /\ s.fly \in [Header -> Slot \cup {0}]
  BY Zenon, TableShape
<1>2. CASE s.row[i].conn = slot[i]
  BY Zenon, <1>2, TidySelf DEF Matched
<1>3. CASE s.row[i].conn # slot[i]
  <2> DEFINE t == [row |-> [s.row EXCEPT ![i] = Reset(slot[i])],
                   fly |-> [h \in Header |-> IF s.fly[h] = i THEN 0 ELSE s.fly[h]]]
  <2>1. Matched(s, i) = t
    BY Zenon, <1>3 DEF Matched
  <2>2. Reset(slot[i]) \in Row /\ Reset(slot[i]).conn = slot[i]
    BY Zenon DEF Reset, Row, LinkTypes
  <2>3. t.row \in [Slot -> Row] /\ t.fly \in [Header -> Slot \cup {0}]
    BY Zenon, <1>1, <2>2
  <2>4. t \in Table
    BY Zenon, <2>3 DEF Table
  <2>5. \A h \in Header : t.fly[h] # 0 => t.fly[h] = s.fly[h] /\ s.fly[h] \in Slot \ {i}
    BY Zenon, <1>1
  <2>6. \A j \in Slot \ {i} : t.row[j] = s.row[j]
    BY Zenon, <1>1
  <2>7. Tidy(s, t)
    <3> HIDE DEF t
    <3> QED
      BY Zenon, <2>4, <2>5, <2>6 DEF Tidy
  <2>8. t.row[i].conn = slot[i]
    BY Zenon, <1>1, <2>2
  <2> QED
    BY Zenon, <2>1, <2>4, <2>7, <2>8
<1> QED
  BY Zenon, <1>2, <1>3

(* The flags of a row.                                                    *)
LEMMA TidyFlags ==
    ASSUME NEW s \in Table, NEW i \in Slot
    PROVE  /\ Tidy(s, [s EXCEPT !.row[i].gh = TRUE])
           /\ Tidy(s, [s EXCEPT !.row[i].gh = FALSE])
           /\ Tidy(s, [s EXCEPT !.row[i].started = TRUE])
           /\ Tidy(s, [s EXCEPT !.row[i].deadline = TRUE])
           /\ Tidy(s, [s EXCEPT !.row[i].deadline = FALSE])
           /\ Tidy(s, [s EXCEPT !.row[i].deadline = s.row[i].started \/ @])
           /\ Tidy(s, [s EXCEPT !.row[i].sent = TRUE])
           /\ Tidy(s, [s EXCEPT !.row[i].stall = TRUE])
           /\ Tidy(s, [s EXCEPT !.row[i].stall = FALSE])
           /\ Tidy(s, [s EXCEPT !.row[i].dl = TRUE])
           /\ [s EXCEPT !.row[i].dl = TRUE].row[i].dl
<1> DEFINE r == s.row[i]
<1>1. r \in Row
  BY Zenon, TableShape
<1>2. Tidy(s, [s EXCEPT !.row[i].gh = TRUE])
  <2> DEFINE q == [r EXCEPT !.gh = TRUE]
  <2>1. q \in Row /\ q.conn = r.conn /\ (r.dl => q.dl)
    BY Zenon, <1>1 DEF Row
  <2>2. [s EXCEPT !.row[i].gh = TRUE] = Marked(s, i, q)
    BY Zenon DEF Marked
  <2> HIDE DEF q
  <2>3. Tidy(s, Marked(s, i, q))
    BY Zenon, <2>1, TidyMark
  <2> QED
    BY Zenon, <2>2, <2>3
<1>3. Tidy(s, [s EXCEPT !.row[i].gh = FALSE])
  <2> DEFINE q == [r EXCEPT !.gh = FALSE]
  <2>1. q \in Row /\ q.conn = r.conn /\ (r.dl => q.dl)
    BY Zenon, <1>1 DEF Row
  <2>2. [s EXCEPT !.row[i].gh = FALSE] = Marked(s, i, q)
    BY Zenon DEF Marked
  <2> HIDE DEF q
  <2>3. Tidy(s, Marked(s, i, q))
    BY Zenon, <2>1, TidyMark
  <2> QED
    BY Zenon, <2>2, <2>3
<1>4. Tidy(s, [s EXCEPT !.row[i].started = TRUE])
  <2> DEFINE q == [r EXCEPT !.started = TRUE]
  <2>1. q \in Row /\ q.conn = r.conn /\ (r.dl => q.dl)
    BY Zenon, <1>1 DEF Row
  <2>2. [s EXCEPT !.row[i].started = TRUE] = Marked(s, i, q)
    BY Zenon DEF Marked
  <2> HIDE DEF q
  <2>3. Tidy(s, Marked(s, i, q))
    BY Zenon, <2>1, TidyMark
  <2> QED
    BY Zenon, <2>2, <2>3
<1>5. Tidy(s, [s EXCEPT !.row[i].deadline = TRUE])
  <2> DEFINE q == [r EXCEPT !.deadline = TRUE]
  <2>1. q \in Row /\ q.conn = r.conn /\ (r.dl => q.dl)
    BY Zenon, <1>1 DEF Row
  <2>2. [s EXCEPT !.row[i].deadline = TRUE] = Marked(s, i, q)
    BY Zenon DEF Marked
  <2> HIDE DEF q
  <2>3. Tidy(s, Marked(s, i, q))
    BY Zenon, <2>1, TidyMark
  <2> QED
    BY Zenon, <2>2, <2>3
<1>6. Tidy(s, [s EXCEPT !.row[i].deadline = FALSE])
  <2> DEFINE q == [r EXCEPT !.deadline = FALSE]
  <2>1. q \in Row /\ q.conn = r.conn /\ (r.dl => q.dl)
    BY Zenon, <1>1 DEF Row
  <2>2. [s EXCEPT !.row[i].deadline = FALSE] = Marked(s, i, q)
    BY Zenon DEF Marked
  <2> HIDE DEF q
  <2>3. Tidy(s, Marked(s, i, q))
    BY Zenon, <2>1, TidyMark
  <2> QED
    BY Zenon, <2>2, <2>3
<1>7. Tidy(s, [s EXCEPT !.row[i].deadline = s.row[i].started \/ @])
  <2> DEFINE q == [r EXCEPT !.deadline = r.started \/ @]
  <2>1. q \in Row /\ q.conn = r.conn /\ (r.dl => q.dl)
    BY Zenon, <1>1 DEF Row
  <2>2. [s EXCEPT !.row[i].deadline = s.row[i].started \/ @] = Marked(s, i, q)
    BY Zenon DEF Marked
  <2> HIDE DEF q
  <2>3. Tidy(s, Marked(s, i, q))
    BY Zenon, <2>1, TidyMark
  <2> QED
    BY Zenon, <2>2, <2>3
<1>8. Tidy(s, [s EXCEPT !.row[i].sent = TRUE])
  <2> DEFINE q == [r EXCEPT !.sent = TRUE]
  <2>1. q \in Row /\ q.conn = r.conn /\ (r.dl => q.dl)
    BY Zenon, <1>1 DEF Row
  <2>2. [s EXCEPT !.row[i].sent = TRUE] = Marked(s, i, q)
    BY Zenon DEF Marked
  <2> HIDE DEF q
  <2>3. Tidy(s, Marked(s, i, q))
    BY Zenon, <2>1, TidyMark
  <2> QED
    BY Zenon, <2>2, <2>3
<1>9. Tidy(s, [s EXCEPT !.row[i].stall = TRUE])
  <2> DEFINE q == [r EXCEPT !.stall = TRUE]
  <2>1. q \in Row /\ q.conn = r.conn /\ (r.dl => q.dl)
    BY Zenon, <1>1 DEF Row
  <2>2. [s EXCEPT !.row[i].stall = TRUE] = Marked(s, i, q)
    BY Zenon DEF Marked
  <2> HIDE DEF q
  <2>3. Tidy(s, Marked(s, i, q))
    BY Zenon, <2>1, TidyMark
  <2> QED
    BY Zenon, <2>2, <2>3
<1>10. Tidy(s, [s EXCEPT !.row[i].stall = FALSE])
  <2> DEFINE q == [r EXCEPT !.stall = FALSE]
  <2>1. q \in Row /\ q.conn = r.conn /\ (r.dl => q.dl)
    BY Zenon, <1>1 DEF Row
  <2>2. [s EXCEPT !.row[i].stall = FALSE] = Marked(s, i, q)
    BY Zenon DEF Marked
  <2> HIDE DEF q
  <2>3. Tidy(s, Marked(s, i, q))
    BY Zenon, <2>1, TidyMark
  <2> QED
    BY Zenon, <2>2, <2>3
<1>11. Tidy(s, [s EXCEPT !.row[i].dl = TRUE]) /\ [s EXCEPT !.row[i].dl = TRUE].row[i].dl
  <2> DEFINE q == [r EXCEPT !.dl = TRUE]
  <2>1. q \in Row /\ q.conn = r.conn /\ (r.dl => q.dl) /\ q.dl
    BY Zenon, <1>1 DEF Row
  <2>2. [s EXCEPT !.row[i].dl = TRUE] = Marked(s, i, q)
    BY Zenon DEF Marked
  <2> HIDE DEF q
  <2>3. Tidy(s, Marked(s, i, q)) /\ Marked(s, i, q).row[i].dl
    BY Zenon, <2>1, TidyMark
  <2> QED
    BY Zenon, <2>2, <2>3
<1> QED
  BY Zenon, <1>2, <1>3, <1>4, <1>5, <1>6, <1>7, <1>8, <1>9, <1>10, <1>11

(* Noting a peer's best or common block is tidy.                           *)
LEMMA TidyHeaders ==
    ASSUME NEW s \in Table, NEW i \in Slot, NEW b \in Tree \cup {None}
    PROVE  /\ Tidy(s, [s EXCEPT !.row[i].best = b])
           /\ Tidy(s, [s EXCEPT !.row[i].common = b])
<1> DEFINE r == s.row[i]
<1>1. r \in Row
  BY Zenon, TableShape
<1>2. Tidy(s, [s EXCEPT !.row[i].best = b])
  <2> DEFINE q == [r EXCEPT !.best = b]
  <2>1. q \in Row /\ q.conn = r.conn /\ (r.dl => q.dl)
    BY Zenon, <1>1 DEF Row
  <2>2. [s EXCEPT !.row[i].best = b] = Marked(s, i, q)
    BY Zenon DEF Marked
  <2> HIDE DEF q
  <2>3. Tidy(s, Marked(s, i, q))
    BY Zenon, <2>1, TidyMark
  <2> QED
    BY Zenon, <2>2, <2>3
<1>3. Tidy(s, [s EXCEPT !.row[i].common = b])
  <2> DEFINE q == [r EXCEPT !.common = b]
  <2>1. q \in Row /\ q.conn = r.conn /\ (r.dl => q.dl)
    BY Zenon, <1>1 DEF Row
  <2>2. [s EXCEPT !.row[i].common = b] = Marked(s, i, q)
    BY Zenon DEF Marked
  <2> HIDE DEF q
  <2>3. Tidy(s, Marked(s, i, q))
    BY Zenon, <2>1, TidyMark
  <2> QED
    BY Zenon, <2>2, <2>3
<1> QED
  BY Zenon, <1>2, <1>3

-----------------------------------------------------------------------------
(* What a step of the chain thread leaves alone of the peers.              *)

(* Ending one link forgets no request and revives no link.                 *)
LEMMA EndedFacts ==
    ASSUME LinkTypes, NEW j \in Slot
    PROVE  /\ Ended(j) \in [Slot -> LinkState]
           /\ \A i \in Slot : /\ Ended(j)[i].requests = link[i].requests
                              /\ link[i].doomed => Ended(j)[i].doomed
<1>1. link \in [Slot -> LinkState] /\ (slot[j] # 0) \in BOOLEAN
  BY Zenon DEF LinkTypes
<1>2. [link[j] EXCEPT !.doomed = @ \/ slot[j] # 0] \in LinkState
  BY Zenon, <1>1 DEF LinkState
<1> QED
  BY Zenon, <1>1, <1>2 DEF Ended, LinkState

(* The tail of a queue has all but its head.                               *)
LEMMA TailKeeps ==
    ASSUME NEW S, NEW q \in Seq(S), q # <<>>
    PROVE  /\ Tail(q) \in Seq(S) /\ Head(q) \in S
           /\ \A x \in Range(q) : x = Head(q) \/ x \in Range(Tail(q))
<1>1. Tail(q) \in Seq(S) /\ Head(q) \in S /\ Len(q) \in Nat /\ Len(Tail(q)) = Len(q) - 1
  OBVIOUS
<1>2. ASSUME NEW k \in 1 .. Len(q), k # 1
      PROVE  k - 1 \in 1 .. Len(Tail(q)) /\ Tail(q)[k - 1] = q[k]
  BY <1>1, <1>2
<1>3. ASSUME NEW p \in Seq(S) PROVE Range(p) = {p[k] : k \in 1 .. Len(p)}
  BY DEF Range
<1>4. Head(q) = q[1]
  BY <1>1
<1>5. ASSUME NEW x \in Range(q), x # Head(q) PROVE x \in Range(Tail(q))
  <2>1. PICK k \in 1 .. Len(q) : x = q[k]
    BY Zenon, <1>3, <1>5
  <2>2. k - 1 \in 1 .. Len(Tail(q)) /\ Tail(q)[k - 1] = x
    BY Zenon, <1>2, <1>4, <1>5, <2>1
  <2> DEFINE p == Tail(q)
  <2>3. p \in Seq(S) /\ Range(p) = {p[j] : j \in 1 .. Len(p)}
    BY Zenon, <1>1, <1>3
  <2> QED
    BY Zenon, <2>2, <2>3
<1> QED
  BY Zenon, <1>1, <1>5

Disconnects == link' = link \/ \E j \in Slot : link' = Ended(j)
TakesOne == inbox' = inbox \/ (inbox # <<>> /\ inbox' = Tail(inbox))

(* Disconnecting and receiving keep the types.                             *)
LEMMA LinkTypesKept ==
    ASSUME LinkTypes, UNCHANGED <<made, slot, hold>>, Disconnects, TakesOne
    PROVE  LinkTypes'
<1>1. link' \in [Slot -> LinkState]
  BY Zenon, EndedFacts DEF LinkTypes, Disconnects
<1>2. inbox' \in Seq(Slot \X Fine)
  BY Zenon, TailKeeps DEF LinkTypes, TakesOne
<1> QED
  BY Zenon, <1>1, <1>2 DEF LinkTypes

(* The clock of a block in flight.                                         *)
LEMMA ClockKept ==
    ASSUME ScheduleTypes, InFlightHasClock,
           NEW t, Tidy(Rows, t), row' = t.row, fly' = t.fly,
           ch.pc = "asked" => row'[ch.i].dl
    PROVE  InFlightHasClock'
<1> SUFFICES ASSUME NEW h \in Header, fly'[h] # 0
             PROVE  row'[fly'[h]].dl
  BY Zenon DEF InFlightHasClock
<1>1. /\ fly'[h] = fly[h]
      /\ row[fly[h]].dl => row'[fly[h]].dl
  BY Zenon DEF Tidy, Rows
<1> QED
  BY Zenon, <1>1 DEF InFlightHasClock

(* And who owes it.                                                        *)
LEMMA OwedKept ==
    ASSUME LinkTypes, ScheduleTypes, InFlightIsOwed,
           NEW t, Tidy(Rows, t), row' = t.row, fly' = t.fly,
           UNCHANGED <<slot, hold>>, Disconnects,
           \A h \in Header : fly'[h] # 0 =>
              LET x == <<fly[h], [kind |-> "block", hash |-> h]>>
              IN  x \in Range(inbox) => x \in Range(inbox')
    PROVE  InFlightIsOwed'
<1> SUFFICES ASSUME NEW h \in Header, NEW i, i = fly'[h], i # 0, NEW block,
                    block = [kind |-> "block", hash |-> h]
             PROVE  \/ h \in link'[i].requests \/ link'[i].doomed
                    \/ hold'[i] = <<block>> \/ <<i, block>> \in Range(inbox')
                    \/ slot'[i] = 0 \/ row'[i].conn # slot'[i]
  BY Zenon DEF InFlightIsOwed
<1>1. fly[h] = i /\ i \in Slot /\ row'[i].conn = row[i].conn
  BY Zenon DEF Tidy, Rows, ScheduleTypes, Table
<1>2. link'[i].requests = link[i].requests /\ (link[i].doomed => link'[i].doomed)
  BY Zenon, <1>1, EndedFacts DEF Disconnects
<1>3. <<i, block>> \in Range(inbox) => <<i, block>> \in Range(inbox')
  BY Zenon, <1>1
<1>4. \/ h \in link[i].requests \/ link[i].doomed
      \/ hold[i] = <<block>> \/ <<i, block>> \in Range(inbox)
      \/ slot[i] = 0 \/ row[i].conn # slot[i]
  BY Zenon, <1>1 DEF InFlightIsOwed
<1> QED
  BY Zenon, <1>1, <1>2, <1>3, <1>4

(* How many are in flight.                                                 *)
LEMMA FewerInFlight ==
    ASSUME NEW t, Tidy(Rows, t), fly' = t.fly
    PROVE  /\ InFlight' \subseteq InFlight
           /\ \A i \in Slot : InFlightFor(i)' \subseteq InFlightFor(i)
<1>0. \A i \in Slot : i # 0
  BY FS_CardinalityType, DownloadAssumption
<1> QED
  BY Zenon, <1>0 DEF Tidy, Rows, InFlight, InFlightFor

(* A tidy change requests nothing, and so keeps the bounds.                *)
LEMMA BoundsKept ==
    ASSUME ScheduleTypes, ShareKept, WindowKept, NEW t, Tidy(Rows, t), fly' = t.fly
    PROVE  ShareKept' /\ (delivered' = delivered => WindowKept')
<1>1. /\ InFlight' \subseteq InFlight /\ InFlight \subseteq Header
      /\ \A i \in Slot : InFlightFor(i)' \subseteq InFlightFor(i)
      /\ \A i \in Slot : InFlightFor(i) \subseteq Header
  BY Zenon, FewerInFlight DEF InFlight, InFlightFor
<1>2. ShareKept'
  <2> SUFFICES ASSUME NEW i \in Slot
               PROVE  Cardinality(InFlightFor(i)') <= MaxRequests
    BY Zenon DEF ShareKept
  <2>1. InFlightFor(i)' \subseteq InFlightFor(i) /\ InFlightFor(i) \subseteq Header
    BY Zenon, <1>1
  <2>2. /\ Cardinality(InFlightFor(i)') <= Cardinality(InFlightFor(i))
        /\ Cardinality(InFlightFor(i)') \in Nat /\ Cardinality(InFlightFor(i)) \in Nat
    BY Zenon, <2>1, SubsetSmaller, HeaderFinite
  <2>3. Cardinality(InFlightFor(i)) <= MaxRequests /\ MaxRequests \in Nat
    BY Zenon, DownloadAssumption DEF ShareKept
  <2> QED
    BY <2>2, <2>3
<1>3. ASSUME delivered' = delivered PROVE WindowKept'
  <2>1. /\ Cardinality(InFlight') <= Cardinality(InFlight)
        /\ Cardinality(InFlight') \in Nat /\ Cardinality(InFlight) \in Nat
    BY Zenon, <1>1, SubsetSmaller, HeaderFinite
  <2>2. Cardinality(delivered) \in Nat
    BY Zenon, HeaderFinite DEF ScheduleTypes
  <2> DEFINE bound == MaxUnstored + MaxRequests * Cardinality(Slot)
  <2>3. bound \in Nat
    <3>1. MaxUnstored \in Nat /\ MaxRequests \in Nat /\ Cardinality(Slot) \in Nat
      BY Zenon, DownloadAssumption, FS_CardinalityType
    <3> QED
      BY <3>1
  <2>4. Cardinality(delivered) + Cardinality(InFlight) < bound
    BY Zenon DEF WindowKept
  <2> HIDE DEF bound
  <2>5. Cardinality(delivered) + Cardinality(InFlight') < bound
    BY <2>1, <2>2, <2>3, <2>4
  <2> QED
    BY Zenon, <2>5, <1>3 DEF WindowKept, bound
<1> QED
  BY Zenon, <1>2, <1>3

(* A step that asks for nothing and receives no block.                     *)
LEMMA TidyStep ==
    ASSUME DownloadInv, NEW t, Tidy(Rows, t), row' = t.row, fly' = t.fly,
           UNCHANGED <<made, slot, hold, delivered, panic>>, Disconnects,
           \/ inbox' = inbox
           \/ inbox # <<>> /\ inbox' = Tail(inbox) /\ Head(inbox)[2].kind # "block",
           ch.pc = "asked" => row'[ch.i].dl,
           known' \subseteq Tree, ch' \in Position, ch'.pc \in Walking => ch'.i \in Slot
    PROVE  DownloadInv'
<1>1. /\ LinkTypes /\ ScheduleTypes /\ InFlightIsOwed /\ InFlightHasClock
      /\ ShareKept /\ WindowKept /\ OtherAssertionsHold
  BY Zenon DEF DownloadInv
<1>2. TakesOne
  BY Zenon DEF TakesOne
<1>3. LinkTypes'
  BY Zenon, <1>1, <1>2, LinkTypesKept
<1>4. ScheduleTypes'
  <2>1. t \in Table
    BY Zenon DEF Tidy
  <2>2. t = [row |-> row', fly |-> fly']
    BY Zenon, <2>1, TableShape
  <2>3. Rows' = t /\ Table' = Table
    BY Zenon, <2>2 DEF Rows, Table, Row
  <2> QED
    BY Zenon, <1>1, <2>1, <2>3 DEF ScheduleTypes
<1>5. ASSUME NEW h \in Header, fly'[h] # 0, NEW x,
             x = <<fly[h], [kind |-> "block", hash |-> h]>>, x \in Range(inbox)
      PROVE  x \in Range(inbox')
  <2>1. CASE inbox' = inbox
    BY Zenon, <1>5, <2>1
  <2>2. CASE inbox # <<>> /\ inbox' = Tail(inbox) /\ Head(inbox)[2].kind # "block"
    <3>1. x[2].kind = "block"
      BY Zenon, <1>5
    <3>2. x # Head(inbox)
      BY Zenon, <3>1, <2>2
    <3> QED
      BY Zenon, <1>1, <1>5, <2>2, <3>2, TailKeeps DEF LinkTypes
  <2> QED
    BY Zenon, <2>1, <2>2
<1>6. InFlightIsOwed'
  BY Zenon, <1>1, <1>5, OwedKept
<1>7. InFlightHasClock'
  BY Zenon, <1>1, ClockKept
<1>8. ShareKept' /\ WindowKept'
  BY Zenon, <1>1, BoundsKept
<1> QED
  BY Zenon, <1>1, <1>3, <1>4, <1>6, <1>7, <1>8 DEF DownloadInv, OtherAssertionsHold

-----------------------------------------------------------------------------
(* Where the pass goes.                                                    *)

Fits(c) == c \in Position /\ (c.pc \in Walking => c.i \in Slot)

(* Slots are positive numbers, finitely many.                              *)
LEMMA SlotFacts ==
    /\ Slot \subseteq Nat /\ 0 \notin Slot /\ 1 \in Slot /\ IsFiniteSet(Slot)
    /\ FullRelay \subseteq Slot
    /\ Preferred \in Nat /\ \A s : SyncsStarted(s) \in Nat
<1>1. /\ IsFiniteSet(Slot) /\ Cardinality(Slot) \in Nat
      /\ Slot = 1 .. Cardinality(Slot) /\ Slot # {}
  BY Zenon, FS_CardinalityType, DownloadAssumption
<1>2. Slot \subseteq Nat /\ 0 \notin Slot /\ 1 \in Slot
  BY <1>1
<1>3. ASSUME NEW S, S \subseteq Slot PROVE Cardinality(S) \in Nat
  BY Zenon, <1>1, <1>3, FS_Subset, FS_CardinalityType
<1>4. Preferred \in Nat
  <2>1. {i \in Outbound : slot[i] # 0} \subseteq Slot
    BY Zenon, DownloadAssumption
  <2> QED
    BY Zenon, <2>1, <1>3 DEF Preferred
<1>5. ASSUME NEW s PROVE SyncsStarted(s) \in Nat
  BY Zenon, <1>3 DEF SyncsStarted
<1> QED
  BY Zenon, <1>1, <1>2, <1>4, <1>5, DownloadAssumption

(* The least of some slots is one of them.                                 *)
LEMMA LeastSlot ==
    ASSUME NEW js, js \subseteq Slot, js # {}
    PROVE  Min(js) \in Slot
BY Zenon, SlotFacts, LeastNumber

(* A thread that waits for a message is at no slot.                        *)
LEMMA ReceivingFits ==
    Fits(Receiving) /\ Fits([Receiving EXCEPT !.pc = "stale"])
BY Zenon DEF Fits, Receiving, Position, Walking

(* A pass over the slots that begins fits its place.                       *)
LEMMA BeginFits ==
    Fits(Begin("blocks", "stale")) /\ Fits(Begin("timeouts", "stale"))
<1> DEFINE bs == {j \in Slot : Visits("blocks", j)}
           ts == {j \in Slot : Visits("timeouts", j)}
<1>1. bs # {} => Min(bs) \in Slot
  <2>1. bs \subseteq Slot
    BY Zenon
  <2> HIDE DEF bs
  <2> QED
    BY Zenon, <2>1, LeastSlot
<1>2. ts # {} => Min(ts) \in Slot
  <2>1. ts \subseteq Slot
    BY Zenon
  <2> HIDE DEF ts
  <2> QED
    BY Zenon, <2>1, LeastSlot
<1>3. /\ Begin("blocks", "stale") =
            IF bs = {} THEN [Receiving EXCEPT !.pc = "stale"]
            ELSE [Receiving EXCEPT !.pc = "blocks", !.i = Min(bs), !.preferred = Preferred]
      /\ Begin("timeouts", "stale") =
            IF ts = {} THEN [Receiving EXCEPT !.pc = "stale"]
            ELSE [Receiving EXCEPT !.pc = "timeouts", !.i = Min(ts), !.preferred = Preferred]
  BY Zenon DEF Begin
<1> HIDE DEF bs, ts
<1>4. ASSUME NEW k \in Slot
      PROVE  /\ Fits([Receiving EXCEPT !.pc = "blocks", !.i = k, !.preferred = Preferred])
             /\ Fits([Receiving EXCEPT !.pc = "timeouts", !.i = k, !.preferred = Preferred])
  BY Zenon, SlotFacts DEF Fits, Receiving, Position, Walking
<1> QED
  BY Zenon, <1>1, <1>2, <1>3, <1>4, ReceivingFits

(* So does one that goes on.                                               *)
LEMMA GoOnFits ==
    ASSUME ScheduleTypes
    PROVE  /\ Fits(GoOn("headers", Begin("blocks", "stale")))
           /\ Fits(GoOn("blocks", Begin("timeouts", "stale")))
           /\ Fits(GoOn("timeouts", [Receiving EXCEPT !.pc = "stale"]))
<1> DEFINE hs == {j \in Slot : j > ch.i /\ Visits("headers", j)}
           bs == {j \in Slot : j > ch.i /\ Visits("blocks", j)}
           ts == {j \in Slot : j > ch.i /\ Visits("timeouts", j)}
<1>1. hs # {} => Min(hs) \in Slot
  <2>1. hs \subseteq Slot
    BY Zenon
  <2> HIDE DEF hs
  <2> QED
    BY Zenon, <2>1, LeastSlot
<1>2. bs # {} => Min(bs) \in Slot
  <2>1. bs \subseteq Slot
    BY Zenon
  <2> HIDE DEF bs
  <2> QED
    BY Zenon, <2>1, LeastSlot
<1>3. ts # {} => Min(ts) \in Slot
  <2>1. ts \subseteq Slot
    BY Zenon
  <2> HIDE DEF ts
  <2> QED
    BY Zenon, <2>1, LeastSlot
<1>4. /\ GoOn("headers", Begin("blocks", "stale")) =
            IF hs = {} THEN Begin("blocks", "stale")
            ELSE [ch EXCEPT !.pc = "headers", !.i = Min(hs), !.conn = 0]
      /\ GoOn("blocks", Begin("timeouts", "stale")) =
            IF bs = {} THEN Begin("timeouts", "stale")
            ELSE [ch EXCEPT !.pc = "blocks", !.i = Min(bs), !.conn = 0]
      /\ GoOn("timeouts", [Receiving EXCEPT !.pc = "stale"]) =
            IF ts = {} THEN [Receiving EXCEPT !.pc = "stale"]
            ELSE [ch EXCEPT !.pc = "timeouts", !.i = Min(ts), !.conn = 0]
  BY Zenon DEF GoOn
<1> HIDE DEF hs, bs, ts
<1>5. ASSUME NEW k \in Slot
      PROVE  /\ Fits([ch EXCEPT !.pc = "headers", !.i = k, !.conn = 0])
             /\ Fits([ch EXCEPT !.pc = "blocks", !.i = k, !.conn = 0])
             /\ Fits([ch EXCEPT !.pc = "timeouts", !.i = k, !.conn = 0])
  BY Zenon DEF ScheduleTypes, Fits, Position, Walking
<1> QED
  BY Zenon, <1>1, <1>2, <1>3, <1>4, <1>5, ReceivingFits, BeginFits

(* The slot the pass has come to.                                          *)
LEMMA AtSlot ==
    ASSUME ScheduleTypes
    PROVE  /\ ch.pc = "headers" \/ ch.pc = "started" \/ ch.pc = "blocks"
              \/ ch.pc = "asked" \/ ch.pc = "timeouts" => ch.i \in Slot
           /\ Rows \in Table /\ row \in [Slot -> Row]
           /\ fly \in [Header -> Slot \cup {0}] /\ known \subseteq Tree
BY Zenon DEF ScheduleTypes, Walking, Table, Rows

(* The form most steps have.                                               *)
LEMMA QuietStep ==
    ASSUME DownloadInv, NEW t, Tidy(Rows, t), row' = t.row, fly' = t.fly,
           UNCHANGED <<made, slot, hold, inbox, delivered, known, panic>>, Disconnects,
           ch.pc = "asked" => row'[ch.i].dl, Fits(ch')
    PROVE  DownloadInv'
<1>1. known' \subseteq Tree
  BY Zenon DEF DownloadInv, ScheduleTypes
<1> QED
  BY Zenon, <1>1, TidyStep DEF Fits

-----------------------------------------------------------------------------
(* The steps of a pass, but for the request itself.                        *)

(* Matching rows to connections keeps the invariant.                       *)
LEMMA ReconcileInv == ASSUME DownloadInv, Reconcile PROVE DownloadInv'
<1> DEFINE all == [row |-> [i \in Slot |-> Matched(Rows, i).row[i]],
                   fly |-> [h \in Header |->
                              IF fly[h] # 0 /\ row[fly[h]].conn # slot[fly[h]]
                              THEN 0 ELSE fly[h]]]
<1>1. LinkTypes /\ ScheduleTypes
  BY Zenon DEF DownloadInv
<1>2. row' = all.row /\ fly' = all.fly
  BY Zenon DEF Reconcile, Become
<1>3. ASSUME NEW i \in Slot
      PROVE  /\ Matched(Rows, i).row[i] \in Row
             /\ row[i].conn = slot[i] => Matched(Rows, i).row[i] = row[i]
  <2>1. Matched(Rows, i) \in Table
    BY Zenon, <1>1, AtSlot, TidyMatched
  <2> QED
    BY Zenon, <2>1, TableShape DEF Matched, Rows
<1>4. all.row \in [Slot -> Row] /\ all.fly \in [Header -> Slot \cup {0}]
  BY Zenon, <1>1, <1>3, AtSlot
<1>5. all \in Table
  BY Zenon, <1>4 DEF Table
<1>6. Tidy(Rows, all)
  <2> SUFFICES ASSUME NEW h \in Header, all.fly[h] # 0
               PROVE  /\ all.fly[h] = fly[h]
                      /\ all.row[fly[h]] = row[fly[h]]
    BY Zenon, <1>5 DEF Tidy, Rows
  <2>1. all.fly[h] = fly[h] /\ fly[h] \in Slot /\ row[fly[h]].conn = slot[fly[h]]
    BY Zenon, <1>1, AtSlot
  <2> QED
    BY Zenon, <1>3, <2>1
<1>7. Fits(ch')
  <2>1. SyncsStarted(all) \in Nat /\ Preferred \in Nat /\ 1 \in Slot
    BY Zenon, SlotFacts
  <2> HIDE DEF all
  <2>2. PICK recent \in {FALSE, (best \in Young)} :
              ch' = [Receiving EXCEPT !.pc = "headers", !.i = 1, !.recent = recent,
                                      !.preferred = Preferred,
                                      !.syncing = SyncsStarted(all)]
    BY Zenon DEF Reconcile, all
  <2>3. recent \in BOOLEAN
    <3> DEFINE y == best \in Young
    <3>1. y \in BOOLEAN
      OBVIOUS
    <3>2. recent = FALSE \/ recent = y
      BY Zenon, <2>2
    <3> HIDE DEF y
    <3> QED
      BY Zenon, <3>1, <3>2
  <2> QED
    BY Zenon, <2>1, <2>2, <2>3 DEF Fits, Receiving, Position, Walking
<1>8. /\ UNCHANGED <<made, slot, hold, inbox, delivered, known, panic>>
      /\ Disconnects /\ ch.pc # "asked"
  BY Zenon DEF Reconcile, Disconnects
<1> HIDE DEF all
<1> QED
  BY Zenon, <1>2, <1>6, <1>7, <1>8, QuietStep

(* Choosing whom to ask for headers keeps the invariant.                   *)
LEMMA AskForHeadersInv == ASSUME DownloadInv, AskForHeaders PROVE DownloadInv'
<1> DEFINE i == ch.i
           m == Matched(Rows, i)
           announced == [m EXCEPT !.row[i].sent = TRUE]
<1>1. LinkTypes /\ ScheduleTypes /\ ch.pc = "headers"
  BY Zenon DEF DownloadInv, AskForHeaders
<1>2. i \in Slot /\ Rows \in Table
  BY Zenon, <1>1, AtSlot
<1>3. Tidy(Rows, Rows) /\ Tidy(Rows, announced)
  <2>1. Tidy(Rows, m) /\ m \in Table
    BY Zenon, <1>1, <1>2, TidyMatched
  <2> HIDE DEF m, i
  <2>2. Tidy(m, announced)
    BY Zenon, <1>2, <2>1, TidyFlags
  <2> HIDE DEF announced
  <2> QED
    BY Zenon, <1>2, <2>1, <2>2, TidySelf, TidyTwice
<1>4. \/ row' = Rows.row /\ fly' = Rows.fly
      \/ row' = announced.row /\ fly' = announced.fly
  BY Zenon DEF AskForHeaders, Become, Rows
<1>5. Fits(ch')
  <2>1. Fits([ch EXCEPT !.pc = "started"])
    BY Zenon, <1>1, <1>2 DEF ScheduleTypes, Fits, Position, Walking
  <2>2. \/ ch' = [ch EXCEPT !.pc = "started"]
        \/ ch' = GoOn("headers", Begin("blocks", "stale"))
    BY Zenon DEF AskForHeaders
  <2> QED
    BY Zenon, <1>1, <2>1, <2>2, GoOnFits
<1>6. /\ UNCHANGED <<made, slot, hold, inbox, delivered, known, panic>>
      /\ ch.pc # "asked"
  BY Zenon DEF AskForHeaders
<1>7. Disconnects
  BY Zenon, <1>2 DEF AskForHeaders, Disconnects, Sent
<1> HIDE DEF announced
<1> QED
  BY Zenon, <1>3, <1>4, <1>5, <1>6, <1>7, QuietStep

(* The getheaders sent keeps the invariant.                                *)
LEMMA HeadersAskedInv == ASSUME DownloadInv, HeadersAsked PROVE DownloadInv'
<1> DEFINE i == ch.i
           m == Matched(Rows, i)
           a == [m EXCEPT !.row[i].gh = TRUE]
           b == [a EXCEPT !.row[i].started = TRUE]
           t == [b EXCEPT !.row[i].deadline = TRUE]
<1>1. LinkTypes /\ ScheduleTypes /\ ch.pc = "started"
  BY Zenon DEF DownloadInv, HeadersAsked
<1>2. i \in Slot /\ Rows \in Table
  BY Zenon, <1>1, AtSlot
<1>3. Tidy(Rows, t)
  <2>1. Tidy(Rows, m) /\ m \in Table
    BY Zenon, <1>1, <1>2, TidyMatched
  <2> HIDE DEF m, i
  <2>2. Tidy(m, a)
    BY Zenon, <1>2, <2>1, TidyFlags
  <2> HIDE DEF a
  <2>3. a \in Table
    BY Zenon, <2>2 DEF Tidy
  <2>4. Tidy(a, b)
    BY Zenon, <1>2, <2>3, TidyFlags
  <2> HIDE DEF b
  <2>5. b \in Table
    BY Zenon, <2>4 DEF Tidy
  <2>6. Tidy(b, t)
    BY Zenon, <1>2, <2>5, TidyFlags
  <2> HIDE DEF t
  <2> QED
    BY Zenon, <2>1, <2>2, <2>4, <2>6, TidyTwice
<1>4. row' = t.row /\ fly' = t.fly
  BY Zenon DEF HeadersAsked, Become
<1> DEFINE n == GoOn("headers", Begin("blocks", "stale"))
<1>5. Fits(ch')
  <2>1. Fits(n)
    BY Zenon, <1>1, GoOnFits
  <2>2. ch' = IF n.pc = "headers" THEN [n EXCEPT !.syncing = @ + 1] ELSE n
    BY Zenon DEF HeadersAsked
  <2> HIDE DEF n
  <2> QED
    BY <2>1, <2>2 DEF Fits, Position, Walking
<1>6. /\ UNCHANGED <<made, slot, hold, inbox, delivered, known, panic>>
      /\ Disconnects /\ ch.pc # "asked"
  BY Zenon DEF HeadersAsked, Disconnects, lvars
<1> HIDE DEF t
<1> QED
  BY Zenon, <1>3, <1>4, <1>5, <1>6, QuietStep

(* A slot with nothing to ask keeps the invariant.                         *)
LEMMA BlocksAskedInv == ASSUME DownloadInv, BlocksAsked PROVE DownloadInv'
<1> DEFINE i == ch.i
           m == Matched(Rows, i)
           t == [m EXCEPT !.row[i].dl = TRUE]
<1>1. LinkTypes /\ ScheduleTypes /\ ch.pc = "asked"
  BY Zenon DEF DownloadInv, BlocksAsked
<1>2. i \in Slot /\ Rows \in Table
  BY Zenon, <1>1, AtSlot
<1>3. Tidy(Rows, t) /\ t.row[i].dl
  <2>1. Tidy(Rows, m) /\ m \in Table
    BY Zenon, <1>1, <1>2, TidyMatched
  <2> HIDE DEF m, i
  <2>2. Tidy(m, t) /\ t.row[i].dl
    BY Zenon, <1>2, <2>1, TidyFlags
  <2> HIDE DEF t
  <2> QED
    BY Zenon, <2>1, <2>2, TidyTwice
<1>4. row' = t.row /\ fly' = t.fly
  BY Zenon DEF BlocksAsked, Become
<1>5. Fits(ch')
  BY Zenon, <1>1, GoOnFits DEF BlocksAsked
<1>6. UNCHANGED <<made, slot, hold, inbox, delivered, known, panic>>
  BY Zenon DEF BlocksAsked
<1>7. Disconnects
  BY Zenon, <1>2 DEF BlocksAsked, Disconnects, Sent
<1> HIDE DEF t
<1> QED
  BY Zenon, <1>3, <1>4, <1>5, <1>6, <1>7, QuietStep

(* There is a slot that has told the least.                                *)
LEMMA ReplaceDisconnects ==
    ASSUME LinkTypes, ScheduleTypes, ReplaceStale PROVE Disconnects
<1>1. PICK old : /\ old \subseteq FullRelay /\ old # {}
                 /\ link' = Ended(Min({i \in old : \A j \in old : Told(i) <= Told(j)}))
  BY Zenon DEF ReplaceStale
<1> DEFINE low == {i \in old : \A j \in old : Told(i) <= Told(j)}
           tolds == {Told(i) : i \in old}
<1>2. old \subseteq Slot /\ old # {}
  BY Zenon, <1>1, SlotFacts
<1>3. \A i \in Slot : Told(i) \in Nat
  BY Zenon, AtSlot, HeightFacts DEF Told, Row
<1>4. tolds \subseteq Nat /\ tolds # {}
  BY Zenon, <1>2, <1>3
<1>5. PICK n \in tolds : \A k \in tolds : n <= k
  <2> HIDE DEF tolds
  <2> QED
    BY Zenon, <1>4, LeastNumber
<1>6. low # {} /\ low \subseteq Slot
  BY <1>2, <1>5
<1> HIDE DEF low
<1> QED
  BY Zenon, <1>1, <1>6, LeastSlot DEF low, Disconnects

(* The steps that leave the rows alone.                                    *)
LEMMA IdleInv ==
    ASSUME DownloadInv,
           AskForNoBlocks \/ InTime \/ TipIsNotStale \/ ReplaceStale
               \/ \E i \in Slot : DownloadTimesOut(i)
    PROVE  DownloadInv'
<1>1. LinkTypes /\ ScheduleTypes
  BY Zenon DEF DownloadInv
<1>2. Tidy(Rows, Rows)
  BY Zenon, <1>1, AtSlot, TidySelf
<1>3. /\ row' = Rows.row /\ fly' = Rows.fly
      /\ UNCHANGED <<made, slot, hold, inbox, delivered, known, panic>>
      /\ ch.pc # "asked"
  BY Zenon DEF AskForNoBlocks, InTime, TipIsNotStale, ReplaceStale, DownloadTimesOut, Rows, lvars
<1>4. Fits(ch')
  BY Zenon, <1>1, GoOnFits, BeginFits, ReceivingFits
  DEF AskForNoBlocks, InTime, TipIsNotStale, ReplaceStale, DownloadTimesOut
<1>5. CASE ~ReplaceStale
  <2>1. Disconnects
    BY Zenon, <1>5 DEF AskForNoBlocks, InTime, TipIsNotStale, DownloadTimesOut, Disconnects, lvars
  <2> QED
    BY Zenon, <1>2, <1>3, <1>4, <2>1, QuietStep
<1>6. CASE ReplaceStale
  <2>1. Disconnects
    BY Zenon, <1>1, <1>6, ReplaceDisconnects
  <2> QED
    BY Zenon, <1>2, <1>3, <1>4, <2>1, QuietStep
<1> QED
  BY Zenon, <1>5, <1>6

(* Disconnecting a staller or a peer past its deadline keeps the           *)
(* invariant.                                                              *)
LEMMA StalledInv == ASSUME DownloadInv, Stalled PROVE DownloadInv'
<1> DEFINE i == ch.i
           m == Matched(Rows, i)
           t == [m EXCEPT !.row[i].stall = FALSE]
<1>1. LinkTypes /\ ScheduleTypes /\ ch.pc = "timeouts"
  BY Zenon DEF DownloadInv, Stalled
<1>2. i \in Slot /\ Rows \in Table
  BY Zenon, <1>1, AtSlot
<1>3. Tidy(Rows, t)
  <2>1. Tidy(Rows, m) /\ m \in Table
    BY Zenon, <1>1, <1>2, TidyMatched
  <2> HIDE DEF m, i
  <2>2. Tidy(m, t)
    BY Zenon, <1>2, <2>1, TidyFlags
  <2> HIDE DEF t
  <2> QED
    BY Zenon, <2>1, <2>2, TidyTwice
<1>4. row' = t.row /\ fly' = t.fly
  BY Zenon DEF Stalled, Become
<1>5. Fits(ch')
  BY Zenon, <1>1, GoOnFits DEF Stalled
<1>6. UNCHANGED <<made, slot, hold, inbox, delivered, known, panic>>
  BY Zenon DEF Stalled
<1>7. Disconnects
  BY Zenon, <1>2 DEF Stalled, Disconnects
<1> HIDE DEF t
<1> QED
  BY Zenon, <1>1, <1>3, <1>4, <1>5, <1>6, <1>7, QuietStep

(* Disconnecting a peer that sends no headers keeps the invariant.         *)
LEMMA HeadersTimeOutInv == ASSUME DownloadInv, HeadersTimeOut PROVE DownloadInv'
<1> DEFINE i == ch.i
           m == Matched(Rows, i)
           t == [m EXCEPT !.row[i].deadline = FALSE]
<1>1. LinkTypes /\ ScheduleTypes /\ ch.pc = "timeouts"
  BY Zenon DEF DownloadInv, HeadersTimeOut
<1>2. i \in Slot /\ Rows \in Table
  BY Zenon, <1>1, AtSlot
<1>3. Tidy(Rows, t) /\ Tidy(Rows, Rows)
  <2>1. Tidy(Rows, m) /\ m \in Table
    BY Zenon, <1>1, <1>2, TidyMatched
  <2> HIDE DEF m, i
  <2>2. Tidy(m, t)
    BY Zenon, <1>2, <2>1, TidyFlags
  <2> HIDE DEF t
  <2> QED
    BY Zenon, <1>2, <2>1, <2>2, TidyTwice, TidySelf
<1>4. \/ row' = t.row /\ fly' = t.fly
      \/ row' = Rows.row /\ fly' = Rows.fly
  BY Zenon DEF HeadersTimeOut, Become, Rows
<1>5. Fits(ch')
  BY Zenon, <1>1, GoOnFits DEF HeadersTimeOut
<1>6. UNCHANGED <<made, slot, hold, inbox, delivered, known, panic>>
  BY Zenon DEF HeadersTimeOut
<1>7. Disconnects
  BY Zenon, <1>2 DEF HeadersTimeOut, Disconnects
<1> HIDE DEF t
<1> QED
  BY Zenon, <1>1, <1>3, <1>4, <1>5, <1>6, <1>7, QuietStep

-----------------------------------------------------------------------------
(* The request.                                                            *)

(* What a walk notes of the peer is tidy.                                  *)
LEMMA WalkedTidy ==
    ASSUME LinkTypes, ScheduleTypes, NEW i \in Slot, NEW walk,
           walk.common \in Tree \cup {None}, walk.staller \in Slot \cup {0}
    PROVE  Tidy(Rows, Walked(i, walk))
<1> DEFINE walked == [Rows EXCEPT !.row[i].common = walk.common]
           m == Matched(walked, walk.staller)
           marked == [m EXCEPT !.row[walk.staller].stall = TRUE]
<1>1. Tidy(Rows, walked)
  <2> DEFINE c == walk.common
  <2>1. c \in Tree \cup {None} /\ Rows \in Table
    BY Zenon, AtSlot
  <2> HIDE DEF c
  <2> QED
    BY Zenon, <2>1, TidyHeaders DEF c
<1> HIDE DEF walked
<1>2. walked \in Table
  BY Zenon, <1>1 DEF Tidy
<1>3. ASSUME walk.staller \in Slot PROVE Tidy(Rows, marked)
  <2>1. Tidy(walked, m) /\ m \in Table
    BY Zenon, <1>2, <1>3, TidyMatched
  <2> HIDE DEF m
  <2>2. Tidy(m, marked)
    BY Zenon, <1>3, <2>1, TidyFlags
  <2> HIDE DEF marked
  <2> QED
    BY Zenon, <1>1, <2>1, <2>2, TidyTwice
<1>4. \/ Walked(i, walk) = walked
      \/ walk.staller # 0 /\ Walked(i, walk) = marked
  BY Zenon DEF Walked, walked
<1> HIDE DEF marked
<1> QED
  BY Zenon, <1>1, <1>3, <1>4

(* Requesting blocks that nobody was asked for, within the peer's share,   *)
(* keeps the invariant.                                                    *)
LEMMA RequestInv ==
    ASSUME DownloadInv, ch.pc = "blocks", NEW i \in Slot, ch.i = i, slot[i] # 0,
           NEW blocks, blocks \subseteq {h \in Header : fly[h] = 0},
           Cardinality(blocks) + Cardinality(InFlightFor(i)) <= MaxRequests,
           Cardinality(delivered) < MaxUnstored,
           NEW t, Tidy(Rows, t), Request(i, blocks, t),
           UNCHANGED <<made, slot, hold, inbox, delivered, known>>
    PROVE  DownloadInv'
<1>1. /\ LinkTypes /\ ScheduleTypes /\ InFlightIsOwed /\ InFlightHasClock
      /\ ShareKept /\ OtherAssertionsHold
      /\ blocks \subseteq Header /\ t \in Table
  BY Zenon DEF DownloadInv, Tidy
<1>2. /\ row' = t.row
      /\ fly' = [h \in Header |-> IF h \in blocks THEN i ELSE t.fly[h]]
      /\ link' = [link EXCEPT ![i].requests = @ \cup blocks]
      /\ ch' = [ch EXCEPT !.pc = "asked", !.conn = slot[i]]
  BY Zenon DEF Request
<1>3. /\ t.row \in [Slot -> Row] /\ t.fly \in [Header -> Slot \cup {0}]
      /\ fly \in [Header -> Slot \cup {0}] /\ 0 \notin Slot
  BY Zenon, <1>1, TableShape, AtSlot, SlotFacts
<1>4. fly' \in [Header -> Slot \cup {0}]
  BY Zenon, <1>2, <1>3
<1>5. LinkTypes'
  <2>1. [link[i] EXCEPT !.requests = @ \cup blocks] \in LinkState
    <3>1. link[i] \in LinkState /\ link[i].requests \cup blocks \in SUBSET Header
      BY Zenon, <1>1 DEF LinkTypes, LinkState
    <3> QED
      BY Zenon, <3>1 DEF LinkState
  <2>2. link' \in [Slot -> LinkState]
    BY Zenon, <1>1, <1>2, <2>1 DEF LinkTypes
  <2> QED
    BY Zenon, <1>1, <2>2 DEF LinkTypes
<1>6. ScheduleTypes'
  <2>1. Rows' \in Table
    <3>1. row' \in [Slot -> Row]
      BY Zenon, <1>2, <1>3
    <3> QED
      BY Zenon, <3>1, <1>4 DEF Rows, Table
  <2>2. Table' = Table
    BY Zenon DEF Table, Row
  <2>3. ch' \in Position /\ ch'.i = i
    <3>1. slot[i] \in Nat /\ ch \in Position
      BY <1>1 DEF LinkTypes, ScheduleTypes
    <3> QED
      BY Zenon, <1>2, <3>1 DEF Position, Walking
  <2> QED
    BY Zenon, <1>1, <2>1, <2>2, <2>3 DEF ScheduleTypes
<1>7. ASSUME NEW h \in Header, h \notin blocks, fly'[h] # 0
      PROVE  /\ fly'[h] = fly[h] /\ fly[h] \in Slot
             /\ row[fly[h]].dl => row'[fly[h]].dl
             /\ row'[fly[h]].conn = row[fly[h]].conn
  BY <1>2, <1>3, <1>7 DEF Tidy, Rows
<1>8. InFlightIsOwed'
  <2> SUFFICES ASSUME NEW h \in Header, NEW j, j = fly'[h], j # 0, NEW block,
                      block = [kind |-> "block", hash |-> h]
               PROVE  \/ h \in link'[j].requests \/ link'[j].doomed
                      \/ hold'[j] = <<block>> \/ <<j, block>> \in Range(inbox')
                      \/ slot'[j] = 0 \/ row'[j].conn # slot'[j]
    BY Zenon DEF InFlightIsOwed
  <2>0. /\ link'[i].requests = link[i].requests \cup blocks
        /\ \A k \in Slot : /\ link[k].requests \subseteq link'[k].requests
                           /\ link'[k].doomed = link[k].doomed
    BY <1>1, <1>2 DEF LinkTypes, LinkState
  <2>1. CASE h \in blocks
    BY Zenon, <1>2, <2>0, <2>1
  <2>2. CASE h \notin blocks
    <3>1. j \in Slot /\ j = fly[h] /\ row'[j].conn = row[j].conn
      BY Zenon, <1>7, <2>2
    <3>2. \/ h \in link[j].requests \/ link[j].doomed
          \/ hold[j] = <<block>> \/ <<j, block>> \in Range(inbox)
          \/ slot[j] = 0 \/ row[j].conn # slot[j]
      BY Zenon, <1>1, <3>1 DEF InFlightIsOwed
    <3> QED
      BY Zenon, <2>0, <3>1, <3>2
  <2> QED
    BY Zenon, <2>1, <2>2
<1>9. InFlightHasClock'
  <2> SUFFICES ASSUME NEW h \in Header, fly'[h] # 0
               PROVE  row'[fly'[h]].dl \/ (ch'.pc = "asked" /\ ch'.i = fly'[h])
    BY Zenon DEF InFlightHasClock
  <2>0. ch'.pc = "asked" /\ ch'.i = i
    BY Zenon, <1>1, <1>2 DEF ScheduleTypes, Position
  <2>1. CASE h \in blocks
    BY Zenon, <1>2, <2>0, <2>1
  <2>2. CASE h \notin blocks
    BY Zenon, <1>1, <1>7, <2>2 DEF InFlightHasClock
  <2> QED
    BY Zenon, <2>1, <2>2
<1>10. ShareKept'
  <2> SUFFICES ASSUME NEW j \in Slot
               PROVE  Cardinality(InFlightFor(j)') <= MaxRequests
    BY Zenon DEF ShareKept
  <2>1. InFlightFor(j) \subseteq Header /\ MaxRequests \in Nat
    BY Zenon, DownloadAssumption DEF InFlightFor
  <2>2. CASE j # i
    <3>1. InFlightFor(j)' \subseteq InFlightFor(j)
      BY Zenon, <1>2, <1>3, <1>7, <2>2 DEF InFlightFor
    <3>2. /\ Cardinality(InFlightFor(j)') <= Cardinality(InFlightFor(j))
          /\ Cardinality(InFlightFor(j)') \in Nat /\ Cardinality(InFlightFor(j)) \in Nat
      BY Zenon, <2>1, <3>1, SubsetSmaller, HeaderFinite
    <3>3. Cardinality(InFlightFor(j)) <= MaxRequests
      BY Zenon, <1>1 DEF ShareKept
    <3> QED
      BY <2>1, <3>2, <3>3
  <2>3. CASE j = i
    <3> DEFINE A == InFlightFor(i)
               B == A \cup blocks
    <3>1. InFlightFor(j)' \subseteq B /\ B \subseteq Header /\ A \subseteq Header
      BY Zenon, <1>1, <1>3, <1>7, <2>1, <2>3 DEF InFlightFor
    <3> HIDE DEF A
    <3>2. /\ IsFiniteSet(A) /\ IsFiniteSet(blocks)
          /\ Cardinality(A) \in Nat /\ Cardinality(blocks) \in Nat
          /\ Cardinality(A \cap blocks) \in Nat
      <4>1. A \cap blocks \subseteq Header
        BY Zenon, <3>1
      <4> QED
        BY Zenon, <1>1, <3>1, <4>1, HeaderFinite
    <3>3. Cardinality(B) = Cardinality(A) + Cardinality(blocks) - Cardinality(A \cap blocks)
      BY Zenon, <3>2, FS_Union
    <3> HIDE DEF B
    <3>4. Cardinality(InFlightFor(j)') <= Cardinality(B) /\ Cardinality(InFlightFor(j)') \in Nat
      BY Zenon, <3>1, SubsetSmaller, HeaderFinite
    <3>5. Cardinality(blocks) + Cardinality(A) <= MaxRequests
      BY Zenon DEF A
    <3> DEFINE a == Cardinality(A)
               b == Cardinality(blocks)
               both == Cardinality(A \cap blocks)
               after == Cardinality(InFlightFor(j)')
    <3>6. /\ a \in Nat /\ b \in Nat /\ both \in Nat /\ after \in Nat /\ MaxRequests \in Nat
          /\ after <= a + b - both /\ b + a <= MaxRequests
      BY Zenon, <2>1, <3>2, <3>3, <3>4, <3>5
    <3> HIDE DEF a, b, both, after
    <3>7. after <= MaxRequests
      BY <3>6
    <3> QED
      BY Zenon, <3>7 DEF after
  <2> QED
    BY Zenon, <2>2, <2>3
<1>11. WindowKept'
  <2> DEFINE f == fly'
             share == MaxRequests * Cardinality(Slot)
  <2>1. f \in [Header -> Slot \cup {0}] /\ MaxRequests \in Nat /\ MaxUnstored \in Nat
    BY Zenon, <1>4, DownloadAssumption
  <2>2. \A j \in Slot : Cardinality({h \in Header : f[h] = j}) <= MaxRequests
    BY Zenon, <1>10 DEF ShareKept, InFlightFor
  <2> HIDE DEF f
  <2>3. Cardinality({h \in Header : f[h] # 0}) <= MaxRequests * Cardinality(Slot)
    BY Zenon, <2>1, <2>2, SharesAddUp
  <2>4. InFlight' = {h \in Header : f[h] # 0} /\ InFlight' \subseteq Header
    BY Zenon DEF f, InFlight
  <2>5. Cardinality(InFlight') <= share /\ Cardinality(InFlight') \in Nat
    <3>1. Cardinality(InFlight') <= share
      BY Zenon, <2>3, <2>4
    <3> QED
      BY Zenon, <3>1, <2>4, HeaderFinite
  <2>6. share \in Nat
    <3>1. Cardinality(Slot) \in Nat
      BY Zenon, FS_CardinalityType, DownloadAssumption
    <3> QED
      BY <3>1, <2>1
  <2>7. Cardinality(delivered) \in Nat
    BY Zenon, <1>1, HeaderFinite DEF ScheduleTypes
  <2> HIDE DEF share
  <2>8. Cardinality(delivered) + Cardinality(InFlight') < MaxUnstored + share
    BY SMTT(20), <2>1, <2>5, <2>6, <2>7
  <2> QED
    BY Zenon, <2>8 DEF WindowKept, share
<1>12. OtherAssertionsHold'
  <2>1. ~ \E h \in blocks : fly[h] # 0
    BY Zenon
  <2> QED
    BY Zenon, <2>1 DEF OtherAssertionsHold, Request
<1> QED
  BY ZenonT(30), <1>5, <1>6, <1>8, <1>9, <1>10, <1>11, <1>12 DEF DownloadInv

(* Asking a slot for blocks keeps the invariant.                           *)
LEMMA AskForBlocksInv == ASSUME DownloadInv, AskForBlocks PROVE DownloadInv'
<1> DEFINE i == ch.i
           walk == WalkFor(i)
           t == Walked(i, walk)
<1>1. LinkTypes /\ ScheduleTypes /\ ShareKept /\ ch.pc = "blocks"
  BY Zenon DEF DownloadInv, AskForBlocks
<1>2. i \in Slot /\ Rows \in Table
  BY Zenon, <1>1, AtSlot
<1>3. /\ walk.blocks \subseteq {h \in Header : fly[h] = 0}
      /\ Cardinality(walk.blocks) + Cardinality(InFlightFor(i)) <= MaxRequests
      /\ walk.common \in Tree \cup {None} /\ walk.staller \in Slot \cup {0}
      /\ walk.blocks # {} => slot[i] # 0
  <2> HIDE DEF i
  <2> QED
    BY Zenon, <1>1, <1>2, WalkFacts
<1>4. Tidy(Rows, t)
  <2> HIDE DEF walk, i
  <2> QED
    BY Zenon, <1>1, <1>2, <1>3, WalkedTidy
<1>5. /\ UNCHANGED <<made, slot, hold, inbox, delivered, known>>
      /\ Cardinality(delivered) < MaxUnstored
      /\ \/ /\ walk.blocks = {} /\ row' = t.row /\ fly' = t.fly /\ UNCHANGED <<link, panic>>
            /\ ch' = GoOn("blocks", Begin("timeouts", "stale"))
         \/ walk.blocks # {} /\ Request(i, walk.blocks, t)
  BY Zenon DEF AskForBlocks, Become
<1> HIDE DEF t, walk
<1>6. CASE /\ walk.blocks = {} /\ row' = t.row /\ fly' = t.fly /\ UNCHANGED <<link, panic>>
           /\ ch' = GoOn("blocks", Begin("timeouts", "stale"))
  <2>1. Fits(ch') /\ Disconnects
    BY Zenon, <1>1, <1>6, GoOnFits DEF Disconnects
  <2> QED
    BY Zenon, <1>1, <1>4, <1>5, <1>6, <2>1, QuietStep
<1>7. CASE walk.blocks # {} /\ Request(i, walk.blocks, t)
  <2> DEFINE blocks == walk.blocks
  <2> HIDE DEF i
  <2>1. ch.i = i
    BY Zenon DEF i
  <2>2. /\ blocks \subseteq {h \in Header : fly[h] = 0} /\ slot[i] # 0
        /\ Cardinality(blocks) + Cardinality(InFlightFor(i)) <= MaxRequests
        /\ Request(i, blocks, t)
    BY Zenon, <1>3, <1>7
  <2> HIDE DEF blocks
  <2> QED
    BY Zenon, <1>1, <1>2, <1>4, <1>5, <2>1, <2>2, RequestInv
<1> QED
  BY Zenon, <1>5, <1>6, <1>7

-----------------------------------------------------------------------------
(* The messages.                                                           *)

(* Noting an announced block is tidy.                                      *)
LEMMA NotedTidy ==
    ASSUME LinkTypes, NEW s \in Table, NEW i \in Slot, NEW h \in Tree
    PROVE  Tidy(s, Noted(s, i, h))
<1> DEFINE m == Matched(s, i)
           b == h
<1>1. Tidy(s, m) /\ m \in Table
  BY Zenon, TidyMatched
<1>2. b \in Tree \cup {None}
  BY Zenon
<1>3. Noted(s, i, h) = m \/ Noted(s, i, h) = [m EXCEPT !.row[i].best = b]
  BY Zenon DEF Noted
<1> HIDE DEF m, b
<1>4. Tidy(m, [m EXCEPT !.row[i].best = b])
  BY Zenon, <1>1, <1>2, TidyHeaders
<1> QED
  BY <1>1, <1>3, <1>4, TidyTwice

(* Sending getheaders is tidy.                                             *)
LEMMA GetheadersTidy ==
    ASSUME LinkTypes, NEW s \in Table, NEW i \in Slot, NEW u \in GetheadersSent(s, i)
    PROVE  Tidy(s, u)
<1> DEFINE m == Matched(s, i)
           asked == [m EXCEPT !.row[i].gh = TRUE]
<1>1. Tidy(s, m) /\ m \in Table
  BY Zenon, TidyMatched
<1>2. u = m \/ u = asked
  BY Zenon DEF GetheadersSent
<1> HIDE DEF m
<1>3. Tidy(m, asked)
  BY Zenon, <1>1, TidyFlags
<1> HIDE DEF asked
<1> QED
  BY <1>1, <1>2, <1>3, TidyTwice

(* The headers accepted of a message are headers.                          *)
LEMMA AcceptedFacts ==
    ASSUME NEW hs \in Seq(Header)
    PROVE  Accepted(hs) \in Seq(Header)
<1> DEFINE parents(n) == known \cup {hs[k] : k \in 1 .. n - 1}
           fits == {n \in 0 .. Len(hs) : \A k \in 1 .. n :
                        Prev[hs[k]] \in parents(k) /\ hs[k] \notin Bad}
<1>1. Accepted(hs) = SubSeq(hs, 1, Max(fits))
  BY Zenon DEF Accepted
<1>2. fits \subseteq 0 .. Len(hs) /\ 0 \in fits /\ Len(hs) \in Nat
  OBVIOUS
<1> HIDE DEF fits
<1>3. fits \subseteq Nat /\ fits # {} /\ \A n \in fits : n <= Len(hs)
  BY <1>2
<1>4. Max(fits) \in 0 .. Len(hs)
  BY Zenon, <1>2, <1>3, GreatestNumber
<1> QED
  BY <1>1, <1>4

(* The elements of a sequence.                                             *)
LEMMA RangeOfSeq ==
    ASSUME NEW S, NEW q \in Seq(S)
    PROVE  /\ Range(q) \subseteq S
           /\ q # <<>> => q[Len(q)] \in S
BY DEF Range

(* Answering a headers message is tidy.                                    *)
LEMMA HeadersTidy ==
    ASSUME LinkTypes, ScheduleTypes, NEW i \in Slot, NEW hs \in Seq(Header),
           HeadersAnswered(i, hs)
    PROVE  /\ \E s : Tidy(Rows, s) /\ row' = s.row /\ fly' = s.fly
           /\ known' \subseteq Tree /\ Disconnects /\ UNCHANGED <<delivered, panic>>
<1> DEFINE taken == Accepted(hs)
           failed == Len(taken) < Len(hs)
           unconnecting == taken = <<>> /\ failed /\ Prev[hs[1]] \notin known
           m == Matched(Rows, i)
           answered == [m EXCEPT !.row[i].gh = FALSE]
           over == [answered EXCEPT !.row[i].deadline = FALSE]
           h == taken[Len(taken)]
           noted == Noted(answered, i, h)
           done == [noted EXCEPT !.row[i].deadline = FALSE]
           More(s) == [s EXCEPT !.row[i].deadline = s.row[i].started \/ @]
<1>1. taken \in Seq(Header)
  BY Zenon, AcceptedFacts
<1>2. known' \subseteq Tree
  <2>1. known' = known \cup Range(taken)
    BY Zenon DEF HeadersAnswered
  <2> HIDE DEF taken
  <2> QED
    BY Zenon, <1>1, <2>1, RangeOfSeq, AtSlot, TreeShape
<1>3. Disconnects /\ UNCHANGED <<delivered, panic>>
  <2>1. UNCHANGED <<delivered, panic>> /\ (link' = link \/ link' = Ended(i))
    BY Zenon DEF HeadersAnswered, Sent
  <2> QED
    BY Zenon, <2>1 DEF Disconnects
<1>4. PICK s : /\ row' = s.row /\ fly' = s.fly
               /\ \/ unconnecting /\ s \in GetheadersSent(Rows, i)
                  \/ ~unconnecting /\ taken = <<>> /\ s = over
                  \/ ~unconnecting /\ taken # <<>> /\ s = done
                  \/ /\ ~unconnecting /\ taken # <<>>
                     /\ \E g \in GetheadersSent(noted, i) : s = More(g)
  BY Zenon DEF HeadersAnswered, Become
<1> HIDE DEF taken, unconnecting
<1>5. Tidy(Rows, m) /\ m \in Table /\ Rows \in Table
  BY Zenon, AtSlot, TidyMatched
<1> HIDE DEF m
<1>6. Tidy(m, answered)
  BY Zenon, <1>5, TidyFlags
<1> HIDE DEF answered
<1>7. Tidy(Rows, answered) /\ answered \in Table
  <2>1. answered \in Table
    BY Zenon, <1>6 DEF Tidy
  <2> QED
    BY Zenon, <1>5, <1>6, <2>1, TidyTwice
<1>8. CASE s \in GetheadersSent(Rows, i)
  BY Zenon, <1>2, <1>3, <1>4, <1>5, <1>8, GetheadersTidy
<1>9. CASE s = over
  <2>1. Tidy(answered, over)
    BY Zenon, <1>7, TidyFlags
  <2> HIDE DEF over
  <2> QED
    BY Zenon, <1>2, <1>3, <1>4, <1>7, <1>9, <2>1, TidyTwice
<1>10. CASE taken # <<>>
  <2>1. h \in Tree
    BY Zenon, <1>1, <1>10, RangeOfSeq, TreeShape
  <2> HIDE DEF h
  <2>2. Tidy(answered, noted)
    BY Zenon, <1>7, <2>1, NotedTidy
  <2> HIDE DEF noted
  <2>3. Tidy(Rows, noted) /\ noted \in Table
    <3>1. noted \in Table
      BY Zenon, <2>2 DEF Tidy
    <3> QED
      BY Zenon, <1>7, <2>2, <3>1, TidyTwice
  <2>4. CASE s = done
    <3>1. Tidy(noted, done)
      BY Zenon, <2>3, TidyFlags
    <3> HIDE DEF done
    <3> QED
      BY ZenonT(30), <1>2, <1>3, <1>4, <2>3, <2>4, <3>1, TidyTwice
  <2>5. CASE \E g \in GetheadersSent(noted, i) : s = More(g)
    <3>1. PICK g \in GetheadersSent(noted, i) : s = More(g)
      BY Zenon, <2>5
    <3>2. Tidy(noted, g)
      BY Zenon, <2>3, <3>1, GetheadersTidy
    <3>3. g \in Table
      BY Zenon, <3>2 DEF Tidy
    <3>4. Tidy(g, s)
      <4>1. Tidy(g, More(g))
        BY Zenon, <3>3, TidyFlags
      <4> QED
        BY Zenon, <3>1, <4>1
    <3> QED
      BY Zenon, <1>2, <1>3, <1>4, <2>3, <3>2, <3>4, TidyTwice
  <2> QED
    BY Zenon, <1>4, <1>8, <1>9, <1>10, <2>4, <2>5
<1> QED
  BY Zenon, <1>4, <1>8, <1>9, <1>10

(* Noting an announcement is tidy.                                         *)
LEMMA AnnouncedTidy ==
    ASSUME LinkTypes, ScheduleTypes, NEW i \in Slot, NEW h, Announced(i, h)
    PROVE  /\ \E s : Tidy(Rows, s) /\ row' = s.row /\ fly' = s.fly
           /\ known' \subseteq Tree /\ Disconnects /\ UNCHANGED <<delivered, panic>>
<1>1. Rows \in Table /\ known \subseteq Tree
  BY Zenon, AtSlot
<1>2. known' \subseteq Tree /\ Disconnects /\ UNCHANGED <<delivered, panic>>
  <2>1. UNCHANGED <<known, delivered, panic>> /\ (link' = link \/ link' = Ended(i))
    BY Zenon DEF Announced, Sent
  <2> QED
    BY Zenon, <1>1, <2>1 DEF Disconnects
<1>3. CASE h \in known
  <2> DEFINE s == Noted(Rows, i, h)
  <2>1. row' = s.row /\ fly' = s.fly
    BY Zenon, <1>3 DEF Announced, Become
  <2>2. Tidy(Rows, s)
    BY Zenon, <1>1, <1>3, NotedTidy
  <2> HIDE DEF s
  <2> QED
    BY Zenon, <1>2, <2>1, <2>2
<1>4. CASE h \notin known
  <2>1. PICK s \in GetheadersSent(Rows, i) : row' = s.row /\ fly' = s.fly
    BY Zenon, <1>4 DEF Announced, Become
  <2>2. Tidy(Rows, s)
    BY Zenon, <1>1, <2>1, GetheadersTidy
  <2> QED
    BY Zenon, <1>2, <2>1, <2>2
<1> QED
  BY Zenon, <1>3, <1>4

(* A block that was in flight: the clock stops when it was the slot's      *)
(* last.                                                                   *)
LEMMA BlockTidy ==
    ASSUME LinkTypes, ScheduleTypes, NEW i \in Slot, NEW h \in Header, fly[h] # 0,
           BlockReceived(i, h)
    PROVE  /\ Tidy(Rows, Rows') /\ fly'[h] = 0
<1> DEFINE left == [fly EXCEPT ![h] = 0]
           s == [row |-> row, fly |-> left]
           m == Matched(s, i)
           idle == \A k \in Header : left[k] # i
           q == [m.row[i] EXCEPT !.stall = FALSE, !.dl = @ /\ ~idle]
<1>1. Rows \in Table /\ row \in [Slot -> Row] /\ fly \in [Header -> Slot \cup {0}]
  BY Zenon, AtSlot
<1>2. left \in [Header -> Slot \cup {0}] /\ left[h] = 0
      /\ \A k \in Header : left[k] # 0 => left[k] = fly[k]
  BY Zenon, <1>1
<1>3. row' = [m.row EXCEPT ![i] = q] /\ fly' = m.fly
  <2>1. m.row \in [Slot -> Row]
    <3>1. s \in Table
      BY Zenon, <1>1, <1>2 DEF Table
    <3> HIDE DEF s
    <3> QED
      BY Zenon, <3>1, TidyMatched, TableShape
  <2>2. Become([m EXCEPT !.row[i].stall = FALSE, !.row[i].dl = @ /\ ~idle])
    BY Zenon DEF BlockReceived
  <2>3. m = [row |-> m.row, fly |-> m.fly]
    BY Zenon DEF Matched
  <2> HIDE DEF m, idle
  <2> QED
    BY Zenon, <2>1, <2>2, <2>3 DEF Become, Row
<1> HIDE DEF left
<1>4. s \in Table /\ s.row = row /\ s.fly = left
  BY Zenon, <1>1, <1>2 DEF Table
<1> HIDE DEF s
<1>5. Tidy(s, m) /\ m \in Table /\ m.row \in [Slot -> Row]
      /\ m.fly \in [Header -> Slot \cup {0}]
  BY Zenon, <1>4, TidyMatched, TableShape
<1> HIDE DEF m
<1>6. q \in Row /\ q.conn = m.row[i].conn /\ (m.row[i].dl /\ ~idle => q.dl)
  <2>1. idle \in BOOLEAN
    BY Zenon
  <2> HIDE DEF idle
  <2> DEFINE r == m.row[i]
             d == r.dl /\ ~idle
             e == [r EXCEPT !.stall = FALSE, !.dl = d]
  <2>2. r \in Row
    BY Zenon, <1>5
  <2> HIDE DEF r
  <2>3. d \in BOOLEAN
    BY Zenon
  <2>4. q = e
    BY Zenon DEF r
  <2>5. (r.dl /\ ~idle) = d
    BY Zenon
  <2> HIDE DEF d, q
  <2>6. e \in Row /\ e.conn = r.conn /\ e.dl = d
    BY Zenon, <2>2, <2>3 DEF Row
  <2> QED
    BY Zenon, <2>4, <2>5, <2>6 DEF r
<1>7. ASSUME NEW k \in Header, m.fly[k] = i PROVE ~idle
  <2>1. left[k] = i
    BY Zenon, <1>4, <1>5, <1>7, SlotFacts DEF Tidy
  <2> QED
    BY Zenon, <2>1
<1> HIDE DEF q, idle
<1>8. Rows' \in Table /\ Rows'.row = row' /\ Rows'.fly = fly'
  BY Zenon, <1>3, <1>5, <1>6 DEF Rows, Table
<1>9. ASSUME NEW k \in Header, fly'[k] # 0
      PROVE  /\ fly'[k] = fly[k]
             /\ row[fly[k]].dl => row'[fly[k]].dl
             /\ row'[fly[k]].conn = row[fly[k]].conn
  <2> DEFINE j == fly[k]
  <2>1. /\ m.fly[k] = left[k] /\ left[k] = j /\ j \in Slot
        /\ row[j].dl => m.row[j].dl
        /\ m.row[j].conn = row[j].conn
    BY Zenon, <1>1, <1>2, <1>3, <1>4, <1>5, <1>9 DEF Tidy
  <2> HIDE DEF j
  <2>2. CASE j = i
    BY Zenon, <1>3, <1>5, <1>6, <1>7, <2>1, <2>2 DEF j
  <2>3. CASE j # i
    BY Zenon, <1>3, <1>5, <2>1, <2>3 DEF j
  <2> QED
    BY Zenon, <2>2, <2>3
<1>10. Tidy(Rows, Rows')
  <2>1. Rows.row = row /\ Rows.fly = fly
    BY Zenon DEF Rows
  <2> QED
    BY Zenon, <1>8, <1>9, <2>1 DEF Tidy
<1>11. fly'[h] = 0
  BY Zenon, <1>1, <1>2, <1>3, <1>4, <1>5 DEF Tidy
<1> QED
  BY Zenon, <1>10, <1>11

(* A block received moves from the requests to the ones not stored yet.    *)
LEMMA OneMore ==
    ASSUME ScheduleTypes, WindowKept, NEW h \in Header, fly[h] # 0, fly'[h] = 0,
           Tidy(Rows, Rows'), delivered' = delivered \cup {h}
    PROVE  /\ WindowKept'
           /\ ~(Cardinality(delivered') > MaxUnstored + MaxRequests * Cardinality(Slot))
<1>1. InFlight' \subseteq InFlight \ {h} /\ InFlight \subseteq Header /\ h \in InFlight
  <2>1. Rows'.fly = fly'
    BY Zenon DEF Rows
  <2>2. InFlight' \subseteq InFlight
    BY Zenon, <2>1, FewerInFlight
  <2> QED
    BY Zenon, <2>2 DEF InFlight
<1>2. IsFiniteSet(InFlight) /\ IsFiniteSet(delivered) /\ Cardinality(InFlight) \in Nat
      /\ Cardinality(delivered) \in Nat
  BY Zenon, <1>1, HeaderFinite DEF ScheduleTypes
<1>3. Cardinality(InFlight \ {h}) = Cardinality(InFlight) - 1
  BY Zenon, <1>1, <1>2, FS_RemoveElement
<1>4. Cardinality(InFlight') <= Cardinality(InFlight) - 1 /\ Cardinality(InFlight') \in Nat
  <2>1. InFlight \ {h} \subseteq Header /\ InFlight' \subseteq Header
    BY Zenon, <1>1
  <2> QED
    BY Zenon, <1>1, <1>3, <2>1, SubsetSmaller, HeaderFinite
<1>5. Cardinality(delivered') <= Cardinality(delivered) + 1 /\ Cardinality(delivered') \in Nat
  <2> DEFINE D == delivered
             E == D \cup {h}
             n == Cardinality(D)
  <2>1. IsFiniteSet(D) /\ n \in Nat
    BY Zenon, <1>2
  <2> HIDE DEF D
  <2>2. Cardinality(E) = IF h \in D THEN n ELSE n + 1
    BY Zenon, <2>1, FS_AddElement
  <2> HIDE DEF n, E
  <2>3. Cardinality(E) <= n + 1 /\ Cardinality(E) \in Nat
    BY <2>1, <2>2
  <2> QED
    BY Zenon, <2>3 DEF D, E, n
<1> DEFINE bound == MaxUnstored + MaxRequests * Cardinality(Slot)
<1>6. bound \in Nat
  <2>1. MaxUnstored \in Nat /\ MaxRequests \in Nat /\ Cardinality(Slot) \in Nat
    BY Zenon, DownloadAssumption, FS_CardinalityType
  <2> QED
    BY <2>1
<1>7. Cardinality(delivered) + Cardinality(InFlight) < bound
  BY Zenon DEF WindowKept
<1> HIDE DEF bound
<1>8. Cardinality(delivered') + Cardinality(InFlight') < bound
      /\ ~(Cardinality(delivered') > bound)
  BY SMTT(20), <1>2, <1>4, <1>5, <1>6, <1>7
<1> QED
  BY Zenon, <1>8 DEF WindowKept, bound

(* A block received keeps the invariant.                                   *)
LEMMA BlockReceivedInv ==
    ASSUME DownloadInv, panic = "none", NEW i, NEW m,
           inbox # <<>>, inbox' = Tail(inbox), Head(inbox) = <<i, m>>, m.kind = "block",
           BlockReceived(i, m.hash), UNCHANGED <<made, slot, hold>>,
           ch.pc = "receive", Fits(ch')
    PROVE  DownloadInv'
<1> DEFINE h == m.hash
<1>1. /\ LinkTypes /\ ScheduleTypes /\ InFlightIsOwed /\ InFlightHasClock
      /\ ShareKept /\ WindowKept /\ Rows \in Table
  BY Zenon, AtSlot DEF DownloadInv
<1>2. i \in Slot /\ m \in Fine
  BY <1>1, TailKeeps DEF LinkTypes
<1>3. h \in Header /\ m = [kind |-> "block", hash |-> h]
  BY Zenon, <1>2, DownloadAssumption DEF Fine
<1> HIDE DEF h
<1>4. link' = link /\ known' = known /\ TakesOne /\ Disconnects
  BY Zenon DEF BlockReceived, TakesOne, Disconnects
<1>5. LinkTypes'
  BY Zenon, <1>1, <1>4, LinkTypesKept
<1>6. Tidy(Rows, Rows') /\ fly'[h] = 0
  <2>1. BlockReceived(i, h)
    BY Zenon DEF h
  <2>2. CASE fly[h] = 0
    <3>1. Rows' = Rows /\ fly' = fly
      BY Zenon, <2>1, <2>2 DEF BlockReceived, Rows
    <3> QED
      BY Zenon, <1>1, <2>2, <3>1, TidySelf
  <2>3. CASE fly[h] # 0
    BY Zenon, <1>1, <1>2, <1>3, <2>1, <2>3, BlockTidy
  <2> QED
    BY Zenon, <2>2, <2>3
<1>7. row' = Rows'.row /\ fly' = Rows'.fly /\ Rows' \in Table
  BY Zenon, <1>6 DEF Rows, Tidy
<1>8. \/ delivered' = delivered /\ panic' = panic
      \/ /\ fly[h] # 0 /\ delivered' = delivered \cup {h}
         /\ panic' \in {"answers", "none"}
            \/ Cardinality(delivered') > MaxUnstored + MaxRequests * Cardinality(Slot)
  BY Zenon DEF BlockReceived, h
<1>9. /\ WindowKept' /\ panic' \in {"answers", "none"}
      /\ delivered' \subseteq Header
  <2>1. CASE delivered' = delivered /\ panic' = panic
    BY Zenon, <1>1, <1>6, <1>7, <2>1, BoundsKept DEF ScheduleTypes
  <2>2. CASE fly[h] # 0 /\ delivered' = delivered \cup {h}
    BY Zenon, <1>1, <1>3, <1>6, <1>8, <2>2, OneMore DEF ScheduleTypes
  <2> QED
    BY Zenon, <1>8, <2>1, <2>2
<1>10. ScheduleTypes'
  <2>1. Table' = Table
    BY Zenon DEF Table, Row
  <2> QED
    BY Zenon, <1>1, <1>4, <1>7, <1>9, <2>1 DEF ScheduleTypes, Fits
<1>11. ShareKept'
  BY Zenon, <1>1, <1>6, <1>7, BoundsKept
<1>12. InFlightHasClock'
  BY Zenon, <1>1, <1>6, <1>7, ClockKept
<1>13. ASSUME NEW k \in Header, fly'[k] # 0, NEW x,
              x = <<fly[k], [kind |-> "block", hash |-> k]>>, x \in Range(inbox)
       PROVE  x \in Range(inbox')
  <2>1. k # h
    BY Zenon, <1>6, <1>13
  <2>2. x # Head(inbox)
    BY <1>3, <1>13, <2>1
  <2> QED
    BY Zenon, <1>1, <1>13, <2>2, TailKeeps DEF LinkTypes
<1>14. InFlightIsOwed'
  BY Zenon, <1>1, <1>4, <1>6, <1>7, <1>13, OwedKept
<1> QED
  BY Zenon, <1>5, <1>9, <1>10, <1>11, <1>12, <1>14 DEF DownloadInv, OtherAssertionsHold

(* Every message received keeps the invariant.                             *)
LEMMA ChainReceivesInv ==
    ASSUME DownloadInv, panic = "none", ChainReceives PROVE DownloadInv'
<1>1. LinkTypes /\ ScheduleTypes /\ Rows \in Table /\ known \subseteq Tree
  BY Zenon, AtSlot DEF DownloadInv
<1>2. Fits(ch') /\ ch.pc = "receive"
  BY Zenon, <1>1 DEF ChainReceives, ScheduleTypes, Fits, Position, Walking
<1>3. UNCHANGED <<made, slot, hold>>
  BY Zenon DEF ChainReceives
<1>4. CASE inbox = <<>> /\ UNCHANGED <<link, inbox, row, fly, delivered, known, panic>>
  <2>1. Tidy(Rows, Rows) /\ row' = Rows.row /\ fly' = Rows.fly
    BY Zenon, <1>1, <1>4, TidySelf DEF Rows
  <2> QED
    BY Zenon, <1>2, <1>3, <1>4, <2>1, QuietStep DEF Disconnects
<1> DEFINE i == Head(inbox)[1]
           m == Head(inbox)[2]
<1>5. ASSUME inbox # <<>>
      PROVE  i \in Slot /\ m \in Fine /\ Head(inbox) = <<i, m>>
  <2>1. Head(inbox) \in Slot \X Fine
    BY Zenon, <1>1, <1>5, TailKeeps DEF LinkTypes
  <2> QED
    BY <2>1
<1>6. CASE inbox # <<>> /\ inbox' = Tail(inbox) /\ m.kind = "headers"
           /\ HeadersAnswered(i, m.hashes)
  <2> DEFINE hs == m.hashes
  <2>1. hs \in Seq(Header) /\ i \in Slot /\ HeadersAnswered(i, hs)
    BY Zenon, <1>5, <1>6, DownloadAssumption DEF Fine
  <2> HIDE DEF hs
  <2>2. PICK s : Tidy(Rows, s) /\ row' = s.row /\ fly' = s.fly
    BY Zenon, <1>1, <2>1, HeadersTidy
  <2>3. known' \subseteq Tree /\ Disconnects /\ UNCHANGED <<delivered, panic>>
    BY Zenon, <1>1, <2>1, HeadersTidy
  <2> QED
    BY Zenon, <1>2, <1>3, <1>6, <2>2, <2>3, TidyStep DEF Fits
<1>7. CASE inbox # <<>> /\ inbox' = Tail(inbox) /\ m.kind = "inv" /\ Announced(i, m.hash)
  <2> DEFINE h == m.hash
  <2>1. i \in Slot /\ Announced(i, h)
    BY Zenon, <1>5, <1>7
  <2> HIDE DEF h
  <2>2. PICK s : Tidy(Rows, s) /\ row' = s.row /\ fly' = s.fly
    BY Zenon, <1>1, <2>1, AnnouncedTidy
  <2>3. known' \subseteq Tree /\ Disconnects /\ UNCHANGED <<delivered, panic>>
    BY Zenon, <1>1, <2>1, AnnouncedTidy
  <2> QED
    BY Zenon, <1>2, <1>3, <1>7, <2>2, <2>3, TidyStep DEF Fits
<1>8. CASE inbox # <<>> /\ inbox' = Tail(inbox) /\ m.kind = "block"
           /\ BlockReceived(i, m.hash)
  BY Zenon, <1>2, <1>3, <1>5, <1>8, BlockReceivedInv
<1> QED
  BY Zenon, <1>4, <1>6, <1>7, <1>8 DEF ChainReceives

-----------------------------------------------------------------------------
(* The peers' steps.                                                       *)

(* Why a block in flight of a slot is accounted for.                       *)
Owes(i, h) ==
    LET block == [kind |-> "block", hash |-> h] IN
    \/ h \in link[i].requests \/ link[i].doomed
    \/ hold[i] = <<block>> \/ <<i, block>> \in Range(inbox)
    \/ slot[i] = 0 \/ row[i].conn # slot[i]

(* A step of the peers that forgets no block owed keeps the invariant.     *)
LEMMA PeersStep ==
    ASSUME DownloadInv, UNCHANGED <<row, fly, delivered, known, ch, panic>>,
           made <= made', LinkTypes',
           \A i \in Slot, h \in Header : Owes(i, h) => Owes(i, h)'
    PROVE  DownloadInv'
<1>1. /\ LinkTypes /\ ScheduleTypes /\ InFlightIsOwed /\ InFlightHasClock
      /\ ShareKept /\ WindowKept /\ OtherAssertionsHold
  BY Zenon DEF DownloadInv
<1>2. fly \in [Header -> Slot \cup {0}] /\ row \in [Slot -> Row] /\ Rows' = Rows
  BY Zenon, <1>1, AtSlot DEF Rows
<1>3. Row \subseteq Row'
  <2>1. 0 .. made \subseteq 0 .. made'
    BY <1>1 DEF LinkTypes
  <2> QED
    BY Zenon, <2>1 DEF Row
<1>4. ScheduleTypes'
  <2>1. Rows \in Table'
    BY Zenon, <1>2, <1>3 DEF Table, Rows
  <2> QED
    BY Zenon, <1>1, <1>2, <2>1 DEF ScheduleTypes
<1>5. InFlightIsOwed'
  <2> SUFFICES ASSUME NEW h \in Header, fly[h] # 0
               PROVE  Owes(fly[h], h)'
    BY Zenon DEF InFlightIsOwed, Owes
  <2>1. fly[h] \in Slot /\ Owes(fly[h], h)
    BY Zenon, <1>1, <1>2 DEF InFlightIsOwed, Owes
  <2> QED
    BY Zenon, <2>1
<1>6. /\ InFlightHasClock' /\ ShareKept' /\ WindowKept' /\ OtherAssertionsHold'
  BY Zenon, <1>1 DEF InFlightHasClock, ShareKept, WindowKept, OtherAssertionsHold, InFlight,
              InFlightFor
<1> QED
  BY Zenon, <1>4, <1>5, <1>6 DEF DownloadInv

(* A new connection keeps the invariant.                                   *)
LEMMA ArriveInv ==
    ASSUME DownloadInv, NEW i \in Slot, Arrive(i),
           UNCHANGED <<row, fly, delivered, known, ch, panic>>
    PROVE  DownloadInv'
<1>1. LinkTypes /\ row \in [Slot -> Row]
  BY Zenon, AtSlot DEF DownloadInv
<1>2. /\ made' = made + 1 /\ made \in Nat /\ slot' = [slot EXCEPT ![i] = made + 1]
      /\ UNCHANGED <<link, hold, inbox>>
  BY Zenon, <1>1 DEF Arrive, LinkTypes
<1>3. made <= made' /\ slot' \in [Slot -> 0 .. made'] /\ made' \in Nat
  BY <1>1, <1>2 DEF LinkTypes
<1>4. LinkTypes'
  BY Zenon, <1>1, <1>2, <1>3 DEF LinkTypes
<1>5. row[i].conn # made + 1
  BY <1>1, <1>2 DEF Row
<1>6. ASSUME NEW j \in Slot, NEW h \in Header, Owes(j, h) PROVE Owes(j, h)'
  <2>1. CASE j = i
    BY Zenon, <1>1, <1>2, <1>5, <2>1 DEF Owes, LinkTypes
  <2>2. CASE j # i
    BY Zenon, <1>1, <1>2, <1>6, <2>2 DEF Owes, LinkTypes
  <2> QED
    BY Zenon, <2>1, <2>2
<1> QED
  BY Zenon, <1>3, <1>4, <1>6, PeersStep

(* A step of one connection that leaves the slots, the readers' hands and  *)
(* the queue alone.                                                        *)
LEMMA LinkStep ==
    ASSUME DownloadInv, NEW i \in Slot, NEW l \in LinkState,
           link' = [link EXCEPT ![i] = l], l.doomed \/ link[i].requests = l.requests,
           link[i].doomed => l.doomed,
           UNCHANGED <<made, slot, hold, inbox, row, fly, delivered, known, ch, panic>>
    PROVE  DownloadInv'
<1>1. LinkTypes /\ made \in Nat
  BY Zenon DEF DownloadInv, LinkTypes
<1>2. link' \in [Slot -> LinkState] /\ link'[i] = l /\ \A j \in Slot \ {i} : link'[j] = link[j]
  BY Zenon, <1>1 DEF LinkTypes
<1>3. LinkTypes' /\ made <= made'
  BY <1>1, <1>2 DEF LinkTypes
<1>4. ASSUME NEW j \in Slot, NEW h \in Header, Owes(j, h) PROVE Owes(j, h)'
  <2>1. CASE j = i
    BY Zenon, <1>2, <1>4, <2>1 DEF Owes
  <2>2. CASE j # i
    BY Zenon, <1>2, <1>4, <2>2 DEF Owes
  <2> QED
    BY Zenon, <2>1, <2>2
<1> QED
  BY Zenon, <1>3, <1>4, PeersStep

(* So do a handshake, a failing connection, a bad block and requests given *)
(* up.                                                                     *)
LEMMA LinkStepsInv ==
    ASSUME DownloadInv, NEW i \in Slot,
           Greet(i) \/ Doom(i) \/ Spoil(i) \/ GiveUp(i),
           UNCHANGED <<row, fly, delivered, known, ch, panic>>
    PROVE  DownloadInv'
<1> DEFINE l == link[i]
<1>1. link \in [Slot -> LinkState] /\ l \in LinkState
  BY Zenon DEF DownloadInv, LinkTypes
<1>2. UNCHANGED <<made, slot, hold, inbox>>
  BY Zenon DEF Greet, Doom, Spoil, GiveUp
<1>3. CASE Greet(i)
  <2>1. PICK s \in Services : link' = [link EXCEPT ![i].ready = TRUE, ![i].services = s]
    BY Zenon, <1>3 DEF Greet
  <2> DEFINE k == [l EXCEPT !.ready = TRUE, !.services = s]
  <2>2. link' = [link EXCEPT ![i] = k]
    BY Zenon, <1>1, <2>1
  <2>3. k \in LinkState /\ k.requests = l.requests /\ k.doomed = l.doomed
    BY Zenon, <1>1 DEF LinkState
  <2> HIDE DEF k
  <2> QED
    BY Zenon, <1>2, <2>2, <2>3, LinkStep
<1>4. CASE Doom(i)
  <2> DEFINE k == [l EXCEPT !.doomed = TRUE]
  <2>2. link' = [link EXCEPT ![i] = k]
    BY Zenon, <1>1, <1>4 DEF Doom
  <2>3. k \in LinkState /\ k.doomed
    BY Zenon, <1>1 DEF LinkState
  <2> HIDE DEF k
  <2> QED
    BY Zenon, <1>2, <2>2, <2>3, LinkStep
<1>5. CASE Spoil(i)
  <2>1. PICK h \in l.requests :
           link' = [link EXCEPT ![i].requests = @ \ {h}, ![i].doomed = TRUE]
    BY Zenon, <1>5 DEF Spoil
  <2> DEFINE k == [l EXCEPT !.requests = @ \ {h}, !.doomed = TRUE]
  <2>2. link' = [link EXCEPT ![i] = k]
    BY Zenon, <1>1, <2>1
  <2>3. k \in LinkState /\ k.doomed
    BY Zenon, <1>1 DEF LinkState
  <2> HIDE DEF k
  <2> QED
    BY Zenon, <1>2, <2>2, <2>3, LinkStep
<1>6. CASE GiveUp(i)
  <2> DEFINE k == [l EXCEPT !.requests = {}]
  <2>2. link' = [link EXCEPT ![i] = k]
    BY Zenon, <1>1, <1>6 DEF GiveUp
  <2>3. k \in LinkState /\ k.doomed
    BY Zenon, <1>1, <1>6 DEF LinkState, GiveUp
  <2> HIDE DEF k
  <2> QED
    BY Zenon, <1>2, <2>2, <2>3, LinkStep
<1> QED
  BY Zenon, <1>3, <1>4, <1>5, <1>6

(* A queue with an element appended has it and the others.                 *)
LEMMA AppendKeeps ==
    ASSUME NEW S, NEW q \in Seq(S), NEW x \in S
    PROVE  /\ Append(q, x) \in Seq(S) /\ x \in Range(Append(q, x))
           /\ Range(q) \subseteq Range(Append(q, x))
<1>1. /\ Append(q, x) \in Seq(S) /\ Len(q) \in Nat /\ Len(Append(q, x)) = Len(q) + 1
      /\ Append(q, x)[Len(q) + 1] = x
      /\ \A k \in 1 .. Len(q) : Append(q, x)[k] = q[k]
  OBVIOUS
<1>2. ASSUME NEW p \in Seq(S) PROVE Range(p) = {p[k] : k \in 1 .. Len(p)}
  BY DEF Range
<1>3. Len(q) + 1 \in 1 .. Len(Append(q, x)) /\ 1 .. Len(q) \subseteq 1 .. Len(Append(q, x))
  BY <1>1
<1>4. x \in Range(Append(q, x))
  BY Zenon, <1>1, <1>2, <1>3
<1>5. ASSUME NEW y \in Range(q) PROVE y \in Range(Append(q, x))
  <2>1. PICK k \in 1 .. Len(q) : y = q[k]
    BY Zenon, <1>2
  <2>2. k \in 1 .. Len(Append(q, x)) /\ y = Append(q, x)[k]
    BY Zenon, <1>1, <1>3, <2>1
  <2> QED
    BY Zenon, <1>1, <1>2, <2>2
<1> QED
  BY Zenon, <1>1, <1>4, <1>5

(* A message entering the queue keeps the invariant.                       *)
LEMMA EnqueueInv ==
    ASSUME DownloadInv, NEW i \in Slot, Enqueue(i),
           UNCHANGED <<row, fly, delivered, known, ch, panic>>
    PROVE  DownloadInv'
<1>1. LinkTypes /\ made \in Nat
  BY Zenon DEF DownloadInv, LinkTypes
<1>2. PICK m \in Fine : hold[i] = <<m>>
  BY Zenon, <1>1 DEF LinkTypes, Enqueue
<1> DEFINE x == <<i, m>>
<1>3. /\ inbox' = Append(inbox, x) /\ hold' = [hold EXCEPT ![i] = <<>>]
      /\ UNCHANGED <<made, slot, link>>
  BY <1>2 DEF Enqueue
<1>4. inbox \in Seq(Slot \X Fine) /\ x \in Slot \X Fine
  BY Zenon, <1>1, <1>2 DEF LinkTypes
<1>5. x \in Range(inbox') /\ Range(inbox) \subseteq Range(inbox')
      /\ inbox' \in Seq(Slot \X Fine)
  <2> DEFINE S == Slot \X Fine
  <2>1. inbox \in Seq(S) /\ x \in S
    BY Zenon, <1>4
  <2> HIDE DEF S, x
  <2>2. /\ Append(inbox, x) \in Seq(S) /\ x \in Range(Append(inbox, x))
        /\ Range(inbox) \subseteq Range(Append(inbox, x))
    BY Zenon, <2>1, AppendKeeps
  <2> QED
    BY Zenon, <1>3, <2>2 DEF S
<1>6. hold' \in [Slot -> {<<>>} \cup {<<n>> : n \in Fine}]
  BY Zenon, <1>1, <1>3 DEF LinkTypes
<1>7. LinkTypes' /\ made <= made'
  <2>1. made \in Nat /\ slot \in [Slot -> 0 .. made] /\ link \in [Slot -> LinkState]
    BY Zenon, <1>1 DEF LinkTypes
  <2>2. made' \in Nat /\ slot' \in [Slot -> 0 .. made'] /\ link' \in [Slot -> LinkState]
        /\ made <= made'
    BY <1>3, <2>1
  <2> QED
    BY Zenon, <1>5, <1>6, <2>2 DEF LinkTypes
<1>8. ASSUME NEW j \in Slot, NEW h \in Header, Owes(j, h) PROVE Owes(j, h)'
  <2> DEFINE block == [kind |-> "block", hash |-> h]
  <2>1. CASE j = i /\ hold[j] = <<block>>
    <3>1. x = <<j, block>>
      BY <1>2, <2>1
    <3> QED
      BY Zenon, <1>5, <3>1 DEF Owes
  <2>2. CASE j # i /\ hold[j] = <<block>>
    <3>1. hold'[j] = <<block>>
      BY Zenon, <1>1, <1>3, <2>2 DEF LinkTypes
    <3> QED
      BY Zenon, <3>1 DEF Owes
  <2>3. CASE hold[j] # <<block>>
    BY Zenon, <1>3, <1>5, <1>8, <2>3 DEF Owes
  <2> QED
    BY Zenon, <2>1, <2>2, <2>3
<1> QED
  BY Zenon, <1>7, <1>8, PeersStep

(* A slot left keeps the invariant.                                        *)
LEMMA VacateInv ==
    ASSUME DownloadInv, NEW i \in Slot, Vacate(i),
           UNCHANGED <<row, fly, delivered, known, ch, panic>>
    PROVE  DownloadInv'
<1>1. LinkTypes /\ made \in Nat
  BY Zenon DEF DownloadInv, LinkTypes
<1>2. /\ slot' = [slot EXCEPT ![i] = 0] /\ link' = [link EXCEPT ![i] = Fresh]
      /\ UNCHANGED <<made, hold, inbox>>
  BY Zenon DEF Vacate
<1>3. Fresh \in LinkState
  BY Zenon DEF Fresh, LinkState
<1>4. slot' \in [Slot -> 0 .. made] /\ slot'[i] = 0
      /\ \A j \in Slot \ {i} : slot'[j] = slot[j]
  BY <1>1, <1>2 DEF LinkTypes
<1>5. link' \in [Slot -> LinkState] /\ \A j \in Slot \ {i} : link'[j] = link[j]
  BY Zenon, <1>1, <1>2, <1>3 DEF LinkTypes
<1>6. LinkTypes' /\ made <= made'
  BY SMTT(20), <1>1, <1>2, <1>4, <1>5 DEF LinkTypes
<1>7. ASSUME NEW j \in Slot, NEW h \in Header, Owes(j, h) PROVE Owes(j, h)'
  <2>1. CASE j = i
    BY Zenon, <1>4, <2>1 DEF Owes
  <2>2. CASE j # i
    BY Zenon, <1>2, <1>4, <1>5, <1>7, <2>2 DEF Owes
  <2> QED
    BY Zenon, <2>1, <2>2
<1> QED
  BY Zenon, <1>6, <1>7, PeersStep

(* A message read from a peer keeps the invariant.                         *)
LEMMA TakeInv ==
    ASSUME DownloadInv, NEW i \in Slot, NEW m \in Message, Take(i, m),
           UNCHANGED <<row, fly, delivered, known, ch, panic>>
    PROVE  DownloadInv'
<1>1. LinkTypes /\ made \in Nat /\ link \in [Slot -> LinkState]
  BY Zenon DEF DownloadInv, LinkTypes
<1>2. /\ hold[i] = <<>> /\ hold' = [hold EXCEPT ![i] = <<m>>]
      /\ UNCHANGED <<made, slot, inbox>>
  BY Zenon DEF Take
<1>3. hold'[i] = <<m>> /\ \A j \in Slot \ {i} : hold'[j] = hold[j]
  BY Zenon, <1>1, <1>2 DEF LinkTypes
<1>4. CASE m.kind # "block" /\ link' = link
  <2>1. m \in Fine
    BY Zenon, <1>4 DEF Fine
  <2>2. hold' \in [Slot -> {<<>>} \cup {<<n>> : n \in Fine}]
    BY Zenon, <1>1, <1>2, <2>1 DEF LinkTypes
  <2>3. LinkTypes' /\ made <= made'
    BY SMTT(20), <1>1, <1>2, <1>4, <2>2 DEF LinkTypes
  <2>4. ASSUME NEW j \in Slot, NEW h \in Header, Owes(j, h) PROVE Owes(j, h)'
    <3>1. hold[i] # <<[kind |-> "block", hash |-> h]>>
      BY <1>2
    <3> QED
      BY Zenon, <1>2, <1>3, <1>4, <2>4, <3>1 DEF Owes
  <2> QED
    BY Zenon, <2>3, <2>4, PeersStep
<1>5. CASE /\ m.kind = "block" /\ m.hash \in link[i].requests
           /\ link' = [link EXCEPT ![i].requests = @ \ {m.hash}]
  <2> DEFINE g == m.hash
             l == [link[i] EXCEPT !.requests = @ \ {g}]
  <2>1. g \in Header /\ m \in Fine /\ m = [kind |-> "block", hash |-> g]
    BY Zenon, <1>1, <1>5, DownloadAssumption DEF Fine, LinkState
  <2>2. hold' \in [Slot -> {<<>>} \cup {<<n>> : n \in Fine}]
    BY Zenon, <1>1, <1>2, <2>1 DEF LinkTypes
  <2>3. link' = [link EXCEPT ![i] = l]
    BY Zenon, <1>1, <1>5
  <2>4. l \in LinkState /\ l.requests = link[i].requests \ {g} /\ l.doomed = link[i].doomed
    BY Zenon, <1>1 DEF LinkState
  <2> HIDE DEF l, g
  <2>5. link' \in [Slot -> LinkState] /\ link'[i] = l
        /\ \A j \in Slot \ {i} : link'[j] = link[j]
    BY Zenon, <1>1, <2>3, <2>4
  <2>6. LinkTypes' /\ made <= made'
    BY <1>1, <1>2, <2>2, <2>5 DEF LinkTypes
  <2>7. ASSUME NEW j \in Slot, NEW h \in Header, Owes(j, h) PROVE Owes(j, h)'
    <3>1. CASE j = i /\ h = g
      BY Zenon, <1>3, <2>1, <3>1 DEF Owes
    <3>2. CASE j = i /\ h # g
      <4>1. hold[i] # <<[kind |-> "block", hash |-> h]>>
        BY <1>2
      <4> QED
        BY Zenon, <1>2, <2>4, <2>5, <2>7, <3>2, <4>1 DEF Owes
    <3>3. CASE j # i
      BY Zenon, <1>2, <1>3, <2>5, <2>7, <3>3 DEF Owes
    <3> QED
      BY Zenon, <3>1, <3>2, <3>3
  <2> QED
    BY Zenon, <2>6, <2>7, PeersStep
<1> QED
  BY Zenon, <1>4, <1>5 DEF Take

-----------------------------------------------------------------------------
(* The theorems.                                                           *)

(* The invariant holds at the start.                                       *)
LEMMA DownloadInitInv == DownloadInit => DownloadInv
<1> SUFFICES ASSUME DownloadInit PROVE DownloadInv
  BY Zenon
<1> USE DEF DownloadInit, LinkInit
<1>1. LinkTypes
  <2>1. Fresh \in LinkState
    BY Zenon DEF Fresh, LinkState
  <2>2. inbox \in Seq(Slot \X Fine)
    <3> DEFINE S == Slot \X Fine
    <3>1. <<>> \in Seq(S)
      OBVIOUS
    <3> QED
      BY Zenon, <3>1
  <2>3. made \in Nat /\ slot \in [Slot -> 0 .. made] /\ link \in [Slot -> LinkState]
    BY <2>1
  <2>4. hold \in [Slot -> {<<>>} \cup {<<m>> : m \in Fine}]
    BY Zenon
  <2> QED
    BY Zenon, <2>2, <2>3, <2>4 DEF LinkTypes
<1>2. ScheduleTypes
  <2>1. Reset(0) \in Row
    BY DEF Reset, Row
  <2>2. Rows \in Table
    BY Zenon, <2>1 DEF Rows, Table
  <2>3. known \subseteq Tree
    BY Zenon, DownloadAssumption DEF Tree
  <2> QED
    BY Zenon, <2>2, <2>3, ReceivingFits DEF ScheduleTypes, Fits
<1>3. InFlightIsOwed /\ InFlightHasClock /\ OtherAssertionsHold
  BY Zenon DEF InFlightIsOwed, InFlightHasClock, OtherAssertionsHold
<1>4. InFlight = {} /\ (\A i \in Slot : InFlightFor(i) = {}) /\ delivered = {}
  BY Zenon, SlotFacts DEF InFlight, InFlightFor
<1>5. Cardinality({}) = 0
  BY Zenon, FS_EmptySet
<1>6. MaxUnstored \in Nat \ {0} /\ MaxRequests \in Nat /\ Cardinality(Slot) \in Nat
  BY Zenon, DownloadAssumption, FS_CardinalityType
<1>7. ShareKept
  <2> SUFFICES ASSUME NEW i \in Slot PROVE Cardinality(InFlightFor(i)) <= MaxRequests
    BY Zenon DEF ShareKept
  <2>1. InFlightFor(i) = {}
    BY Zenon, <1>4
  <2>2. 0 <= MaxRequests
    BY <1>6
  <2> QED
    BY Zenon, <1>5, <2>1, <2>2
<1>8. WindowKept
  <2> DEFINE all == MaxRequests * Cardinality(Slot)
  <2>1. all \in Nat
    BY <1>6
  <2> HIDE DEF all
  <2>2. 0 + 0 < MaxUnstored + all
    BY <1>6, <2>1
  <2> QED
    BY Zenon, <1>4, <1>5, <2>2 DEF WindowKept, all
<1> QED
  BY Zenon, <1>1, <1>2, <1>3, <1>7, <1>8 DEF DownloadInv

(* Every step keeps the invariant.                                         *)
LEMMA DownloadStepInv ==
    ASSUME DownloadInv, [DownloadNext]_downloadVars PROVE DownloadInv'
<1>1. CASE UNCHANGED downloadVars
  <2>1. UNCHANGED <<row, fly, delivered, known, ch, panic>>
        /\ UNCHANGED <<made, slot, link, hold, inbox>>
    BY Zenon, <1>1 DEF downloadVars, dvars, lvars
  <2>2. LinkTypes /\ made \in Nat
    BY Zenon DEF DownloadInv, LinkTypes
  <2>3. LinkTypes' /\ made <= made'
    BY <2>1, <2>2 DEF LinkTypes
  <2>4. \A i \in Slot, h \in Header : Owes(i, h) => Owes(i, h)'
    BY Zenon, <2>1 DEF Owes
  <2> QED
    BY Zenon, <2>1, <2>3, <2>4, PeersStep
<1>2. CASE panic = "none" /\ DownloadChain
  BY ZenonT(30), <1>2, ChainReceivesInv, ReconcileInv, AskForHeadersInv, HeadersAskedInv,
     AskForBlocksInv, BlocksAskedInv, IdleInv, StalledInv, HeadersTimeOutInv
  DEF DownloadChain
<1>3. CASE DownloadPeers
  <2>1. UNCHANGED <<row, fly, delivered, known, ch, panic>>
    BY Zenon, <1>3 DEF DownloadPeers
  <2>2. PICK i \in Slot :
           \/ Arrive(i) \/ Greet(i) \/ Doom(i) \/ Spoil(i) \/ Enqueue(i)
           \/ GiveUp(i) \/ Vacate(i)
           \/ \E m \in Message : Take(i, m)
    BY Zenon, <1>3 DEF DownloadPeers, LinkPeers
  <2> QED
    BY ZenonT(30), <2>1, <2>2, ArriveInv, LinkStepsInv, EnqueueInv, VacateInv, TakeInv
<1> QED
  BY Zenon, <1>1, <1>2, <1>3 DEF DownloadNext

(* The inductive invariant of the schedule and of the peers it is run for. *)
THEOREM DownloadInvariant == DownloadSpec => []DownloadInv
<1>1. DownloadInit => DownloadInv
  BY Zenon, DownloadInitInv
<1>2. DownloadInv /\ [DownloadNext]_downloadVars => DownloadInv'
  BY Zenon, DownloadStepInv
<1> QED
  BY <1>1, <1>2, PTL DEF DownloadSpec

(* A block in flight is owed by someone, however the peers come and go     *)
(* while the schedule walks the slots (request, reconcile, forget;         *)
(* session.rs block).                                                      *)
THEOREM InFlightIsOwedTheorem == DownloadSpec => []InFlightIsOwed
<1>1. DownloadInv => InFlightIsOwed
  BY Zenon DEF DownloadInv
<1> QED
  BY <1>1, DownloadInvariant, PTL

(* A block in flight has its slot's download clock running, but between    *)
(* the two halves of the request itself (request, block_received, forget). *)
THEOREM InFlightHasClockTheorem == DownloadSpec => []InFlightHasClock
<1>1. DownloadInv => InFlightHasClock
  BY Zenon DEF DownloadInv
<1> QED
  BY <1>1, DownloadInvariant, PTL

(* The walk asks for nothing that is in flight, and the window bounds what *)
(* arrives: the assertions of request and block_received that say so never *)
(* fail.                                                                   *)
THEOREM OtherAssertionsHoldTheorem == DownloadSpec => []OtherAssertionsHold
<1>1. DownloadInv => OtherAssertionsHold
  BY Zenon DEF DownloadInv
<1> QED
  BY <1>1, DownloadInvariant, PTL

-----------------------------------------------------------------------------
(* The schedule keeps to what PeerLink allows the chain thread.            *)

(* Receiving a message disconnects peers at most.                          *)
LEMMA ReceivesKeep ==
    ASSUME LinkTypes, ScheduleTypes, ChainReceives
    PROVE  Disconnects /\ TakesOne /\ UNCHANGED <<made, slot, hold>>
<1>1. TakesOne /\ UNCHANGED <<made, slot, hold>>
  BY Zenon DEF ChainReceives, TakesOne
<1>2. CASE inbox = <<>> /\ link' = link
  BY Zenon, <1>1, <1>2 DEF Disconnects
<1> DEFINE i == Head(inbox)[1]
           m == Head(inbox)[2]
<1>3. CASE /\ inbox # <<>>
           /\ \/ HeadersAnswered(i, m.hashes) \/ Announced(i, m.hash)
              \/ BlockReceived(i, m.hash)
  <2>1. Head(inbox) \in Slot \X Fine
    BY Zenon, <1>3, TailKeeps DEF LinkTypes
  <2>2. i \in Slot
    BY Zenon, <2>1
  <2>3. link' = link \/ link' = Ended(i)
    BY Zenon, <1>3 DEF HeadersAnswered, Announced, BlockReceived, Sent
  <2> QED
    BY Zenon, <1>1, <2>2, <2>3 DEF Disconnects
<1> QED
  BY Zenon, <1>2, <1>3 DEF ChainReceives

Asks ==
    \E i \in Slot, blocks \in SUBSET Hash :
        slot[i] # 0 /\ link' = [link EXCEPT ![i].requests = @ \cup blocks]

(* A step of the chain thread disconnects, asks or receives, and no more.  *)
LEMMA ChainKeeps ==
    ASSUME DownloadInv, DownloadChain
    PROVE  (Disconnects \/ Asks) /\ TakesOne /\ UNCHANGED <<made, slot, hold>>
<1>1. LinkTypes /\ ScheduleTypes /\ ShareKept
  BY Zenon DEF DownloadInv
<1>2. CASE ChainReceives
  BY Zenon, <1>1, <1>2, ReceivesKeep
<1>3. CASE ReplaceStale
  BY Zenon, <1>1, <1>3, ReplaceDisconnects DEF ReplaceStale, TakesOne
<1>4. CASE \/ Reconcile \/ AskForHeaders \/ HeadersAsked \/ AskForNoBlocks \/ BlocksAsked
           \/ InTime \/ Stalled \/ HeadersTimeOut \/ TipIsNotStale
           \/ \E i \in Slot : DownloadTimesOut(i)
  <2>1. UNCHANGED <<made, slot, hold, inbox>>
    BY Zenon, <1>4 DEF Reconcile, AskForHeaders, HeadersAsked, AskForNoBlocks, BlocksAsked, InTime,
                Stalled, HeadersTimeOut, TipIsNotStale, DownloadTimesOut, lvars
  <2>2. \/ link' = link
        \/ link' = Ended(ch.i) /\ ch.pc \in {"headers", "asked", "timeouts"}
    BY Zenon, <1>4 DEF Reconcile, AskForHeaders, HeadersAsked, AskForNoBlocks, BlocksAsked, InTime,
                Stalled, HeadersTimeOut, TipIsNotStale, DownloadTimesOut, lvars, Sent
  <2> QED
    BY Zenon, <1>1, <2>1, <2>2, AtSlot DEF Disconnects, TakesOne
<1>5. CASE AskForBlocks
  <2> DEFINE i == ch.i
             blocks == WalkFor(i).blocks
  <2>1. UNCHANGED <<made, slot, hold, inbox>> /\ ch.pc = "blocks"
    BY Zenon, <1>5 DEF AskForBlocks
  <2>2. \/ link' = link
        \/ blocks # {} /\ link' = [link EXCEPT ![i].requests = @ \cup blocks]
    BY Zenon, <1>5 DEF AskForBlocks, Request
  <2>3. i \in Slot
    BY Zenon, <1>1, <2>1, AtSlot
  <2>4. blocks \subseteq Header /\ (blocks # {} => slot[i] # 0)
    <3> HIDE DEF i
    <3> DEFINE walk == WalkFor(i)
    <3>1. /\ walk.blocks \subseteq {h \in Header : fly[h] = 0}
          /\ walk.blocks # {} => slot[i] # 0
      BY Zenon, <1>1, <2>3, WalkFacts DEF ScheduleTypes
    <3> QED
      BY Zenon, <3>1
  <2> HIDE DEF blocks, i
  <2>5. blocks \in SUBSET Hash
    BY Zenon, <2>4, DownloadAssumption
  <2> QED
    BY Zenon, <2>1, <2>2, <2>3, <2>4, <2>5 DEF Disconnects, Asks, TakesOne
<1> QED
  BY Zenon, <1>2, <1>3, <1>4, <1>5 DEF DownloadChain

(* Every step of the chain thread is one PeerLink allows it.               *)
LEMMA ChainStepLinked ==
    ASSUME DownloadInv, DownloadChain PROVE [LinkNext]_lvars
<1>1. LinkTypes /\ link \in [Slot -> LinkState]
  BY Zenon DEF DownloadInv, LinkTypes
<1>2. (Disconnects \/ Asks) /\ TakesOne /\ UNCHANGED <<made, slot, hold>>
  BY Zenon, ChainKeeps
<1>3. inbox' \in {inbox} \cup {Tail(q) : q \in {inbox} \ {<<>>}}
  BY Zenon, <1>2 DEF TakesOne
<1>4. \/ link' = link
      \/ \E i \in Slot, over \in BOOLEAN :
            \E blocks \in SUBSET Hash :
               /\ slot[i] # 0
               /\ link' = [link EXCEPT ![i].requests = @ \cup blocks,
                                       ![i].doomed = @ \/ over]
  <2>1. CASE \E j \in Slot : link' = Ended(j)
    <3>1. PICK j \in Slot : link' = Ended(j)
      BY Zenon, <2>1
    <3> DEFINE l == link[j]
               over == TRUE
               blocks == {}
    <3>2. l \in LinkState
      BY Zenon, <1>1
    <3>3. CASE slot[j] = 0
      <4>1. [l EXCEPT !.doomed = @ \/ slot[j] # 0] = l
        BY Zenon, <3>2, <3>3 DEF LinkState
      <4>2. link' = [link EXCEPT ![j] = l]
        BY Zenon, <1>1, <3>1, <4>1 DEF Ended
      <4> QED
        BY Zenon, <1>1, <4>2
    <3>4. CASE slot[j] # 0
      <4>1. [l EXCEPT !.doomed = @ \/ slot[j] # 0]
               = [l EXCEPT !.requests = @ \cup blocks, !.doomed = @ \/ over]
        BY Zenon, <3>2, <3>4 DEF LinkState
      <4>2. link' = [link EXCEPT ![j].requests = @ \cup blocks, ![j].doomed = @ \/ over]
        BY Zenon, <1>1, <3>1, <4>1 DEF Ended
      <4>3. over \in BOOLEAN /\ blocks \in SUBSET Hash
        BY Zenon
      <4> HIDE DEF over, blocks
      <4> QED
        BY Zenon, <3>4, <4>2, <4>3
    <3> QED
      BY Zenon, <3>3, <3>4
  <2>2. CASE Asks
    <3>1. PICK i \in Slot, blocks \in SUBSET Hash :
             slot[i] # 0 /\ link' = [link EXCEPT ![i].requests = @ \cup blocks]
      BY Zenon, <2>2 DEF Asks
    <3> DEFINE l == link[i]
               over == FALSE
    <3>2. l \in LinkState
      BY Zenon, <1>1
    <3>3. [l EXCEPT !.requests = @ \cup blocks]
             = [l EXCEPT !.requests = @ \cup blocks, !.doomed = @ \/ over]
      BY Zenon, <3>2 DEF LinkState
    <3>4. link' = [link EXCEPT ![i].requests = @ \cup blocks, ![i].doomed = @ \/ over]
      BY Zenon, <1>1, <3>1, <3>3
    <3>5. over \in BOOLEAN
      BY Zenon
    <3> HIDE DEF over
    <3> QED
      BY Zenon, <3>1, <3>4, <3>5
  <2> QED
    BY Zenon, <1>2, <2>1, <2>2 DEF Disconnects
<1>5. LinkChain
  BY Zenon, <1>2, <1>3, <1>4 DEF LinkChain
<1> QED
  BY Zenon, <1>5 DEF LinkNext

(* The schedule, composed with the peers, is an implementation of          *)
(* PeerLink: whatever the chain thread does to a peer is one of the things *)
(* the threads of Peer were shown to cope with (PeerLinkRefinement).       *)
THEOREM LinkKeptTheorem == DownloadSpec => LinkKept
<1>1. DownloadInit => LinkInit
  BY Zenon DEF DownloadInit
<1>2. DownloadInv /\ [DownloadNext]_downloadVars => [LinkNext]_lvars
  <2> SUFFICES ASSUME DownloadInv, [DownloadNext]_downloadVars
               PROVE  [LinkNext]_lvars
    BY Zenon
  <2>1. CASE UNCHANGED downloadVars
    BY Zenon, <2>1 DEF downloadVars
  <2>2. CASE DownloadChain
    BY Zenon, <2>2, ChainStepLinked
  <2>3. CASE DownloadPeers
    BY Zenon, <2>3 DEF DownloadPeers, LinkNext
  <2> QED
    BY Zenon, <2>1, <2>2, <2>3 DEF DownloadNext
<1> QED
  BY <1>1, <1>2, DownloadInvariant, PTL DEF DownloadSpec, LinkKept
=============================================================================
