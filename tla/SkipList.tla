------------------------------ MODULE SkipList ------------------------------
(***************************************************************************)
(* The skip pointers of the header tree's arena (chain/tree.rs) and the    *)
(* two things read through them: the ancestor at a height, and the locator *)
(* (chain/locator.rs).  A node is its position in the arena; position 1 is *)
(* genesis, which has neither parent nor skip pointer.                     *)
(***************************************************************************)
EXTENDS Integers, Sequences, Bitwise

CONSTANTS
    MaxNodes,   \* bound: nodes in the arena
    Forks       \* <<n, b>>: an arena of n nodes may branch off at node b

ASSUME SkipAssumption == MaxNodes \in Nat \ {0} /\ Forks \subseteq Nat \X Nat

VARIABLES
    parent,     \* per node, its parent
    heights,    \* per node, its height
    skip        \* per node, its skip pointer, 0 for none

skvars == <<parent, heights, skip>>

(* Core's InvertLowestOne: the lowest set bit is cleared.                  *)
InvertLowestOne(v) == IF v = 0 THEN 0 ELSE v & (v - 1)

(* Core's GetSkipHeight.                                                   *)
SkipHeight(n) ==
    IF n < 2 THEN 0
    ELSE IF n % 2 = 0 THEN InvertLowestOne(n)
    ELSE InvertLowestOne(InvertLowestOne(n - 1)) + 1

Less(m, n) == IF m < n THEN 0 ELSE m - n

(* Whether the skip pointer is followed: it lands on the target, or        *)
(* overshoots it by less than the parent's own skip would.                 *)
SkipToward(node, from, target) ==
    LET landing == SkipHeight(from)
        previous == SkipHeight(Less(from, 1))
    IN  /\ skip[node] # 0
        /\ \/ landing = target
           \/ landing > target /\ ~(previous < Less(landing, 2) /\ previous >= target)

(* The loop of walk_back: where it ends, and how many steps it took.  The  *)
(* height is counted down beside the node, not read from it.               *)
RECURSIVE WalkFrom(_, _, _, _)
WalkFrom(node, from, target, steps) ==
    IF from <= target THEN [node |-> node, steps |-> steps]
    ELSE IF SkipToward(node, from, target)
         THEN WalkFrom(skip[node], SkipHeight(from), target, steps + 1)
         ELSE WalkFrom(parent[node], Less(from, 1), target, steps + 1)

(* ancestor, for a height at or below the node's.                          *)
Walk(node, target) == WalkFrom(node, heights[node], target, 0)
Ancestor(node, target) == Walk(node, target).node

(* Mutant: the step doubles from the start.                                *)
StepDoubles(step, count) == 2 * step

(* The locator's step: one for ten entries, then doubling.                 *)
NextStep(step, count) == IF count > 10 THEN 2 * step ELSE step

RECURSIVE LocatorFrom(_, _, _)
LocatorFrom(have, walk, step) ==
    LET all == Append(have, walk)
    IN  IF heights[walk] = 0 THEN all
        ELSE LocatorFrom(all, Ancestor(walk, Less(heights[walk], step)),
                         NextStep(step, Len(all)))

Locator(from) == LocatorFrom(<<>>, from, 1)

(* Mutant: the new node's skip height is taken from its parent's height.   *)
BuildSkipLow(above) == Ancestor(above, SkipHeight(heights[above]))

(* The skip pointer of a node that goes above another: a walk over the     *)
(* pointers of the nodes below it.                                         *)
BuildSkip(above) == Ancestor(above, SkipHeight(heights[above] + 1))

SkipInit ==
    /\ parent = <<0>>
    /\ heights = <<0>>
    /\ skip = <<0>>

(* What insert does to the arena's links.                                  *)
Insert(above) ==
    /\ Len(parent) < MaxNodes
    /\ parent' = Append(parent, above)
    /\ heights' = Append(heights, heights[above] + 1)
    /\ skip' = Append(skip, BuildSkip(above))

SkipNext ==
    \E above \in DOMAIN parent :
        /\ above = Len(parent) \/ <<Len(parent), above>> \in Forks
        /\ Insert(above)

SkipSpec == SkipInit /\ [][SkipNext]_skvars
-----------------------------------------------------------------------------
(* Properties.  Each is about the last node that entered: the nodes below  *)
(* it were last themselves in an earlier state, and nothing changes them.  *)

Newest == Len(parent)

(* The node a walk along parent links meets at each height: the reference. *)
Path == LET up[n \in 0 .. heights[Newest]] ==
              IF n = 0 THEN Newest ELSE parent[up[n - 1]]
        IN  [n \in 0 .. heights[Newest] |-> up[heights[Newest] - n]]

(* The bits of a height.                                                   *)
BitCount(n) == CHOOSE k \in 0 .. 31 : 2^k > n /\ (k = 0 \/ 2^(k - 1) <= n)

(* A walk that follows skip pointers, and counts the height down beside    *)
(* them, ends at the very ancestor the parent links lead to, and from a    *)
(* height of k bits takes at most k (k + 1) / 2 steps.  The same law at    *)
(* the 21 bits of MAX_TREE_HEADERS gives 231, well below the 512 steps at  *)
(* which walk_back's assertion stops the process.                          *)
AncestorAgrees ==
    LET k == BitCount(heights[Newest]) IN
    \A n \in 0 .. heights[Newest] :
        Ancestor(Newest, n) = Path[n] /\ 2 * Walk(Newest, n).steps <= k * (k + 1)

(* A locator goes strictly down its own chain to genesis, and for any fork *)
(* with another chain it has an entry at or below the fork that is no      *)
(* further below it than the fork is deep (at all depths up to ten, the    *)
(* fork itself).                                                           *)
LocatorFindsFork ==
    \A have \in {Locator(Newest)} :
    LET at == [i \in DOMAIN have |-> heights[have[i]]]
    IN  /\ at[1] = heights[Newest] /\ at[Len(have)] = 0
        /\ \A i \in DOMAIN have : have[i] = Path[at[i]]
        /\ \A i \in 1 .. Len(have) - 1 : at[i + 1] < at[i]
        /\ \A fork \in 0 .. heights[Newest] : \E i \in DOMAIN have :
             /\ at[i] <= fork
             /\ fork - at[i] <= Less(heights[Newest] - fork, 10)
=============================================================================
