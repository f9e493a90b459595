-------------------------------- MODULE Reorg -------------------------------
(***************************************************************************)
(* What is planned and answered from the header tree: the reorg planner    *)
(* (chain/reorg.rs) and the answer to a getheaders (chain/locator.rs).     *)
(* Both only read the tree.  The dirty list does not bear on either, so    *)
(* ClearDirty is left out.                                                 *)
(***************************************************************************)
EXTENDS HeaderTree, FiniteSetsExt

CONSTANTS
    Room,       \* the room the connect queue may have
    Locators,   \* the locators a peer may send
    MaxHeaders, \* the most headers an answer may have
    None        \* no block

(* Whether a is below b on b's chain: it is in every set of blocks that    *)
(* holds b's parent and the parent of each header in it.                   *)
ProperAncestor(a, b) ==
    /\ b \in Header
    /\ \A S \in SUBSET Block :
         Prev[b] \in S /\ (\A h \in S \cap Header : Prev[h] \in S) => a \in S

(* A locator walks down one chain and ends at genesis.                     *)
ASSUME ReorgAssumption ==
    /\ Room \subseteq Nat \ {0}
    /\ \A locator \in Locators :
         /\ locator \in Seq(Block) \ {<<>>}
         /\ locator[Len(locator)] = Genesis
         /\ \A i \in 1 .. Len(locator) - 1 :
              ProperAncestor(locator[i + 1], locator[i])
    /\ MaxHeaders \in Nat \ {0}
    /\ None \notin Block

IsActive(b) == IsConnected(status[b])

(* Whether a status carries the location of the block's bytes.             *)
HasLocation(s) == s \in {"BlockChecked", "Connected"}

-----------------------------------------------------------------------------
(* The planner.                                                            *)

(* Mutant: no walk back once at the tip's height.                          *)
ForkPointLevel(target) == AncestorAt(target, Min({height[target], height[tip]}))

(* Down to the tip's height first, then along parents to the active chain. *)
ForkPoint(target) ==
    LET level == AncestorAt(target, Min({height[target], height[tip]}))
        up[b \in Tree] == IF IsActive(b) THEN b ELSE up[Prev[b]]
    IN  up[level]

StepsBetween(b, ancestor) == height[b] - height[ancestor]

(* Tip first, down to the fork, as far as there is room.                   *)
PlanDisconnects(fork, limit) ==
    [i \in 1 .. Min({limit, StepsBetween(tip, fork)}) |->
        [kind |-> "Disconnect", block |-> AncestorAt(tip, height[tip] + 1 - i)]]

(* Mutant: the room is not shared with the disconnects.                    *)
RoomLeftAll(limit, jobs) == limit

RoomLeft(limit, jobs) == limit - Len(jobs)

(* The target's blocks from just above the fork, while their bytes are     *)
(* here and there is room; and the block that stopped it, if one did.      *)
PlanConnects(target, fork, room) ==
    LET node(i) == AncestorAt(target, height[fork] + i)
        span == Min({room, StepsBetween(target, fork)})
        lacking == {i \in 1 .. span : ~HasLocation(status[node(i)])}
        n == IF lacking = {} THEN span ELSE Min(lacking) - 1
    IN  [jobs |-> [i \in 1 .. n |-> [kind |-> "Connect", block |-> node(i)]],
         missing |-> IF lacking = {} THEN None ELSE node(n + 1)]

Plan(limit) ==
    LET fork == ForkPoint(best_header)
        off == PlanDisconnects(fork, limit)
        on == PlanConnects(best_header, fork, RoomLeft(limit, off))
    IN  [fork |-> fork,
         depth |-> StepsBetween(tip, fork),
         jobs |-> off \o on.jobs,
         missing |-> on.missing]

-----------------------------------------------------------------------------
(* The answer to a getheaders.                                             *)

(* Mutant: any block of the tree will do.                                  *)
ServesKnown(b) == b \in Tree

Serves(b) == b \in Tree /\ IsActive(b)

(* The first entry on the active chain, or genesis.                        *)
ForkInActiveChain(locator) ==
    LET found == {i \in DOMAIN locator : Serves(locator[i])}
    IN  IF found = {} THEN Genesis ELSE locator[Min(found)]

(* The active chain forward from the fork, at most max headers, ending at  *)
(* stop if that is on the way.                                             *)
HeadersAfter(locator, stop, max) ==
    LET first == height[ForkInActiveChain(locator)] + 1
        reach == Min({height[tip], first + max - 1})
        last == IF Serves(stop) /\ height[stop] \in first .. reach - 1
                THEN height[stop] ELSE reach
    IN  [i \in 1 .. last + 1 - first |-> AncestorAt(tip, first + i - 1)]

-----------------------------------------------------------------------------
(* Headers, blocks and verdicts arrive, and a validation thread takes the  *)
(* first job of a plan and reports it before the next plan is made.  That  *)
(* thread is external: the chain thread hands no job over yet.             *)

Arrivals ==
    \/ \E h \in Header, now \in Clock : Accept(h, now)
    \/ \E b \in Header : BlockChecked(b)
    \/ \E b \in Header : Invalidate(b)

ApplyJob(limit) ==
    LET jobs == Plan(limit).jobs IN
    /\ jobs # <<>>
    /\ \/ Head(jobs).kind = "Disconnect" /\ Disconnected(Head(jobs).block)
       \/ Head(jobs).kind = "Connect" /\ Connected(Head(jobs).block)

ReorgNext == Arrivals \/ \E limit \in Room : ApplyJob(limit)

ReorgSpec ==
    /\ Init
    /\ [][ReorgNext]_vars
    /\ WF_vars(\E limit \in Room : ApplyJob(limit))
-----------------------------------------------------------------------------
(* Properties.                                                             *)

(* The tip after the first i jobs of a plan.                               *)
TipAfter(jobs, i) ==
    IF i = 0 THEN tip
    ELSE IF jobs[i].kind = "Connect" THEN jobs[i].block ELSE Prev[jobs[i].block]

(* Jobs that connected and disconnected allow in this order: each          *)
(* disconnect takes the tip off, each connect puts a block whose bytes are *)
(* here on the tip.                                                        *)
Legal(jobs) ==
    \A i \in DOMAIN jobs : LET b == jobs[i].block IN
        \/ /\ jobs[i].kind = "Disconnect"
           /\ b = TipAfter(jobs, i - 1)
           /\ status[b] = "Connected"
        \/ /\ jobs[i].kind = "Connect"
           /\ Prev[b] = TipAfter(jobs, i - 1)
           /\ status[b] = "BlockChecked"

(* What a plan with room for everything holds.                             *)
Everything == 2 * Len(entries)

(* A reorg worked through in batches of any size is the same reorg, and    *)
(* one the tree allows: applying the jobs in order meets no assertion, a   *)
(* plan with less room is the beginning of the whole plan, full unless it  *)
(* is all of it, and the whole plan ends at the most-work header or right  *)
(* below the first block of its chain whose bytes are missing.             *)
PlanIsBatch ==
    LET whole == Plan(Everything)
        end == TipAfter(whole.jobs, Len(whole.jobs))
    IN  /\ Legal(whole.jobs)
        /\ \A limit \in Room : LET plan == Plan(limit) IN
             /\ plan.jobs = SubSeq(whole.jobs, 1, Min({limit, Len(whole.jobs)}))
             /\ plan.depth = Cardinality({i \in DOMAIN whole.jobs :
                                            whole.jobs[i].kind = "Disconnect"})
             /\ plan.missing \in {None, whole.missing}
        /\ IF whole.missing = None THEN end = best_header
           ELSE /\ Prev[whole.missing] = end
                /\ status[whole.missing] = "HeaderAccepted"
                /\ AncestorAt(best_header, height[whole.missing]) = whole.missing

(* Whatever chain a peer is on, the answer to its getheaders continues     *)
(* that chain, header by header, and is empty only when the peer has this  *)
(* node's active chain already: asking again from the last header gets the *)
(* whole of it.                                                            *)
AnswerAdvances ==
    \A locator \in Locators, stop \in Block :
        LET got == HeadersAfter(locator, stop, MaxHeaders) IN
        /\ Len(got) <= MaxHeaders
        /\ got = <<>> <=> \E i \in DOMAIN locator : locator[i] = tip
        /\ got # <<>> => \E i \in DOMAIN locator : locator[i] = Prev[got[1]]
        /\ \A i \in 1 .. Len(got) - 1 : Prev[got[i + 1]] = got[i] /\ got[i] # stop
        /\ \A i \in DOMAIN got : IsActive(got[i])

(* A validation thread that works through the plans is done in the end,    *)
(* whatever the room: no plan undoes what an earlier one did for ever.     *)
PlansEnd == <>[](\A limit \in Room : Plan(limit).jobs = <<>>)
=============================================================================
