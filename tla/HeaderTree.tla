----------------------------- MODULE HeaderTree -----------------------------
(***************************************************************************)
(* The header tree of the chain thread (chain/tree.rs): an append-only     *)
(* arena of headers with a hash index beside it, the status of the block   *)
(* behind each header, and the two nodes the rest of the program aims at,  *)
(* the tip of the active chain and the most-work header.                   *)
(*                                                                         *)
(* A block stands for its hash: the hash commits to the header, so what a  *)
(* header says (its parent, work, time) and what the stateless and         *)
(* contextual header rules say of it (their context is fixed by the        *)
(* ancestors the hash commits to) are constants.  Arena positions count    *)
(* from 1; index[b] = 0 says that the tree does not hold b.                *)
(***************************************************************************)
EXTENDS Integers, Sequences

CONSTANTS
    Header,     \* the headers peers may send
    Genesis,    \* the block every chain starts from
    Prev,       \* prev_blockhash
    BlockWork,  \* block_work(header.bits)
    Time,       \* header.time
    CheckOk,    \* the headers that pass check_header
    AcceptOk,   \* the headers that pass accept_header in their context
    Clock,      \* the readings node_time may return
    MaxFuture,  \* MAX_FUTURE_BLOCK_TIME
    Cap         \* MAX_TREE_HEADERS

Block == Header \cup {Genesis}

ASSUME ConstantsAssumption ==
    /\ Genesis \notin Header
    /\ Prev \in [Header -> Block]
    /\ BlockWork \in [Block -> Nat \ {0}]
    /\ Time \in [Header -> Nat]
    /\ CheckOk \subseteq Header
    /\ AcceptOk \subseteq Header
    /\ Clock \subseteq Nat
    /\ MaxFuture \in Nat
    /\ Cap \in Nat \ {0}

VARIABLES
    entries,      \* the arena: every header, in the order it entered
    index,        \* hash -> arena position, 0 for a hash the tree lacks
    height,       \* recomputed from the parent as a header enters
    chainwork,    \* likewise
    status,       \* what is known of the block behind a header
    culprit,      \* the hash an InvalidAncestor status carries
    tip,          \* the last block whose coins are in the chainstate
    best_header,  \* the most-work header that is not invalid
    dirty,        \* entries the block index has not been told about
    flagged       \* the entries whose dirty flag is set

vars == <<entries, index, height, chainwork, status, culprit, tip,
          best_header, dirty, flagged>>

(* InvalidHeader is Invalid{AcceptHeader}, InvalidBlock is Invalid of one  *)
(* of the four stages that need the block.                                 *)
Status == {"Absent", "Genesis", "HeaderAccepted", "BlockChecked", "Connected",
           "InvalidHeader", "InvalidBlock", "InvalidAncestor"}

Refused(s) == s \in {"InvalidHeader", "InvalidBlock"}
Terminal(s) == Refused(s) \/ s = "InvalidAncestor"
IsConnected(s) == s \in {"Genesis", "Connected"}

Tree == {b \in Block : index[b] # 0}

(* The ancestor of b at height n, for an n at or below b's height.         *)
AncestorAt(b, n) ==
    LET up[i \in 0 .. height[b]] == IF i = 0 THEN b ELSE Prev[up[i - 1]]
    IN  up[height[b] - n]

(* The nearest ancestor of b, b included, that earned a verdict.           *)
Culprit(b) == IF Refused(status[b]) THEN b ELSE culprit[b]

Init ==
    /\ entries = <<Genesis>>
    /\ index = [b \in Block |-> IF b = Genesis THEN 1 ELSE 0]
    /\ height = [b \in Block |-> 0]
    /\ chainwork = [b \in Block |-> IF b = Genesis THEN BlockWork[b] ELSE 0]
    /\ status = [b \in Block |-> IF b = Genesis THEN "Genesis" ELSE "Absent"]
    /\ culprit = [b \in Block |-> Genesis]
    /\ tip = Genesis
    /\ best_header = Genesis
    /\ dirty = <<>>
    /\ flagged = {}

-----------------------------------------------------------------------------
(* Accepting a header.                                                     *)

HasRoom == Len(entries) < Cap

(* Mutant: equal work displaces too.                                       *)
DisplacesOnTie(s, work) == ~Terminal(s) /\ work >= chainwork[best_header]

(* Only a header that is not terminal and has strictly more work displaces *)
(* the most-work header, so equal work keeps the one that arrived first.   *)
Displaces(s, work) == ~Terminal(s) /\ work > chainwork[best_header]

(* Append h with status s under its parent.                                *)
Insert(h, s, c) ==
    LET work == chainwork[Prev[h]] + BlockWork[h] IN
    /\ HasRoom
    /\ entries' = Append(entries, h)
    /\ index' = [index EXCEPT ![h] = Len(entries) + 1]
    /\ height' = [height EXCEPT ![h] = height[Prev[h]] + 1]
    /\ chainwork' = [chainwork EXCEPT ![h] = work]
    /\ status' = [status EXCEPT ![h] = s]
    /\ culprit' = [culprit EXCEPT ![h] = c]
    /\ best_header' = IF Displaces(s, work) THEN h ELSE best_header
    /\ dirty' = Append(dirty, h)
    /\ flagged' = flagged \cup {h}
    /\ UNCHANGED tip

(* What every outcome of accept that stores the header has passed: it is   *)
(* not a duplicate, it has its proof of work, and its parent is known.     *)
Connects(h) ==
    /\ index[h] = 0
    /\ h \in CheckOk
    /\ index[Prev[h]] # 0

(* The latest time this node takes.  The code saturates at the end of the   *)
(* 32-bit time field, which no Time exceeds.                               *)
FutureLimit(now) == now + MaxFuture

(* The parent is invalid: the header inherits the verdict before           *)
(* accept_header or the clock has looked at it.                            *)
AcceptInvalidAncestor(h) ==
    /\ Connects(h)
    /\ Terminal(status[Prev[h]])
    /\ Insert(h, "InvalidAncestor", Culprit(Prev[h]))

(* accept_header refuses it: stored, and never looked at again.            *)
AcceptInvalid(h) ==
    /\ Connects(h)
    /\ ~Terminal(status[Prev[h]])
    /\ h \notin AcceptOk
    /\ Insert(h, "InvalidHeader", Genesis)

(* A new header this node builds on.  One past FutureLimit is refused and  *)
(* not stored: it may be good later.                                       *)
AcceptFirst(h, now) ==
    /\ Connects(h)
    /\ ~Terminal(status[Prev[h]])
    /\ h \in AcceptOk
    /\ Time[h] <= FutureLimit(now)
    /\ Insert(h, "HeaderAccepted", Genesis)

Accept(h, now) ==
    \/ AcceptInvalidAncestor(h)
    \/ AcceptInvalid(h)
    \/ AcceptFirst(h, now)

-----------------------------------------------------------------------------
(* Moving a block through its stages.                                      *)

MarkDirty(b) ==
    /\ dirty' = IF b \in flagged THEN dirty ELSE Append(dirty, b)
    /\ flagged' = flagged \cup {b}

BlockChecked(b) ==
    /\ status[b] = "HeaderAccepted"
    /\ status' = [status EXCEPT ![b] = "BlockChecked"]
    /\ MarkDirty(b)
    /\ UNCHANGED <<entries, index, height, chainwork, culprit, tip,
                   best_header>>

(* Mutants: a block connects on any connected block, and any connected     *)
(* block disconnects.                                                      *)
OnActiveChain(b) == IsConnected(status[Prev[b]])
AnyConnected(b) == status[b] = "Connected"

OnTip(b) == Prev[b] = tip
IsTip(b) == b = tip

Connected(b) ==
    /\ status[b] = "BlockChecked"
    /\ OnTip(b)
    /\ status' = [status EXCEPT ![b] = "Connected"]
    /\ MarkDirty(b)
    /\ tip' = b
    /\ UNCHANGED <<entries, index, height, chainwork, culprit, best_header>>

Disconnected(b) ==
    /\ IsTip(b)
    /\ status[b] = "Connected"
    /\ status' = [status EXCEPT ![b] = "BlockChecked"]
    /\ MarkDirty(b)
    /\ tip' = Prev[b]
    /\ UNCHANGED <<entries, index, height, chainwork, culprit, best_header>>

-----------------------------------------------------------------------------
(* Refusing a block: one ascending pass over the arena hands the verdict   *)
(* down and chooses the most-work header again.                            *)

(* Mutants: the verdict reaches the children only; a verdict is given to   *)
(* entries that have one.                                                  *)
InheritsChildren(from, S) ==
    \A b \in Tree \ {Genesis} :
        b \in S <=> ~Terminal(status[b]) /\ Prev[b] = from
InheritsAgain(from, S) ==
    \A b \in Tree \ {Genesis} :
        b \in S <=> index[b] > index[from] /\ Prev[b] \in S \cup {from}

(* S is what the pass marks: the entries after from, not terminal yet,     *)
(* whose parent has a verdict by the time the pass reaches them.  A parent *)
(* precedes its children, so exactly one S satisfies this.                 *)
Inherits(from, S) ==
    \A b \in Tree \ {Genesis} :
        b \in S <=> /\ index[b] > index[from]
                    /\ ~Terminal(status[b])
                    /\ \/ Prev[b] \in S \cup {from}
                       \/ Terminal(status[Prev[b]])

(* The first of the arena's most-work entries that are not terminal under  *)
(* the verdicts st: what a scan from genesis keeps.                        *)
MostWork(b, st) ==
    /\ ~Terminal(st[b])
    /\ \A c \in Tree : ~Terminal(st[c]) =>
         \/ chainwork[c] < chainwork[b]
         \/ chainwork[c] = chainwork[b] /\ index[b] <= index[c]

PropagateAndReselect(from, S) ==
    /\ status' = [b \in Block |-> IF b = from THEN "InvalidBlock"
                                  ELSE IF b \in S THEN "InvalidAncestor"
                                  ELSE status[b]]
    /\ culprit' = [b \in Block |->
                     IF b \notin S THEN culprit[b]
                     ELSE IF Prev[b] \in S \cup {from} THEN from
                     ELSE Culprit(Prev[b])]
    /\ \E b \in Tree : MostWork(b, status') /\ best_header' = b

(* The descendants are not marked dirty: a replay derives their verdict    *)
(* again from the one entry that is.                                       *)
Invalidate(from) ==
    /\ status[from] \in {"HeaderAccepted", "BlockChecked"}
    /\ MarkDirty(from)
    /\ \E S \in SUBSET (Tree \ {Genesis}) :
         Inherits(from, S) /\ PropagateAndReselect(from, S)
    /\ UNCHANGED <<entries, index, height, chainwork, tip>>

(* The block index has every entry it was owed.                            *)
ClearDirty ==
    /\ dirty # <<>>
    /\ dirty' = <<>>
    /\ flagged' = {b \in flagged : \A i \in DOMAIN dirty : dirty[i] # b}
    /\ UNCHANGED <<entries, index, height, chainwork, status, culprit, tip,
                   best_header>>

Next ==
    \/ \E h \in Header, now \in Clock : Accept(h, now)
    \/ \E b \in Header : BlockChecked(b) \/ Connected(b) \/ Disconnected(b)
    \/ \E b \in Header : Invalidate(b)
    \/ ClearDirty

Spec == Init /\ [][Next]_vars
-----------------------------------------------------------------------------
(* Properties.                                                             *)

(* Every variable has its type, and the arena respects the cap `insert`    *)
(* tests.                                                                  *)
TypeOK ==
    /\ entries \in Seq(Block)
    /\ Len(entries) <= Cap
    /\ index \in [Block -> Nat]
    /\ height \in [Block -> Nat]
    /\ chainwork \in [Block -> Nat]
    /\ status \in [Block -> Status]
    /\ culprit \in [Block -> Block]
    /\ tip \in Block
    /\ best_header \in Block
    /\ dirty \in Seq(Header)
    /\ flagged \subseteq Header

(* The arena and the hash index name each other, a hash enters once, and   *)
(* a child is appended after its parent with its parent's height and work  *)
(* carried on: what the ascending pass of propagate_and_reselect leans on. *)
ParentsFirst ==
    /\ \A i \in DOMAIN entries : index[entries[i]] = i
    /\ \A b \in Tree : index[b] \in DOMAIN entries /\ entries[index[b]] = b
    /\ \A b \in Block : b \in Tree <=> status[b] # "Absent"
    /\ height[Genesis] = 0
    /\ \A b \in Tree \ {Genesis} :
         /\ Prev[b] \in Tree
         /\ index[Prev[b]] < index[b]
         /\ height[b] = height[Prev[b]] + 1
         /\ chainwork[b] = chainwork[Prev[b]] + BlockWork[b]

(* "Connected and on the active chain are the same statement": the         *)
(* connected blocks are one path from genesis to the tip, whatever order   *)
(* connects, disconnects and refusals come in.                             *)
ActiveChain ==
    /\ IsConnected(status[tip])
    /\ \A b \in Block : status[b] = "Genesis" <=> b = Genesis
    /\ \A b \in Header : status[b] = "Connected" =>
         IsConnected(status[Prev[b]]) /\ height[b] <= height[tip]
    /\ \A b, c \in Block :
         /\ IsConnected(status[b])
         /\ IsConnected(status[c])
         /\ height[b] = height[c]
         => b = c

(* A verdict reaches every descendant and nothing else, and names the      *)
(* nearest ancestor that earned it: whether the ancestor was refused       *)
(* before or after its descendants arrived makes no difference.            *)
VerdictClosure ==
    \A b \in Tree \ {Genesis} :
        /\ Terminal(status[Prev[b]]) => Terminal(status[b])
        /\ status[b] = "InvalidAncestor" =>
             /\ Terminal(status[Prev[b]])
             /\ culprit[b] = Culprit(Prev[b])
             /\ Refused(status[culprit[b]])
        /\ ~Terminal(status[b]) => b \in AcceptOk

(* best_header, kept incrementally by insert and rescanned by invalidate,  *)
(* is the first-seen most-work header that is not invalid; in particular   *)
(* the tip never has more work.                                            *)
BestHeader ==
    /\ best_header \in Tree
    /\ MostWork(best_header, status)

(* An entry is owed to the block index at most once, and the dirty flags   *)
(* and the dirty list agree, so a commit never loses or repeats an entry.  *)
DirtyOnce ==
    /\ \A i, j \in DOMAIN dirty : dirty[i] = dirty[j] => i = j
    /\ \A b \in Header : b \in flagged <=> \E i \in DOMAIN dirty : dirty[i] = b
    /\ flagged \subseteq Tree

(* Verdicts are final: nothing leaves the tree, a refused block and its    *)
(* descendants stay refused for the same reason, and no step moves the tip *)
(* by more than one block.                                                 *)
VerdictStep ==
    /\ \A b \in Tree : /\ index'[b] = index[b]
                       /\ height'[b] = height[b]
                       /\ chainwork'[b] = chainwork[b]
                       /\ Terminal(status[b]) => /\ status'[b] = status[b]
                                                 /\ culprit'[b] = culprit[b]
    /\ tip' # tip => \/ tip' \in Header /\ Prev[tip'] = tip
                     \/ tip \in Header /\ tip' = Prev[tip]

(* No step of the tree takes back a verdict or moves the tip two blocks.   *)
VerdictsFinal == [][VerdictStep]_vars

(* The active chain as the sequence of its connected blocks by height: the *)
(* abstract state this module implements ChainStack with.                  *)
TheOne(T) == CHOOSE b \in T : TRUE
ConnectedAt(n) == {b \in Block : IsConnected(status[b]) /\ height[b] = n}
ActiveBlocks == [i \in 1 .. height[tip] + 1 |-> TheOne(ConnectedAt(i - 1))]

Stack == INSTANCE ChainStack WITH chain <- ActiveBlocks

(* Read by height, the connected blocks behave as a stack that connects    *)
(* and disconnects at the tip only: the tree implements ChainStack.        *)
ActiveChainIsStack == Stack!Spec
=============================================================================
