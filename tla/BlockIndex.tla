----------------------------- MODULE BlockIndex -----------------------------
(***************************************************************************)
(* The block index on the disk (store/index.rs, store/mod.rs): the journal *)
(* the chain thread appends changed headers to, the block series whose     *)
(* bytes its records name, the rewrite that replaces the journal, and the  *)
(* load that replays it into a fresh header tree.  A crash may fall        *)
(* between any two steps, and keeps any prefix of what was not synced.     *)
(*                                                                         *)
(* A journal is a sequence of records; a piece of a record that a crash or *)
(* a failed write cut short is the item Torn.  Nothing after a torn piece  *)
(* is ever read: the bytes appended behind it complete its declared length *)
(* and its checksum fails.  A location is a position in the block series.  *)
(***************************************************************************)
EXTENDS HeaderTree, FiniteSets

CONSTANTS
    Chainstate,   \* whether there is a chainstate to connect blocks: not yet
    MinLive,      \* MIN_LIVE_RECORDS
    StaleFactor,  \* how many times the live entries make a rewrite due: 2
    MaxClock,     \* bound: the last reading of the clock
    MaxRestarts,  \* bound: stops and crashes in a behaviour
    MaxFaults,    \* bound: crashes and failed writes in a behaviour
    MaxCommits    \* bound: commits the loop makes in a behaviour

ASSUME IndexAssumption ==
    /\ Chainstate \in BOOLEAN
    /\ MinLive \in Nat
    /\ StaleFactor \in Nat \ {0}
    /\ MaxClock \in Nat
    /\ MaxRestarts \in Nat
    /\ MaxFaults \in Nat
    /\ MaxCommits \in Nat

VARIABLES
    valid,      \* the blocks the stages that need the block will pass
    phase,      \* what the startup thread, then the chain thread, is doing
    pos,        \* the next record to replay, the next entry to apply
    now,        \* node_time: it never runs backwards here
    journal,    \* journal.dat as the process sees it
    jsynced,    \* how many of its items are durable
    replaced,   \* the file a rename replaced, until the directory is synced
    temp,       \* journal.tmp, synced
    records,    \* Journal.records
    blocks,     \* the block series as the process sees it
    bsynced,    \* how many of its items are durable
    location,   \* the location a BlockChecked or Connected status carries
    marker,     \* the block the coin store's set corresponds to
    stopping,   \* the loop has ended, the commit under way is flush's
    taken,      \* how many records the load under way took
    unread,     \* history: some load left records behind it unread
    acked,      \* history: per block, the last record a commit made durable
                \* and the status it was written for
    restarts,   \* history: stops and crashes so far
    faults,     \* history: crashes and failed writes so far
    commits     \* history: commits the loop has begun

disk == <<journal, jsynced, replaced, temp, blocks, bsynced>>
history == <<unread, acked, restarts, faults, commits>>
world == <<valid, now>>
control == <<phase, pos, stopping>>
ivars == <<vars, world, control, disk, records, location, marker, taken,
           history>>

(* An item of the journal: the header, a Persisted tag, a block location.  *)
Record == [header : Header, status : {"Accepted", "Checked", "Connected",
                                      "Refused"}, at : Nat]
Torn == [header |-> Genesis, status |-> "Torn", at |-> 0]
Unnamed == [header |-> Genesis, status |-> "None", at |-> 0]

HasBytes(s) == s \in {"BlockChecked", "Connected"}

(* Mutant: a block's own refusal is not written down.                      *)
PersistedUnrefused(b) ==
    [header |-> b,
     status |-> IF status[b] = "BlockChecked" THEN "Checked"
                ELSE IF status[b] = "Connected" THEN "Connected"
                ELSE "Accepted",
     at |-> IF HasBytes(status[b]) THEN location[b] ELSE 0]

(* What is written of an entry: a refusal only when the block's own stages *)
(* earned it, a location only while the status carries one.                *)
Persisted(b) ==
    [header |-> b,
     status |-> IF status[b] = "BlockChecked" THEN "Checked"
                ELSE IF status[b] = "Connected" THEN "Connected"
                ELSE IF status[b] = "InvalidBlock" THEN "Refused"
                ELSE "Accepted",
     at |-> IF HasBytes(status[b]) THEN location[b] ELSE 0]

(* Mutant: the last change is written first.                               *)
BatchReversed == [i \in DOMAIN dirty |-> Persisted(dirty[Len(dirty) + 1 - i])]

Batch == [i \in DOMAIN dirty |-> Persisted(dirty[i])]

(* Mutant: a rewrite goes through the arena backwards.                     *)
SnapshotReversed ==
    [i \in 1 .. Len(entries) - 1 |-> Persisted(entries[Len(entries) + 1 - i])]

(* A rewrite writes every entry but genesis, in arena order.               *)
Snapshot == [i \in 1 .. Len(entries) - 1 |-> Persisted(entries[i + 1])]

(* The process is gone, and the next one starts with a tree of genesis.    *)
FreshTree ==
    /\ entries' = <<Genesis>>
    /\ index' = [b \in Block |-> IF b = Genesis THEN 1 ELSE 0]
    /\ height' = [b \in Block |-> 0]
    /\ chainwork' = [b \in Block |-> IF b = Genesis THEN BlockWork[b] ELSE 0]
    /\ status' = [b \in Block |-> IF b = Genesis THEN "Genesis" ELSE "Absent"]
    /\ culprit' = [b \in Block |-> Genesis]
    /\ tip' = Genesis
    /\ best_header' = Genesis
    /\ dirty' = <<>>
    /\ flagged' = {}

IndexInit ==
    /\ Init
    /\ valid \in SUBSET Header
    /\ phase = "run" /\ pos = 1 /\ stopping = FALSE
    /\ now = 0
    /\ journal = <<>> /\ jsynced = 0 /\ replaced = <<>> /\ temp = <<>>
    /\ records = 0
    /\ blocks = <<>> /\ bsynced = 0
    /\ location = [b \in Block |-> 0]
    /\ marker = Genesis
    /\ taken = 0
    /\ unread = FALSE
    /\ acked = [b \in Block |-> [said |-> Unnamed, was |-> "Absent"]]
    /\ restarts = 0 /\ faults = 0 /\ commits = 0

-----------------------------------------------------------------------------
(* The chain thread between commits.                                       *)

Tick ==
    /\ now < MaxClock
    /\ now' = now + 1
    /\ UNCHANGED <<vars, valid, control, disk, records, location, marker, taken,
                   history>>

ReceiveHeader(h) ==
    /\ phase = "run"
    /\ Accept(h, now)
    /\ UNCHANGED <<control, world, disk, records, location, marker, taken,
                   history>>

(* The block's bytes go to the series, and their place into its status.    *)
ReceiveBlock(b) ==
    /\ phase = "run"
    /\ BlockChecked(b)
    /\ blocks' = Append(blocks, b)
    /\ location' = [location EXCEPT ![b] = Len(blocks) + 1]
    /\ UNCHANGED <<control, world, journal, jsynced, replaced, temp, bsynced,
                   records, marker, taken, history>>

RefuseBlock(b) ==
    /\ phase = "run"
    /\ b \notin valid
    /\ Invalidate(b)
    /\ UNCHANGED <<control, world, disk, records, location, marker, taken,
                   history>>

(* Validation's reports.  A block reaches validation only once the index   *)
(* has committed where its bytes are.                                      *)
ConnectBlock(b) ==
    /\ Chainstate
    /\ phase = "run"
    /\ b \in valid
    /\ acked[b].said.status \in {"Checked", "Connected"}
    /\ Connected(b)
    /\ UNCHANGED <<control, world, disk, records, location, marker, taken,
                   history>>

DisconnectBlock(b) ==
    /\ phase = "run"
    /\ Disconnected(b)
    /\ UNCHANGED <<control, world, disk, records, location, marker, taken,
                   history>>

(* The coin store commits its manifest whenever it likes.                  *)
CoinCommit ==
    /\ phase \notin {"replay", "apply", "refused"}
    /\ marker # tip
    /\ marker' = tip
    /\ UNCHANGED <<vars, control, world, disk, records, location, taken,
                   history>>

-----------------------------------------------------------------------------
(* ChainStore::commit, one step per point a crash can tell apart.          *)

(* Mutant: a flush leaves the thread in its loop.                          *)
CommittedRuns == "run"

(* Where a commit leaves the thread: back in its loop, or, after the flush *)
(* that ends it, out of the process.  A commit the loop made and that      *)
(* failed ends the loop, and flush tries it again.                         *)
Committed == IF stopping THEN "exit" ELSE "run"
CommitFailed == IF stopping THEN "exit" ELSE "flush"

(* Mutant: the journal is written before the blocks are synced.            *)
SyncNothing == UNCHANGED bsynced

SyncBlocks == bsynced' = Len(blocks)

CommitSync ==
    /\ \/ phase = "run" /\ commits < MaxCommits /\ commits' = commits + 1
       \/ phase = "flush" /\ UNCHANGED commits
    /\ dirty # <<>>
    /\ SyncBlocks
    /\ phase' = "write"
    /\ UNCHANGED <<vars, pos, stopping, world, journal, jsynced, replaced, temp,
                   blocks, records, location, marker, taken, unread, acked,
                   restarts, faults>>

JournalWrite ==
    /\ phase = "write"
    /\ journal' = journal \o Batch
    /\ phase' = "fsync"
    /\ UNCHANGED <<vars, pos, stopping, world, jsynced, replaced, temp, blocks,
                   bsynced, records, location, marker, taken, history>>

(* What a write that did not finish leaves: k whole records of the batch,  *)
(* and perhaps a piece of the next.                                        *)
Partial(written, k, torn) ==
    SubSeq(written, 1, k) \o IF torn THEN <<Torn>> ELSE <<>>

(* write_all gives up partway: the file keeps what it took.                *)
JournalWriteFails(k, torn) ==
    /\ phase = "write"
    /\ faults < MaxFaults
    /\ k < Len(dirty)
    /\ journal' = journal \o Partial(Batch, k, torn)
    /\ phase' = CommitFailed
    /\ stopping' = TRUE
    /\ faults' = faults + 1
    /\ UNCHANGED <<vars, pos, world, jsynced, replaced, temp, blocks, bsynced,
                   records, location, marker, taken, unread, acked, restarts,
                   commits>>

Larger(m, n) == IF m > n THEN m ELSE n

(* rewrite_if_stale: the journal has outgrown the live entries.            *)
Stale == records + Len(dirty) > StaleFactor * Larger(Len(entries), MinLive)

(* The batch is durable; the dirty list is cleared unless a rewrite comes  *)
(* first.                                                                  *)
JournalFsync ==
    /\ phase = "fsync"
    /\ jsynced' = Len(journal)
    /\ records' = records + Len(dirty)
    /\ acked' = [b \in Block |-> IF b \in flagged
                                 THEN [said |-> Persisted(b), was |-> status[b]]
                                 ELSE acked[b]]
    /\ \/ Stale /\ phase' = "rewrite" /\ UNCHANGED vars
       \/ ~Stale /\ phase' = Committed /\ ClearDirty
    /\ UNCHANGED <<pos, stopping, world, journal, replaced, temp, blocks,
                   bsynced, location, marker, taken, unread, restarts,
                   faults, commits>>

(* The temporary file, written and synced.                                 *)
RewriteTemp ==
    /\ phase = "rewrite"
    /\ temp' = Snapshot
    /\ phase' = "rename"
    /\ UNCHANGED <<vars, pos, stopping, world, journal, jsynced, replaced,
                   blocks, bsynced, records, location, marker, taken,
                   history>>

RewriteRename ==
    /\ phase = "rename"
    /\ journal' = temp
    /\ jsynced' = Len(temp)
    /\ replaced' = journal
    /\ temp' = <<>>
    /\ phase' = "dirsync"
    /\ UNCHANGED <<vars, pos, stopping, world, blocks, bsynced, records,
                   location, marker, taken, history>>

RewriteDone ==
    /\ phase = "dirsync"
    /\ replaced' = <<>>
    /\ records' = Len(journal)
    /\ phase' = Committed
    /\ ClearDirty
    /\ UNCHANGED <<pos, stopping, world, journal, jsynced, temp, blocks,
                   bsynced, location, marker, taken, history>>

-----------------------------------------------------------------------------
(* Stopping, crashing and loading.                                         *)

(* The loop ends, and flush commits what is dirty.                         *)
Stop ==
    /\ phase = "run"
    /\ restarts < MaxRestarts
    /\ phase' = IF dirty = <<>> THEN "exit" ELSE "flush"
    /\ stopping' = TRUE
    /\ UNCHANGED <<vars, pos, world, disk, records, location, marker, taken,
                   history>>

(* What the process was holding is lost, and the next one loads.           *)
Forget ==
    /\ FreshTree
    /\ phase' = "replay"
    /\ pos' = 1
    /\ stopping' = FALSE
    /\ temp' = <<>>
    /\ replaced' = <<>>
    /\ location' = [b \in Block |-> 0]
    /\ records' = 0
    /\ taken' = 0
    /\ restarts' = restarts + 1
    /\ UNCHANGED <<world, marker, acked, unread, commits>>

(* A clean exit leaves the files as they are.                              *)
Exit ==
    /\ phase = "exit"
    /\ restarts < MaxRestarts
    /\ Forget
    /\ jsynced' = Len(journal)
    /\ bsynced' = Len(blocks)
    /\ UNCHANGED <<journal, blocks, faults>>

(* A crash keeps what was synced and a prefix of the rest; until the       *)
(* directory is synced it may also take the rename back.                   *)
Crash(k, torn, n) ==
    /\ phase # "exit"
    /\ restarts < MaxRestarts
    /\ faults < MaxFaults
    /\ \/ k \in jsynced .. Len(journal) /\ (torn => k < Len(journal))
          /\ journal' = Partial(journal, k, torn)
       \/ phase = "dirsync" /\ k = 0 /\ ~torn /\ journal' = replaced
    /\ n \in bsynced .. Len(blocks)
    /\ blocks' = SubSeq(blocks, 1, n)
    /\ jsynced' = Len(journal')
    /\ bsynced' = n
    /\ faults' = faults + 1
    /\ Forget

(* Journal::load.  replay puts the headers back, one record at a time.     *)
Whole == pos <= Len(journal) /\ journal[pos] # Torn

(* The refusals that leave a hole in the arena: accept stores nothing.     *)
Refuses(h) ==
    /\ index[h] = 0
    /\ \/ ~Connects(h)
       \/ ~HasRoom
       \/ /\ ~Terminal(status[Prev[h]])
          /\ h \in AcceptOk
          /\ Time[h] > FutureLimit(now)

ReplayRecord ==
    /\ phase = "replay"
    /\ Whole
    /\ \/ index[journal[pos].header] # 0 /\ UNCHANGED vars
       \/ Accept(journal[pos].header, now)
    /\ pos' = pos + 1
    /\ taken' = taken + 1
    /\ records' = records + 1
    /\ UNCHANGED <<phase, stopping, world, disk, location, marker, history>>

ReplayRejected ==
    /\ phase = "replay"
    /\ Whole
    /\ Refuses(journal[pos].header)
    /\ phase' = "apply"
    /\ pos' = 1
    /\ records' = records + 1
    /\ unread' = TRUE
    /\ UNCHANGED <<vars, stopping, world, disk, location, marker, taken, acked,
                   restarts, faults, commits>>

ReplayEnd ==
    /\ phase = "replay"
    /\ ~Whole
    /\ phase' = "apply"
    /\ pos' = 1
    /\ unread' = (unread \/ pos < Len(journal))
    /\ UNCHANGED <<vars, stopping, world, disk, records, location, marker,
                   taken, acked, restarts, faults, commits>>

(* What the records the load took last said of b.                          *)
Named(b, n) == {i \in 1 .. n : journal[i].header = b}
LastRecord(b) ==
    IF Named(b, taken) = {} THEN Unnamed
    ELSE journal[CHOOSE i \in Named(b, taken) :
                   \A j \in Named(b, taken) : j <= i]

(* apply, one entry of the arena at a time, parents first.                 *)
Apply ==
    /\ phase = "apply"
    /\ pos <= Len(entries)
    /\ pos' = pos + 1
    /\ LET b == entries[pos]
           r == LastRecord(b)
           closed == Terminal(status[b]) \/ status[b] = "Genesis"
       IN  \/ /\ closed \/ r.status \in {"None", "Accepted"}
              /\ UNCHANGED <<vars, location>>
           \/ /\ ~closed
              /\ r.status \in {"Checked", "Connected"}
              /\ BlockChecked(b)
              /\ location' = [location EXCEPT ![b] = r.at]
           \/ /\ ~closed
              /\ r.status = "Refused"
              /\ Invalidate(b)
              /\ UNCHANGED location
    /\ UNCHANGED <<phase, stopping, world, disk, records, marker, taken,
                   history>>

Applied == phase = "apply" /\ pos > Len(entries)

(* connect_to_marker: from genesis up the marker's own path, as long as    *)
(* every block on it was last written with its undo record.                *)
ConnectStep ==
    /\ Applied
    /\ marker \in Tree
    /\ tip # marker
    /\ \E b \in Tree : /\ b = AncestorAt(marker, height[tip] + 1)
                      /\ LastRecord(b).status = "Connected"
                      /\ Connected(b)
    /\ UNCHANGED <<control, world, disk, records, location, marker, taken,
                   history>>

(* Mutant: only a marker the index does not know is refused.               *)
RefuseUnknownMarker ==
    /\ Applied
    /\ marker \notin Tree
    /\ phase' = "refused"
    /\ UNCHANGED <<vars, pos, stopping, world, disk, records, location, marker,
                   taken, history>>

(* The marker is not in the index, or a block below it has no undo record: *)
(* the node refuses to start.                                              *)
RefuseToStart ==
    /\ Applied
    /\ \/ marker \notin Tree
       \/ /\ marker \in Tree
          /\ tip # marker
          /\ LET b == AncestorAt(marker, height[tip] + 1)
             IN  LastRecord(b).status # "Connected" \/ status[b] # "BlockChecked"
    /\ phase' = "refused"
    /\ UNCHANGED <<vars, pos, stopping, world, disk, records, location, marker,
                   taken, history>>

LoadEnd ==
    /\ Applied
    /\ tip = marker
    /\ phase' = "run"
    /\ pos' = 1
    /\ taken' = 0
    /\ \/ dirty # <<>> /\ ClearDirty
       \/ dirty = <<>> /\ UNCHANGED vars
    /\ UNCHANGED <<stopping, world, disk, records, location, marker, history>>

Load == \/ ReplayRecord \/ ReplayRejected \/ ReplayEnd
        \/ Apply \/ ConnectStep \/ RefuseToStart \/ LoadEnd

Commit == \/ JournalWrite \/ JournalFsync
          \/ RewriteTemp \/ RewriteRename \/ RewriteDone

IndexNext ==
    \/ Tick \/ CoinCommit
    \/ \E b \in Header : \/ ReceiveHeader(b) \/ ReceiveBlock(b)
                         \/ RefuseBlock(b)
                         \/ ConnectBlock(b) \/ DisconnectBlock(b)
    \/ CommitSync \/ Commit
    \/ \E k \in 0 .. Len(dirty), torn \in BOOLEAN : JournalWriteFails(k, torn)
    \/ Stop \/ Exit
    \/ \E k \in 0 .. Len(journal), torn \in BOOLEAN, n \in 0 .. Len(blocks) :
         Crash(k, torn, n)
    \/ Load

IndexSpec == IndexInit /\ [][IndexNext]_ivars

(* A load and a commit are straight-line code of one thread: it goes on    *)
(* unless the process dies.  Flush is only reached on the way out.         *)
FairIndexSpec ==
    /\ IndexSpec
    /\ WF_ivars(Load)
    /\ WF_ivars(Commit)
    /\ WF_ivars(phase = "flush" /\ CommitSync)
-----------------------------------------------------------------------------
(* Properties.                                                             *)

(* Every variable the disk and the load add has its type.                  *)
IndexTypeOK ==
    /\ phase \in {"run", "flush", "write", "fsync", "rewrite", "rename",
                  "dirsync", "exit", "replay", "apply", "refused"}
    /\ {journal, replaced, temp} \subseteq Seq(Record \cup {Torn})
    /\ jsynced \in 0 .. Len(journal)
    /\ blocks \in Seq(Header)
    /\ bsynced \in 0 .. Len(blocks)
    /\ location \in [Block -> Nat]
    /\ marker \in Block
    /\ {pos, taken, now, records, restarts, faults, commits}
         \subseteq Nat
    /\ {stopping, unread} \subseteq BOOLEAN

(* The one ordering rule: every location a journal record names, in the    *)
(* file in place, in the one a rename replaced and in the one about to     *)
(* replace it, is that block's and is durable, and so survives any crash;  *)
(* a location in the tree is that block's.                                 *)
NamedBytesDurable ==
    /\ \A file \in {journal, replaced, temp} : \A i \in DOMAIN file :
         file[i].at # 0 => /\ file[i].at <= bsynced
                           /\ blocks[file[i].at] = file[i].header
    /\ \A b \in Header : HasBytes(status[b]) =>
         location[b] \in DOMAIN blocks /\ blocks[location[b]] = b

(* A record of a header's parent comes before each of the header's own.    *)
ParentsFirstIn(file) ==
    \A i \in DOMAIN file :
        \/ file[i] = Torn
        \/ Prev[file[i].header] = Genesis
        \/ \E j \in DOMAIN file :
             j < i /\ file[j].header = Prev[file[i].header]

(* A header's record always comes after one of its parent's, although the  *)
(* dirty list is not parents first: a replay never meets an orphan.        *)
JournalParentsFirst == ParentsFirstIn(journal)

(* The only whole record a replay turns down is one of a header stored     *)
(* below a refused block without a look at the clock.                      *)
ReplayStopsOnlyBelowRefusal ==
    phase = "apply" /\ taken < Len(journal) /\ journal[taken + 1] # Torn =>
        LET h == journal[taken + 1].header
        IN  /\ Prev[h] \in Tree
            /\ h \in AcceptOk
            /\ \E j \in 1 .. taken : journal[j].status = "Refused"

(* Every record a commit made durable is still believed: the header is in  *)
(* the tree, a refusal stands, a block's bytes are still known.            *)
CommittedSurvives ==
    phase \notin {"replay", "apply", "refused"} =>
        \A b \in Header :
            LET s == acked[b].said.status
            IN  /\ s # "None" => b \in Tree
                /\ s = "Refused" => Terminal(status[b])
                /\ s \in {"Checked", "Connected"} =>
                     HasBytes(status[b]) \/ Terminal(status[b])

(* What is committed survives every crash, failed write and rewrite, as    *)
(* long as no load has left records behind it unread.                      *)
CommittedSurvivesUnlessUnread == ~unread => CommittedSurvives

(* A replay puts headers back in the order they first arrived, so ties for *)
(* the most work fall the same way after a restart.                        *)
ArenaOrderKept ==
    ~unread /\ phase \notin {"replay", "apply", "refused"} =>
        \A i, j \in DOMAIN journal :
            /\ i < j
            /\ journal[i] # Torn
            /\ journal[j] # Torn
            /\ Named(journal[j].header, j - 1) = {}
            => index[journal[i].header] < index[journal[j].header]

(* A load ends, whatever the journal holds and wherever it is torn: the    *)
(* node runs, or says why it does not start.                               *)
LoadEnds == phase \in {"replay", "apply"} ~> phase \in {"run", "refused"}

(* Once the loop has ended, by a stop or by a commit that failed, the      *)
(* process ends: flush tries once and never goes back to the loop.         *)
StopEnds == stopping ~> (phase = "exit" \/ ~stopping)
=============================================================================
