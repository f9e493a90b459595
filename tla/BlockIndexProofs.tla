-------------------------- MODULE BlockIndexProofs --------------------------
(***************************************************************************)
(* Proofs, for every set of headers, every bound and every point a crash   *)
(* can fall at, that the bytes a record of the block index names are       *)
(* durable before the record exists, that a file of the journal names a    *)
(* parent before its child, and that a load gives the arena back in the    *)
(* order the headers arrived in.  The header tree's own invariant IInv is  *)
(* carried along: it survives commits, crashes and loads.                  *)
(***************************************************************************)
EXTENDS BlockIndex, HeaderTreeProofs

(* The phases of a commit, from the block series' sync to the end.         *)
Writing == {"write", "fsync", "rewrite", "rename", "dirsync"}

(* The items whose location, if any, is a durable one and the header's     *)
(* own, and that have a location if they say the block is held.            *)
Sound == {r \in Record \cup {Torn} :
            /\ r.at # 0 => r.at <= bsynced /\ blocks[r.at] = r.header
            /\ r.status \in {"Checked", "Connected"} => r.at # 0}

ControlOK ==
    /\ phase \in {"run", "flush", "write", "fsync", "rewrite", "rename",
                  "dirsync", "exit", "replay", "apply", "refused"}
    /\ marker \in Block
    /\ now \in Nat /\ records \in Nat /\ restarts \in Nat /\ faults \in Nat
    /\ commits \in Nat

FlagsOK == stopping \in BOOLEAN /\ unread \in BOOLEAN

(* A load has taken the records before its position and no others.         *)
LoadBounds ==
    /\ pos \in Nat \ {0}
    /\ taken \in Nat
    /\ phase = "replay" => taken + 1 = pos /\ taken <= Len(journal)
    /\ phase = "apply" => taken <= Len(journal)

SeriesOK ==
    /\ jsynced \in 0 .. Len(journal)
    /\ blocks \in Seq(Header)
    /\ bsynced \in 0 .. Len(blocks)
    /\ location \in [Block -> Nat]

FilesSound ==
    journal \in Seq(Sound) /\ replaced \in Seq(Sound) /\ temp \in Seq(Sound)

BytesKnown ==
    \A b \in Header : HasBytes(status[b]) =>
        location[b] \in 1 .. Len(blocks) /\ blocks[location[b]] = b

(* While a commit writes, every location in the tree is durable: the block *)
(* series was synced first, and no block arrives before the commit ends.   *)
BytesSynced ==
    phase \in Writing =>
        \A b \in Header : HasBytes(status[b]) => location[b] <= bsynced

DiskInv ==
    /\ IInv
    /\ ControlOK
    /\ FlagsOK
    /\ LoadBounds
    /\ SeriesOK
    /\ FilesSound
    /\ BytesKnown
    /\ BytesSynced

-----------------------------------------------------------------------------
(* What a step of the index does to the tree.                              *)

TreeStep ==
    \/ UNCHANGED vars
    \/ \E h \in Header : Accept(h, now)
    \/ \E b \in Header : BlockChecked(b) \/ Connected(b) \/ Disconnected(b)
                         \/ Invalidate(b)
    \/ ClearDirty
    \/ FreshTree

(* The tree a new process starts with satisfies the tree's invariant.      *)
LEMMA FreshIInv == FreshTree => IInv'
<1> SUFFICES ASSUME FreshTree PROVE IInv'
  BY Zenon
<1>0. Genesis \in Block /\ Header = Block \ {Genesis}
  BY Zenon, ConstantsAssumption DEF Block
<1>1. TypeOK'
  <2>1. <<Genesis>> \in Seq(Block) /\ Len(<<Genesis>>) <= Cap
    BY <1>0, ConstantsAssumption
  <2> QED
    BY <1>0, <2>1, ConstantsAssumption DEF FreshTree, TypeOK, Status
<1>2. Tree' = {Genesis}
  BY <1>0 DEF FreshTree, Tree
<1>3. ParentsFirst'
  BY <1>0, <1>2 DEF FreshTree, ParentsFirst
<1>4. ActiveChain'
  BY Zenon, <1>0 DEF FreshTree, ActiveChain, IsConnected
<1>5. VerdictClosure'
  BY Zenon, <1>2 DEF FreshTree, VerdictClosure
<1>6. BestHeader'
  BY <1>0, <1>2 DEF FreshTree, BestHeader, MostWork, Terminal, Refused
<1>7. DirtyOnce'
  BY DEF FreshTree, DirtyOnce
<1> QED
  BY Zenon, <1>1, <1>3, <1>4, <1>5, <1>6, <1>7 DEF IInv

(* Whatever a step of the index does to the tree preserves its invariant.  *)
LEMMA TreeStepIInv == IInv /\ TreeStep => IInv'
<1> SUFFICES ASSUME IInv, TreeStep PROVE IInv'
  BY Zenon
<1>1. CASE Operation(now)
  BY Zenon, <1>1, OperationIInv
<1> QED
  BY Zenon, <1>1, StutterIInv, FreshIInv DEF TreeStep, Operation

(* An item of a sound journal that a replay reads is a header's record.    *)
LEMMA WholeRecord ==
    ASSUME DiskInv, Whole
    PROVE  pos \in DOMAIN journal /\ journal[pos] \in Record
                                  /\ journal[pos].header \in Header
<1>1. pos \in 1 .. Len(journal)
  BY DEF DiskInv, LoadBounds, Whole, FilesSound
<1>2. journal[pos] \in Sound
  BY <1>1 DEF DiskInv, FilesSound
<1>3. journal[pos] \in Record
  BY Zenon, <1>2 DEF Whole, Sound
<1>4. pos \in DOMAIN journal
  BY <1>1 DEF DiskInv, FilesSound
<1> QED
  BY Zenon, <1>3, <1>4 DEF Record

(* Every step of the index is one of the tree's, or leaves it alone, or    *)
(* starts it afresh.                                                       *)
LEMMA StepOfTree == DiskInv /\ IndexNext => TreeStep
<1> SUFFICES ASSUME DiskInv, IndexNext PROVE TreeStep
  BY Zenon
<1>1. CASE Tick \/ CoinCommit \/ CommitSync \/ Stop \/ Exit
  BY Zenon, <1>1 DEF TreeStep, Tick, CoinCommit, CommitSync, Stop, Exit, Forget
<1>2. CASE \E b \in Header : \/ ReceiveHeader(b) \/ ReceiveBlock(b)
                             \/ RefuseBlock(b)
                             \/ ConnectBlock(b) \/ DisconnectBlock(b)
  BY Zenon, <1>2 DEF TreeStep, ReceiveHeader, ReceiveBlock, RefuseBlock, ConnectBlock,
              DisconnectBlock
<1>3. CASE Commit
  BY Zenon, <1>3 DEF TreeStep, Commit, JournalWrite, JournalFsync, RewriteTemp,
              RewriteRename, RewriteDone
<1>4. CASE \E k \in 0 .. Len(dirty), torn \in BOOLEAN : JournalWriteFails(k, torn)
  BY Zenon, <1>4 DEF TreeStep, JournalWriteFails
<1>5. CASE \E k \in 0 .. Len(journal), torn \in BOOLEAN, n \in 0 .. Len(blocks) :
             Crash(k, torn, n)
  BY Zenon, <1>5 DEF TreeStep, Crash, Forget
<1>6. CASE ReplayRecord
  <2>1. journal[pos].header \in Header
    BY Zenon, <1>6, WholeRecord DEF ReplayRecord
  <2> QED
    BY Zenon, <1>6, <2>1 DEF ReplayRecord, TreeStep
<1>7. CASE Apply
  <2>1. pos \in 1 .. Len(entries)
    BY <1>7 DEF Apply, DiskInv, LoadBounds, IInv, TypeOK
  <2>2. entries[pos] \in Block
    BY <2>1 DEF DiskInv, IInv, TypeOK
  <2>3. status[entries[pos]] # "Genesis" => entries[pos] \in Header
    BY Zenon, <2>2, BlockFacts DEF DiskInv, IInv, ActiveChain
  <2> QED
    BY Zenon, <1>7, <2>3 DEF Apply, TreeStep
<1>8. CASE ConnectStep
  <2>1. PICK b \in Tree : Connected(b)
    BY Zenon, <1>8 DEF ConnectStep
  <2>2. b \in Header
    BY Zenon, <2>1, BlockFacts DEF DiskInv, IInv, ActiveChain, Connected, Tree
  <2> QED
    BY Zenon, <2>1, <2>2 DEF TreeStep
<1>9. CASE ReplayRejected \/ ReplayEnd \/ RefuseToStart \/ LoadEnd
  BY Zenon, <1>9 DEF ReplayRejected, ReplayEnd, RefuseToStart, LoadEnd, TreeStep
<1> QED
  BY Zenon, <1>1, <1>2, <1>3, <1>4, <1>5, <1>6, <1>7, <1>8, <1>9 DEF IndexNext, Load

-----------------------------------------------------------------------------
(* The control state and the load's bounds.                                *)

(* Lengths a step adds to counters are natural numbers.                    *)
LEMMA Lengths ==
    ASSUME DiskInv
    PROVE  /\ Len(dirty) \in Nat /\ Len(entries) \in Nat
           /\ Len(journal) \in Nat /\ Len(temp) \in Nat /\ Len(blocks) \in Nat
<1>1. dirty \in Seq(Header) /\ entries \in Seq(Block)
  BY Zenon DEF DiskInv, IInv, TypeOK
<1>2. journal \in Seq(Sound) /\ temp \in Seq(Sound)
  BY Zenon DEF DiskInv, FilesSound
<1>3. blocks \in Seq(Header)
  BY Zenon DEF DiskInv, SeriesOK
<1> QED
  BY <1>1, <1>2, <1>3

-----------------------------------------------------------------------------
(* The ordering rule: bytes first, then the record that names them.        *)

(* What is written of an entry while every location is durable is sound.   *)
LEMMA PersistedSound ==
    ASSUME DiskInv, phase \in Writing, NEW b \in Header
    PROVE  Persisted(b) \in Sound
<1>1. b \in Block /\ location[b] \in Nat
  BY Zenon, BlockFacts DEF DiskInv, SeriesOK
<1>2. HasBytes(status[b]) => /\ location[b] # 0
                             /\ location[b] <= bsynced
                             /\ blocks[location[b]] = b
  BY DEF DiskInv, BytesKnown, BytesSynced
<1>3. Persisted(b) \in Record
  BY Zenon, <1>1 DEF Persisted, Record
<1>4. Persisted(b).header = b
  BY Zenon DEF Persisted
<1>5. Persisted(b).at = IF HasBytes(status[b]) THEN location[b] ELSE 0
  BY Zenon DEF Persisted
<1>6. Persisted(b).status \in {"Checked", "Connected"} => HasBytes(status[b])
  BY Zenon DEF Persisted, HasBytes
<1> QED
  BY Zenon, <1>2, <1>3, <1>4, <1>5, <1>6 DEF Sound

(* The arena starts with genesis, and every later entry is a header.       *)
LEMMA ArenaHeaders ==
    ASSUME IInv
    PROVE  /\ Len(entries) \in Nat \ {0}
           /\ entries[1] = Genesis
           /\ \A i \in 1 .. Len(entries) - 1 : entries[i + 1] \in Header
<1>1. TypeOK /\ ParentsFirst /\ ActiveChain /\ Genesis \in Block
  BY Zenon, BlockFacts DEF IInv
<1>2. Genesis \in Tree
  BY Zenon, <1>1 DEF ActiveChain, ParentsFirst
<1>8. entries \in Seq(Block) /\ DOMAIN entries = 1 .. Len(entries) /\ Len(entries) \in Nat
  BY <1>1 DEF TypeOK
<1>9. index[Genesis] \in DOMAIN entries /\ \A i \in DOMAIN entries : index[entries[i]] = i
  BY Zenon, <1>1, <1>2 DEF ParentsFirst
<1>3. index[Genesis] \in 1 .. Len(entries) /\ Len(entries) \in Nat
  BY Zenon, <1>8, <1>9
<1>4. 1 \in DOMAIN entries /\ DOMAIN entries = 1 .. Len(entries)
  BY <1>8, <1>3
<1>5. entries[1] \in Block /\ index[entries[1]] = 1
  BY <1>8, <1>9, <1>4
<1>6. entries[1] = Genesis
  <2>1. SUFFICES ASSUME entries[1] # Genesis PROVE FALSE
    BY Zenon
  <2>2. entries[1] \in Tree \ {Genesis}
    BY <2>1, <1>5 DEF Tree
  <2>3. Prev[entries[1]] \in Tree /\ index[Prev[entries[1]]] < 1
    BY Zenon, <1>1, <1>5, <2>2 DEF ParentsFirst
  <2>4. index[Prev[entries[1]]] \in Nat \ {0}
    BY Zenon, <1>1, <2>3 DEF Tree, TypeOK
  <2> QED
    BY <2>3, <2>4
<1>7. ASSUME NEW i \in 1 .. Len(entries) - 1 PROVE entries[i + 1] \in Header
  <2>1. i + 1 \in DOMAIN entries /\ i + 1 # 1
    BY <1>3, <1>4
  <2>2. entries[i + 1] \in Block /\ index[entries[i + 1]] = i + 1
    BY <1>8, <1>9, <2>1
  <2> QED
    BY Zenon, <1>5, <1>6, <2>1, <2>2, BlockFacts
<1> QED
  BY <1>3, <1>6, <1>7

(* So a batch and a snapshot are sequences of sound records.               *)
LEMMA WrittenSound ==
    ASSUME DiskInv, phase \in Writing
    PROVE  /\ Batch \in Seq(Sound) /\ Len(Batch) = Len(dirty)
           /\ Snapshot \in Seq(Sound) /\ Len(Snapshot) = Len(entries) - 1
<1>1. dirty \in Seq(Header) /\ entries \in Seq(Block) /\ ParentsFirst
  BY Zenon DEF DiskInv, IInv, TypeOK
<1>2. \A i \in 1 .. Len(dirty) : dirty[i] \in Header
  BY <1>1
<1>3. \A i \in DOMAIN dirty : Persisted(dirty[i]) \in Sound
  BY <1>1, <1>2, PersistedSound
<1>4. Batch \in Seq(Sound) /\ Len(Batch) = Len(dirty)
  BY SMTT(20), <1>1, <1>3 DEF Batch
<1>5. \A i \in 1 .. Len(entries) - 1 : entries[i + 1] \in Header
  BY Zenon, ArenaHeaders DEF DiskInv
<1>6. Len(entries) \in Nat \ {0}
  BY Zenon, ArenaHeaders DEF DiskInv
<1>7. \A i \in 1 .. Len(entries) - 1 : Persisted(entries[i + 1]) \in Sound
  BY Zenon, <1>5, PersistedSound
<1>8. Snapshot \in Seq(Sound) /\ Len(Snapshot) = Len(entries) - 1
  BY <1>6, <1>7 DEF Snapshot
<1> QED
  BY Zenon, <1>4, <1>8

(* What a write or a crash cut short is still sound.                       *)
LEMMA PartialSound ==
    ASSUME NEW file \in Seq(Sound), NEW k \in 0 .. Len(file), NEW torn
    PROVE  Partial(file, k, torn) \in Seq(Sound)
<1>1. Torn \in Sound
  BY Zenon DEF Sound, Torn
<1>2. SubSeq(file, 1, k) \in Seq(Sound)
  <2>1. \A i \in 1 .. k : file[i] \in Sound
    OBVIOUS
  <2> QED
    BY <2>1
<1>3. (IF torn THEN <<Torn>> ELSE <<>>) \in Seq(Sound)
  BY <1>1
<1> QED
  BY <1>2, <1>3 DEF Partial

(* Every step of the index preserves the invariant.                        *)
LEMMA StepDiskInv == DiskInv /\ [IndexNext]_ivars => DiskInv'

(* Only BlockChecked gives a header a location it did not have.            *)
<1>BytesGained.
    ASSUME IInv, TreeStep, NEW b \in Header,
           HasBytes(status'[b]), ~HasBytes(status[b])
    PROVE  BlockChecked(b)
  <2> USE <1>BytesGained
  <2>1. TypeOK /\ b \in Block /\ b # Genesis
    BY Zenon, BlockFacts DEF IInv
  <2>2. CASE \E h \in Header : Accept(h, now)
    <3>1. PICK h \in Header : Accept(h, now)
      BY Zenon, <2>2
    <3>2. \E s \in {"InvalidAncestor", "InvalidHeader", "HeaderAccepted"} :
            status' = [status EXCEPT ![h] = s]
      BY Zenon, <3>1 DEF Accept, AcceptInvalidAncestor, AcceptInvalid, AcceptFirst, Insert
    <3> QED
      BY Zenon, <2>1, <3>2 DEF HasBytes, TypeOK
  <2>3. CASE \E d \in Header : BlockChecked(d)
    <3>1. PICK d \in Header : BlockChecked(d)
      BY Zenon, <2>3
    <3>2. b = d
      BY Zenon, <2>1, <3>1 DEF BlockChecked, TypeOK, HasBytes
    <3> QED
      BY Zenon, <3>1, <3>2
  <2>4. CASE \E d \in Header : Connected(d) \/ Disconnected(d)
    <3>1. PICK d \in Header : Connected(d) \/ Disconnected(d)
      BY Zenon, <2>4
    <3>2. HasBytes(status[d]) /\ \A c \in Block \ {d} : status'[c] = status[c]
      BY <3>1, <2>1 DEF Connected, Disconnected, TypeOK, HasBytes
    <3> QED
      BY Zenon, <2>1, <3>2
  <2>5. CASE \E d \in Header : Invalidate(d)
    <3>1. PICK d \in Header : Invalidate(d)
      BY Zenon, <2>5
    <3>2. PICK S \in SUBSET (Tree \ {Genesis}) : PropagateAndReselect(d, S)
      BY Zenon, <3>1 DEF Invalidate
    <3>3. status'[b] \in {"InvalidBlock", "InvalidAncestor", status[b]}
      BY Zenon, <2>1, <3>2 DEF PropagateAndReselect
    <3> QED
      BY Zenon, <3>3 DEF HasBytes
  <2>6. CASE UNCHANGED vars \/ ClearDirty
    BY Zenon, <2>6 DEF vars, ClearDirty
  <2>7. CASE FreshTree
    BY Zenon, <2>1, <2>7 DEF FreshTree, HasBytes
  <2> QED
    BY Zenon, <2>2, <2>3, <2>4, <2>5, <2>6, <2>7 DEF TreeStep

(* Every step keeps the control state's type.                              *)
<1>StepControl. DiskInv /\ IndexNext => ControlOK'
  <2> SUFFICES ASSUME DiskInv, IndexNext PROVE ControlOK'
    BY Zenon
  <2>0. ControlOK /\ tip \in Block
    BY Zenon DEF DiskInv, IInv, TypeOK
  <2>1. CASE Tick \/ CoinCommit \/ CommitSync \/ Stop
    BY <2>0, <2>1 DEF ControlOK, Tick, CoinCommit, CommitSync, Stop, control,
                      world, disk, history
  <2>2. CASE \E b \in Header : \/ ReceiveHeader(b) \/ ReceiveBlock(b)
                               \/ RefuseBlock(b)
                               \/ ConnectBlock(b) \/ DisconnectBlock(b)
    BY Zenon, <2>0, <2>2 DEF ControlOK, ReceiveHeader, ReceiveBlock, RefuseBlock,
                ConnectBlock, DisconnectBlock, control, world, history
  <2>3. CASE JournalWrite \/ JournalFsync
    <3>1. CASE JournalWrite
      <4>1. /\ phase' = "fsync"
            /\ UNCHANGED <<marker, now, records, restarts, faults, commits>>
        BY Zenon, <3>1 DEF JournalWrite, world, history
      <4> QED
        BY Zenon, <2>0, <4>1 DEF ControlOK
    <3>2. CASE JournalFsync
      <4>1. phase' \in {"run", "exit", "rewrite"}
        BY Zenon, <3>2 DEF JournalFsync, Committed
      <4>2. records' = records + Len(dirty)
        BY Zenon, <3>2 DEF JournalFsync
      <4>3. UNCHANGED <<marker, now, restarts, faults, commits>>
        BY Zenon, <3>2 DEF JournalFsync, world
      <4> QED
        BY <2>0, <4>1, <4>2, <4>3, Lengths DEF ControlOK
    <3> QED
      BY Zenon, <2>3, <3>1, <3>2
  <2>4. CASE RewriteTemp \/ RewriteRename \/ RewriteDone
    BY Zenon, <2>0, <2>4, Lengths DEF ControlOK, RewriteTemp, RewriteRename, RewriteDone,
                               Committed, world, history
  <2>5. CASE \E k \in 0 .. Len(dirty), torn \in BOOLEAN : JournalWriteFails(k, torn)
    BY <2>0, <2>5 DEF ControlOK, JournalWriteFails, CommitFailed, world
  <2>6. CASE Exit
    BY <2>0, <2>6 DEF ControlOK, Exit, Forget, world
  <2>7. CASE \E k \in 0 .. Len(journal), torn \in BOOLEAN, n \in 0 .. Len(blocks) :
               Crash(k, torn, n)
    <3>1. Forget /\ faults' = faults + 1
      BY Zenon, <2>7 DEF Crash
    <3> QED
      BY <2>0, <3>1 DEF ControlOK, Forget, world
  <2>8. CASE ReplayRecord \/ ReplayRejected \/ ReplayEnd
    BY <2>0, <2>8 DEF ControlOK, ReplayRecord, ReplayRejected, ReplayEnd, world,
                      history
  <2>9. CASE Apply \/ ConnectStep \/ RefuseToStart \/ LoadEnd
    BY Zenon, <2>0, <2>9 DEF ControlOK, Apply, ConnectStep, RefuseToStart, LoadEnd, world,
                      control, history
  <2> QED
    BY Zenon, <2>1, <2>2, <2>3, <2>4, <2>5, <2>6, <2>7, <2>8, <2>9
       DEF IndexNext, Load, Commit

(* Every step keeps the two flags Booleans.                                *)
<1>StepFlags. DiskInv /\ IndexNext => FlagsOK'
  <2> SUFFICES ASSUME DiskInv, IndexNext PROVE FlagsOK'
    BY Zenon
  <2>0. FlagsOK
    BY Zenon DEF DiskInv
  <2>1. CASE Tick \/ CoinCommit \/ CommitSync \/ Stop
    BY <2>0, <2>1, Zenon DEF FlagsOK, Tick, CoinCommit, CommitSync, Stop, control,
                      world, disk, history
  <2>2. CASE \E b \in Header : \/ ReceiveHeader(b) \/ ReceiveBlock(b)
                               \/ RefuseBlock(b)
                               \/ ConnectBlock(b) \/ DisconnectBlock(b)
    BY <2>0, <2>2, Zenon DEF FlagsOK, ReceiveHeader, ReceiveBlock, RefuseBlock,
                ConnectBlock, DisconnectBlock, control, world, history
  <2>3. CASE Commit
    BY <2>0, <2>3, Zenon DEF FlagsOK, Commit, JournalWrite, JournalFsync,
                RewriteTemp, RewriteRename, RewriteDone, world, history
  <2>4. CASE \E k \in 0 .. Len(dirty), torn \in BOOLEAN : JournalWriteFails(k, torn)
    BY <2>0, <2>4, Zenon DEF FlagsOK, JournalWriteFails
  <2>5. CASE Exit \/ \E k \in 0 .. Len(journal), torn \in BOOLEAN,
                        n \in 0 .. Len(blocks) : Crash(k, torn, n)
    BY <2>0, <2>5, Zenon DEF FlagsOK, Exit, Crash, Forget
  <2>6. CASE ReplayRecord \/ ReplayRejected \/ ReplayEnd
    BY <2>0, <2>6, Zenon DEF FlagsOK, ReplayRecord, ReplayRejected, ReplayEnd,
                             history
  <2>7. CASE Apply \/ ConnectStep \/ RefuseToStart \/ LoadEnd
    BY <2>0, <2>7, Zenon DEF FlagsOK, Apply, ConnectStep, RefuseToStart, LoadEnd,
                      control, history
  <2> QED
    BY Zenon, <2>1, <2>2, <2>3, <2>4, <2>5, <2>6, <2>7 DEF IndexNext, Load

(* Every step keeps a load within the journal: no step of a load changes   *)
(* the journal, and a load starts at its first record.                     *)
<1>StepLoadBounds. DiskInv /\ IndexNext => LoadBounds'
  <2> SUFFICES ASSUME DiskInv, IndexNext PROVE LoadBounds'
    BY Zenon
  <2>0. LoadBounds
    BY Zenon DEF DiskInv
  <2>1. CASE Tick \/ CoinCommit \/ CommitSync \/ Stop
    BY Zenon, <2>0, <2>1 DEF LoadBounds, Tick, CoinCommit, CommitSync, Stop, control,
                      disk, history
  <2>2. CASE \E b \in Header : \/ ReceiveHeader(b) \/ ReceiveBlock(b)
                               \/ RefuseBlock(b)
                               \/ ConnectBlock(b) \/ DisconnectBlock(b)
    BY Zenon, <2>0, <2>2 DEF LoadBounds, ReceiveHeader, ReceiveBlock, RefuseBlock,
                ConnectBlock, DisconnectBlock, control, disk
  <2>3. CASE Commit
    BY Zenon, <2>0, <2>3 DEF LoadBounds, Commit, JournalWrite, JournalFsync,
                RewriteTemp, RewriteRename, RewriteDone, Committed
  <2>4. CASE \E k \in 0 .. Len(dirty), torn \in BOOLEAN : JournalWriteFails(k, torn)
    BY Zenon, <2>0, <2>4 DEF LoadBounds, JournalWriteFails, CommitFailed
  <2>5. CASE Exit
    BY <2>5, Lengths DEF LoadBounds, Exit, Forget
  <2>6. CASE \E k \in 0 .. Len(journal), torn \in BOOLEAN, n \in 0 .. Len(blocks) :
               Crash(k, torn, n)
    <3>1. Len(journal') \in Nat
      BY <2>6, Lengths DEF Crash, Partial, DiskInv, FilesSound
    <3> QED
      BY <2>6, <3>1 DEF LoadBounds, Crash, Forget
  <2>7. CASE ReplayRecord
    <3>1. pos <= Len(journal)
      BY Zenon, <2>7 DEF ReplayRecord, Whole
    <3>2. /\ phase = "replay" /\ pos' = pos + 1 /\ taken' = taken + 1
          /\ UNCHANGED <<phase, journal>>
      BY Zenon, <2>7 DEF ReplayRecord, disk
    <3> QED
      BY <2>0, <3>1, <3>2, Lengths DEF LoadBounds
  <2>8. CASE ReplayRejected \/ ReplayEnd
    BY <2>0, <2>8 DEF LoadBounds, ReplayRejected, ReplayEnd, disk
  <2>9. CASE Apply
    <3>1. phase = "apply" /\ pos' = pos + 1 /\ UNCHANGED <<phase, taken, journal>>
      BY Zenon, <2>9 DEF Apply, disk
    <3> QED
      BY <2>0, <3>1 DEF LoadBounds
  <2>10. CASE ConnectStep \/ RefuseToStart \/ LoadEnd
    <3>1. CASE ConnectStep
      <4>1. UNCHANGED <<phase, pos, taken, journal>>
        BY Zenon, <3>1 DEF ConnectStep, control, disk
      <4> QED
        BY Zenon, <2>0, <4>1 DEF LoadBounds
    <3>2. CASE RefuseToStart
      <4>1. phase' = "refused" /\ UNCHANGED <<pos, taken>>
        BY Zenon, <3>2 DEF RefuseToStart
      <4> QED
        BY Zenon, <2>0, <4>1 DEF LoadBounds
    <3>3. CASE LoadEnd
      <4>1. phase' = "run" /\ pos' = 1 /\ taken' = 0
        BY Zenon, <3>3 DEF LoadEnd
      <4> QED
        BY <4>1 DEF LoadBounds
    <3> QED
      BY Zenon, <2>10, <3>1, <3>2, <3>3
  <2> QED
    BY Zenon, <2>1, <2>2, <2>3, <2>4, <2>5, <2>6, <2>7, <2>8, <2>9, <2>10 DEF IndexNext, Load

(* A sound file stays sound as the block series grows, is synced, and is   *)
(* cut after what was synced.                                              *)
<1>SoundKept.
    ASSUME SeriesOK, SeriesOK', bsynced <= bsynced',
           \A i \in 1 .. bsynced : blocks'[i] = blocks[i],
           NEW file \in Seq(Sound)
    PROVE  file \in Seq(Sound')
  <2> USE <1>SoundKept
  <2>1. ASSUME NEW r \in Sound PROVE r \in Sound'
    <3>1. r.at \in Nat
      BY DEF Sound, Record, Torn
    <3>2. r \in Record \cup {Torn} /\ (r.status \in {"Checked", "Connected"} => r.at # 0)
      BY Zenon DEF Sound
    <3>3. r.at # 0 => r.at <= bsynced /\ blocks[r.at] = r.header
      BY Zenon DEF Sound
    <3>4. bsynced \in Nat /\ bsynced' \in Nat
      BY DEF SeriesOK
    <3>5. r.at # 0 => r.at \in 1 .. bsynced
      BY SMTT(20), <3>1, <3>3, <3>4
    <3>6. r.at # 0 => r.at <= bsynced' /\ blocks'[r.at] = r.header
      BY <3>1, <3>3, <3>4, <3>5
    <3> QED
      BY Zenon, <3>2, <3>6 DEF Sound
  <2>2. Sound \subseteq Sound'
    BY Zenon, <2>1
  <2> QED
    BY <2>2

(* A step that leaves the block series and the locations alone, gains no   *)
(* location and writes only sound files keeps the whole invariant.         *)
<1>QuietKeeps.
    ASSUME DiskInv, IInv', ControlOK', FlagsOK', LoadBounds',
           UNCHANGED <<blocks, bsynced, location>>,
           journal' \in Seq(Sound), replaced' \in Seq(Sound), temp' \in Seq(Sound),
           jsynced' \in 0 .. Len(journal'),
           phase' \in Writing => phase \in Writing,
           \A b \in Header : HasBytes(status'[b]) => HasBytes(status[b])
    PROVE  DiskInv'
  <2> USE <1>QuietKeeps
  <2>1. SeriesOK'
    BY Zenon DEF DiskInv, SeriesOK
  <2>2. Sound' = Sound
    BY Zenon DEF Sound
  <2>3. FilesSound'
    BY Zenon, <2>2 DEF FilesSound
  <2>4. BytesKnown' /\ BytesSynced'
    BY Zenon DEF DiskInv, BytesKnown, BytesSynced
  <2> QED
    BY Zenon, <2>1, <2>3, <2>4 DEF DiskInv

(* The last record a load took of a block is one of the journal's, or      *)
(* there is none.                                                          *)
<1>LastRecordSound.
    ASSUME DiskInv, phase = "apply", NEW b
    PROVE  \/ LastRecord(b) = Unnamed
           \/ LastRecord(b) \in Sound /\ LastRecord(b).header = b
  <2> USE <1>LastRecordSound
  <2> DEFINE T == Named(b, taken)
             D == {taken - i : i \in T}
  <2>1. journal \in Seq(Sound) /\ taken \in Nat /\ taken <= Len(journal)
    BY Zenon DEF DiskInv, FilesSound, LoadBounds
  <2>2. CASE T = {}
    BY Zenon, <2>2 DEF LastRecord
  <2>3. CASE T # {}
    <3>1. T \subseteq 1 .. taken
      BY Zenon DEF Named
    <3>2. D \subseteq Nat /\ D # {}
      BY <2>1, <2>3, <3>1
    <3>3. PICK n \in D : \A m \in D : n <= m
      BY Zenon, <3>2, LeastNatural
    <3>4. PICK i \in T : n = taken - i
      BY Zenon, <3>3
    <3>5. \A j \in T : taken - j \in D
      BY Zenon
    <3>6. ASSUME NEW j \in T PROVE j <= i
      <4>1. taken - i <= taken - j
        BY Zenon, <3>3, <3>4, <3>5
      <4>2. i \in Int /\ j \in Int /\ taken \in Int
        BY <2>1, <3>1
      <4> HIDE DEF T, D
      <4> QED
        BY <4>1, <4>2
    <3>7. PICK m \in T : m = CHOOSE k \in T : \A j \in T : j <= k
      BY Zenon, <3>4, <3>6
    <3>8. LastRecord(b) = journal[m]
      BY Zenon, <2>3, <3>7 DEF LastRecord
    <3>9. journal[m].header = b /\ m \in 1 .. Len(journal)
      BY <2>1, <3>1, <3>7 DEF Named
    <3> QED
      BY <2>1, <3>8, <3>9
  <2> QED
    BY Zenon, <2>2, <2>3

(* A block's bytes arrive: the series grows, and only its own location     *)
(* changes.                                                                *)
<1>ReceiveBlockKeeps.
    ASSUME DiskInv, IInv', ControlOK', FlagsOK', LoadBounds', TreeStep,
           NEW b \in Header, ReceiveBlock(b)
    PROVE  DiskInv'
  <2> USE <1>ReceiveBlockKeeps
  <2>1. SeriesOK /\ BytesKnown /\ IInv /\ b \in Block
    BY Zenon, BlockFacts DEF DiskInv
  <2>2. blocks' = Append(blocks, b) /\ UNCHANGED <<journal, jsynced, replaced, temp, bsynced>>
    BY Zenon DEF ReceiveBlock
  <2>3. /\ blocks' \in Seq(Header)
        /\ Len(blocks') = Len(blocks) + 1
        /\ Len(blocks) \in Nat
        /\ \A i \in 1 .. Len(blocks) : blocks'[i] = blocks[i]
        /\ blocks'[Len(blocks) + 1] = b
    BY <2>1, <2>2, AppendFacts DEF SeriesOK
  <2>4. location' = [location EXCEPT ![b] = Len(blocks) + 1]
    BY Zenon DEF ReceiveBlock
  <2>5. SeriesOK'
    BY <2>1, <2>2, <2>3, <2>4 DEF SeriesOK
  <2>6. FilesSound'
    <3>1. bsynced <= bsynced' /\ \A i \in 1 .. bsynced : blocks'[i] = blocks[i]
      BY <2>1, <2>2, <2>3 DEF SeriesOK
    <3> QED
      BY Zenon, <2>1, <2>2, <2>5, <3>1, <1>SoundKept DEF DiskInv, FilesSound
  <2>7. BytesKnown'
    <3>1. ASSUME NEW d \in Header, HasBytes(status'[d])
          PROVE  location'[d] \in 1 .. Len(blocks') /\ blocks'[location'[d]] = d
      <4>1. d \in Block /\ location \in [Block -> Nat]
        BY Zenon, <2>1, BlockFacts DEF SeriesOK
      <4>2. CASE d = b
        <5>1. location'[d] = Len(blocks) + 1
          BY Zenon, <2>4, <4>1, <4>2
        <5> QED
          BY <2>3, <4>2, <5>1
      <4>3. CASE d # b
        <5>1. HasBytes(status[d])
          BY Zenon, <2>1, <3>1, <4>1, <4>3 DEF ReceiveBlock, BlockChecked, IInv, TypeOK
        <5>2. location'[d] = location[d]
          BY Zenon, <2>4, <4>1, <4>3
        <5>3. location[d] \in 1 .. Len(blocks) /\ blocks[location[d]] = d
          BY Zenon, <2>1, <5>1 DEF BytesKnown
        <5> QED
          BY <2>3, <5>2, <5>3
      <4> QED
        BY Zenon, <4>2, <4>3
    <3> QED
      BY Zenon, <3>1 DEF BytesKnown
  <2>8. BytesSynced'
    BY Zenon DEF ReceiveBlock, control, BytesSynced, Writing
  <2> QED
    BY Zenon, <2>5, <2>6, <2>7, <2>8 DEF DiskInv

(* A load gives a block the location its last record names.                *)
<1>ApplyKeeps.
    ASSUME DiskInv, IInv', ControlOK', FlagsOK', LoadBounds', TreeStep, Apply
    PROVE  DiskInv'
  <2> USE <1>ApplyKeeps
  <2>1. /\ SeriesOK /\ BytesKnown /\ IInv /\ FilesSound
        /\ phase = "apply" /\ phase' = "apply"
    BY Zenon DEF DiskInv, Apply
  <2>2. UNCHANGED disk
    BY Zenon DEF Apply
  <2>3. CASE UNCHANGED location /\ \A b \in Header : HasBytes(status'[b]) => HasBytes(status[b])
    BY Zenon, <2>1, <2>2, <2>3, <1>QuietKeeps DEF disk, FilesSound, SeriesOK, Writing
  <2>4. CASE \E b \in Block : /\ LastRecord(b).status \in {"Checked", "Connected"}
                              /\ BlockChecked(b)
                              /\ location' = [location EXCEPT ![b] = LastRecord(b).at]
    <3>1. PICK b \in Block : /\ LastRecord(b).status \in {"Checked", "Connected"}
                             /\ BlockChecked(b)
                             /\ location' = [location EXCEPT ![b] = LastRecord(b).at]
      BY Zenon, <2>4
    <3>2. LastRecord(b) \in Sound /\ LastRecord(b).header = b
      <4>1. LastRecord(b) # Unnamed
        BY <3>1 DEF Unnamed
      <4> QED
        BY Zenon, <2>1, <4>1, <1>LastRecordSound
    <3>3. PICK at : at = LastRecord(b).at
      BY Zenon
    <3>4. at \in Nat /\ at # 0 /\ at <= bsynced /\ blocks[at] = b
      <4>1. at \in Nat
        <5>1. LastRecord(b) \in Record \/ LastRecord(b) = Torn
          BY Zenon, <3>2 DEF Sound
        <5>2. \A r \in Record : r.at \in Nat
          BY Zenon DEF Record
        <5>3. Torn.at = 0
          BY Zenon DEF Torn
        <5> QED
          BY <3>3, <5>1, <5>2, <5>3
      <4>2. at # 0
        BY Zenon, <3>1, <3>2, <3>3 DEF Sound
      <4>3. at # 0 => at <= bsynced /\ blocks[at] = b
        BY Zenon, <3>2, <3>3 DEF Sound
      <4> QED
        BY Zenon, <4>1, <4>2, <4>3
    <3>5. at \in 1 .. Len(blocks)
      BY <2>1, <3>4 DEF SeriesOK
    <3>6. SeriesOK'
      BY Zenon, <2>1, <2>2, <3>1, <3>3, <3>4 DEF SeriesOK, disk
    <3>7. Sound' = Sound
      BY Zenon, <2>2 DEF Sound, disk
    <3>8. FilesSound'
      BY Zenon, <2>1, <2>2, <3>7 DEF FilesSound, disk
    <3>9. BytesKnown'
      <4>1. ASSUME NEW d \in Header, HasBytes(status'[d])
            PROVE  location'[d] \in 1 .. Len(blocks) /\ blocks[location'[d]] = d
        <5>1. d \in Block /\ location \in [Block -> Nat]
          BY Zenon, <2>1, BlockFacts DEF SeriesOK
        <5>2. CASE d = b
          BY Zenon, <3>1, <3>3, <3>4, <3>5, <5>1, <5>2
        <5>3. CASE d # b
          <6>1. HasBytes(status[d])
            BY Zenon, <2>1, <3>1, <4>1, <5>1, <5>3 DEF BlockChecked, IInv, TypeOK
          <6>2. location'[d] = location[d]
            BY Zenon, <3>1, <5>1, <5>3
          <6> QED
            BY Zenon, <2>1, <6>1, <6>2 DEF BytesKnown
        <5> QED
          BY Zenon, <5>2, <5>3
      <4> QED
        BY Zenon, <2>2, <4>1 DEF BytesKnown, disk
    <3>10. BytesSynced'
      BY Zenon, <2>1 DEF BytesSynced, Writing
    <3> QED
      BY Zenon, <3>6, <3>8, <3>9, <3>10 DEF DiskInv
  <2>5. entries[pos] \in Block
    <3>1. entries \in Seq(Block)
      BY Zenon, <2>1 DEF IInv, TypeOK
    <3>2. pos \in 1 .. Len(entries)
      <4>1. pos <= Len(entries)
        BY Zenon DEF Apply
      <4>2. pos \in Nat \ {0}
        BY Zenon DEF DiskInv, LoadBounds
      <4>3. Len(entries) \in Nat
        BY <3>1
      <4> QED
        BY <4>1, <4>2, <4>3
    <3> QED
      BY <3>1, <3>2
  <2>6. CASE UNCHANGED <<vars, location>> \/ (Invalidate(entries[pos]) /\ UNCHANGED location)
    <3>1. ASSUME NEW b \in Header, HasBytes(status'[b]) PROVE HasBytes(status[b])
      <4>1. SUFFICES ASSUME ~HasBytes(status[b]) PROVE FALSE
        BY Zenon
      <4>2. BlockChecked(b)
        BY Zenon, <2>1, <3>1, <4>1, <1>BytesGained
      <4>3. status'[b] = "BlockChecked" /\ status[b] = "HeaderAccepted"
        BY Zenon, <2>1, <4>2, BlockFacts DEF BlockChecked, IInv, TypeOK
      <4>4. CASE UNCHANGED <<vars, location>>
        BY Zenon, <4>3, <4>4 DEF vars
      <4>5. CASE Invalidate(entries[pos])
        <5>1. PICK S : PropagateAndReselect(entries[pos], S)
          BY Zenon, <4>5 DEF Invalidate
        <5>2. status'[b] \in {"InvalidBlock", "InvalidAncestor", status[b]}
          BY Zenon, <5>1, BlockFacts DEF PropagateAndReselect
        <5> QED
          BY Zenon, <4>3, <5>2
      <4> QED
        BY Zenon, <2>6, <4>4, <4>5
    <3> QED
      BY Zenon, <2>3, <2>6, <3>1
  <2> QED
    BY Zenon, <2>4, <2>5, <2>6 DEF Apply
<1> SUFFICES ASSUME DiskInv, [IndexNext]_ivars PROVE DiskInv'
  BY Zenon
<1>0. CASE UNCHANGED ivars
  <2>1. IInv'
    BY Zenon, <1>0, StutterIInv DEF ivars, DiskInv
  <2>2. ControlOK' /\ LoadBounds'
    BY Zenon, <1>0 DEF ivars, DiskInv, ControlOK, LoadBounds, world, control, disk, history
  <2>3. FlagsOK'
    BY <1>0, Zenon DEF ivars, DiskInv, FlagsOK, control, history
  <2> QED
    BY Zenon, <1>0, <2>1, <2>2, <2>3, <1>QuietKeeps
       DEF ivars, DiskInv, FilesSound, SeriesOK, vars, control, disk
<1> SUFFICES ASSUME IndexNext PROVE DiskInv'
  BY Zenon, <1>0
<1>1. TreeStep /\ IInv' /\ ControlOK' /\ FlagsOK' /\ LoadBounds'
  BY Zenon, StepOfTree, TreeStepIInv, <1>StepControl, <1>StepFlags, <1>StepLoadBounds DEF DiskInv
<1>2. SeriesOK /\ FilesSound /\ IInv
  BY Zenon DEF DiskInv
<1>3. ASSUME NEW b \in Header, HasBytes(status'[b]), ~HasBytes(status[b])
      PROVE  status[b] = "HeaderAccepted" /\ status'[b] = "BlockChecked" /\ BlockChecked(b)
  <2>1. BlockChecked(b)
    BY Zenon, <1>1, <1>2, <1>3, <1>BytesGained
  <2> QED
    BY Zenon, <1>2, <2>1, BlockFacts DEF BlockChecked, IInv, TypeOK
<1>4. ASSUME UNCHANGED status
      PROVE  \A b \in Header : HasBytes(status'[b]) => HasBytes(status[b])
  BY Zenon, <1>4
<1>5. CASE Tick \/ CoinCommit \/ Stop \/ ReplayRejected \/ ReplayEnd \/ RefuseToStart
  BY Zenon, <1>1, <1>2, <1>4, <1>5, <1>QuietKeeps
     DEF Tick, CoinCommit, Stop, ReplayRejected, ReplayEnd, RefuseToStart,
         vars, disk, control, FilesSound, SeriesOK, Writing
<1>6. CASE LoadEnd
  <2>1. UNCHANGED <<status, disk, location>> /\ phase' = "run"
    BY Zenon, <1>6 DEF LoadEnd, ClearDirty, vars
  <2> QED
    BY Zenon, <1>1, <1>2, <1>4, <2>1, <1>QuietKeeps DEF disk, FilesSound, SeriesOK, Writing
<1>7. CASE \E b \in Header : ReceiveHeader(b) \/ RefuseBlock(b) \/ ConnectBlock(b) \/ DisconnectBlock(b)
  <2>1. UNCHANGED <<phase, disk, location>>
    BY Zenon, <1>7 DEF ReceiveHeader, RefuseBlock, ConnectBlock, DisconnectBlock, control
  <2>2. ASSUME NEW b \in Header, HasBytes(status'[b]), ~HasBytes(status[b])
        PROVE  FALSE
    <3>1. status[b] = "HeaderAccepted" /\ status'[b] = "BlockChecked"
      BY Zenon, <1>3, <2>2
    <3>2. b \in Block /\ status \in [Block -> Status]
      BY Zenon, <1>2, BlockFacts DEF IInv, TypeOK
    <3>3. PICK d \in Header : ReceiveHeader(d) \/ RefuseBlock(d) \/ ConnectBlock(d) \/ DisconnectBlock(d)
      BY Zenon, <1>7
    <3>4. CASE ReceiveHeader(d)
      BY Zenon, <3>1, <3>2, <3>4 DEF ReceiveHeader, Accept, AcceptInvalidAncestor, AcceptInvalid, AcceptFirst, Insert
    <3>5. CASE RefuseBlock(d)
      <4>1. PICK S : PropagateAndReselect(d, S)
        BY Zenon, <3>5 DEF RefuseBlock, Invalidate
      <4>2. status'[b] \in {"InvalidBlock", "InvalidAncestor", status[b]}
        BY Zenon, <3>2, <4>1 DEF PropagateAndReselect
      <4> QED
        BY Zenon, <3>1, <4>2
    <3>6. CASE ConnectBlock(d) \/ DisconnectBlock(d)
      BY Zenon, <3>1, <3>2, <3>6 DEF ConnectBlock, DisconnectBlock, Connected, Disconnected
    <3> QED
      BY Zenon, <3>3, <3>4, <3>5, <3>6
  <2> QED
    BY Zenon, <1>1, <1>2, <2>1, <2>2, <1>QuietKeeps DEF disk, FilesSound, SeriesOK
<1>8. CASE ReplayRecord \/ ConnectStep
  <2>1. UNCHANGED <<phase, disk, location>>
    BY Zenon, <1>8 DEF ReplayRecord, ConnectStep, control
  <2>2. ASSUME NEW b \in Header, HasBytes(status'[b]), ~HasBytes(status[b])
        PROVE  FALSE
    <3>1. status[b] = "HeaderAccepted" /\ status'[b] = "BlockChecked"
      BY Zenon, <1>3, <2>2
    <3>2. b \in Block /\ status \in [Block -> Status]
      BY Zenon, <1>2, BlockFacts DEF IInv, TypeOK
    <3>3. CASE ReplayRecord
      BY Zenon, <3>1, <3>2, <3>3 DEF ReplayRecord, Accept, AcceptInvalidAncestor, AcceptInvalid, AcceptFirst, Insert, vars
    <3>4. CASE ConnectStep
      <4>1. PICK d \in Tree : Connected(d)
        BY Zenon, <3>4 DEF ConnectStep
      <4> QED
        BY Zenon, <3>1, <3>2, <4>1 DEF Connected
    <3> QED
      BY Zenon, <1>8, <3>3, <3>4
  <2> QED
    BY Zenon, <1>1, <1>2, <2>1, <2>2, <1>QuietKeeps DEF disk, FilesSound, SeriesOK
<1>9. CASE \E b \in Header : ReceiveBlock(b)
  BY Zenon, <1>1, <1>9, <1>ReceiveBlockKeeps
<1>10. CASE Apply
  BY Zenon, <1>1, <1>10, <1>ApplyKeeps
<1>11. CASE CommitSync
  <2>1. bsynced' = Len(blocks) /\ UNCHANGED <<vars, journal, jsynced, replaced, temp, blocks, location>>
    BY Zenon, <1>11 DEF CommitSync, SyncBlocks
  <2>2. SeriesOK' /\ bsynced <= bsynced'
    BY <1>2, <2>1 DEF SeriesOK
  <2>3. FilesSound'
    BY Zenon, <1>2, <2>1, <2>2, <1>SoundKept DEF FilesSound
  <2>4. BytesKnown' /\ BytesSynced'
    <3>1. UNCHANGED <<status, location, blocks>>
      BY Zenon, <2>1 DEF vars
    <3>2. \A b \in Header : HasBytes(status[b]) =>
            location[b] \in 1 .. Len(blocks) /\ blocks[location[b]] = b
      BY Zenon, <1>1 DEF DiskInv, BytesKnown
    <3>3. BytesKnown'
      BY Zenon, <3>1, <3>2 DEF BytesKnown
    <3>4. \A b \in Header : HasBytes(status'[b]) => location'[b] <= bsynced'
      <4>1. Len(blocks) \in Nat
        BY Zenon, <1>2, Lengths
      <4>2. ASSUME NEW b \in Header, HasBytes(status[b]) PROVE location[b] <= Len(blocks)
        BY <3>2, <4>1, <4>2
      <4> QED
        BY Zenon, <2>1, <3>1, <4>2
    <3> QED
      BY Zenon, <3>3, <3>4 DEF BytesSynced
  <2> QED
    BY Zenon, <1>1, <2>2, <2>3, <2>4 DEF DiskInv
<1>12. CASE JournalWrite
  <2>1. phase \in Writing
    BY Zenon, <1>12 DEF JournalWrite, Writing
  <2>2. journal' \in Seq(Sound) /\ Len(journal') >= Len(journal)
    BY <1>2, <1>12, <2>1, WrittenSound DEF JournalWrite, FilesSound
  <2>3. jsynced' \in 0 .. Len(journal')
    BY <1>2, <1>12, <2>2 DEF JournalWrite, SeriesOK, FilesSound
  <2> QED
    BY Zenon, <1>1, <1>2, <1>4, <1>12, <2>1, <2>2, <2>3, <1>QuietKeeps DEF JournalWrite, FilesSound, vars
<1>13. CASE \E k \in 0 .. Len(dirty), torn \in BOOLEAN : JournalWriteFails(k, torn)
  <2>1. PICK k \in 0 .. Len(dirty), torn \in BOOLEAN : JournalWriteFails(k, torn)
    BY Zenon, <1>13
  <2>2. phase \in Writing
    BY Zenon, <2>1 DEF JournalWriteFails, Writing
  <2>3. Partial(Batch, k, torn) \in Seq(Sound)
    BY Zenon, <2>2, WrittenSound, PartialSound
  <2>4. journal' \in Seq(Sound) /\ Len(journal') >= Len(journal)
    BY <1>2, <2>1, <2>3 DEF JournalWriteFails, FilesSound
  <2>5. jsynced' \in 0 .. Len(journal')
    BY <1>2, <2>1, <2>4 DEF JournalWriteFails, SeriesOK, FilesSound
  <2> QED
    BY Zenon, <1>1, <1>2, <1>4, <2>1, <2>2, <2>4, <2>5, <1>QuietKeeps DEF JournalWriteFails, FilesSound, vars
<1>14. CASE JournalFsync \/ RewriteTemp \/ RewriteRename \/ RewriteDone
  <2>1. phase \in Writing /\ UNCHANGED <<status, blocks, bsynced, location>>
    BY Zenon, <1>14 DEF JournalFsync, RewriteTemp, RewriteRename, RewriteDone, Writing, ClearDirty, vars
  <2>2. journal' \in Seq(Sound) /\ replaced' \in Seq(Sound) /\ temp' \in Seq(Sound)
    <3>1. <<>> \in Seq(Sound) /\ Snapshot \in Seq(Sound)
      BY <2>1, WrittenSound
    <3>2. CASE JournalFsync \/ RewriteDone
      BY Zenon, <1>2, <3>1, <3>2 DEF JournalFsync, RewriteDone, FilesSound
    <3>3. CASE RewriteTemp \/ RewriteRename
      BY Zenon, <1>2, <3>1, <3>3 DEF RewriteTemp, RewriteRename, FilesSound
    <3> QED
      BY Zenon, <1>14, <3>2, <3>3
  <2>3. jsynced' \in 0 .. Len(journal')
    <3>1. \/ jsynced' = Len(journal) /\ journal' = journal
          \/ jsynced' = Len(temp) /\ journal' = temp
          \/ jsynced' = jsynced /\ journal' = journal
      BY Zenon, <1>14 DEF JournalFsync, RewriteTemp, RewriteRename, RewriteDone
    <3>2. jsynced \in 0 .. Len(journal)
      BY Zenon, <1>2 DEF SeriesOK
    <3> QED
      BY <3>1, <3>2, Lengths
  <2> QED
    BY Zenon, <1>1, <1>4, <2>1, <2>2, <2>3, <1>QuietKeeps
<1>15. CASE Exit \/ \E k \in 0 .. Len(journal), torn \in BOOLEAN, n \in 0 .. Len(blocks) :
                    Crash(k, torn, n)
  <2>1. Forget
    BY Zenon, <1>15 DEF Exit, Crash
  <2>2. journal' \in Seq(Sound)
    <3>1. CASE Exit
      BY Zenon, <1>2, <3>1 DEF Exit, FilesSound
    <3>2. ASSUME NEW k \in 0 .. Len(journal), NEW torn \in BOOLEAN, NEW n \in 0 .. Len(blocks),
                 Crash(k, torn, n)
          PROVE  journal' \in Seq(Sound)
      BY Zenon, <1>2, <3>2, PartialSound DEF Crash, FilesSound
    <3> QED
      BY Zenon, <1>15, <3>1, <3>2
  <2>3. /\ blocks' \in Seq(Header)
        /\ Len(blocks') \in Nat
        /\ bsynced' \in bsynced .. Len(blocks')
        /\ \A i \in 1 .. bsynced : blocks'[i] = blocks[i]
    <3>1. CASE Exit
      BY <1>2, <3>1 DEF Exit, SeriesOK
    <3>2. ASSUME NEW k \in 0 .. Len(journal), NEW torn \in BOOLEAN, NEW n \in 0 .. Len(blocks),
                 Crash(k, torn, n)
          PROVE  <2>3!1 /\ <2>3!2 /\ <2>3!3 /\ <2>3!4
      <4>1. n \in bsynced .. Len(blocks) /\ bsynced' = n /\ blocks' = SubSeq(blocks, 1, n)
        BY Zenon, <3>2 DEF Crash
      <4>2. blocks \in Seq(Header) /\ bsynced \in Nat /\ n \in Nat /\ n <= Len(blocks)
        BY <1>2, <4>1 DEF SeriesOK
      <4>3. blocks' \in Seq(Header) /\ Len(blocks') = n /\ \A i \in 1 .. n : blocks'[i] = blocks[i]
        BY <4>1, <4>2
      <4> QED
        BY <4>1, <4>2, <4>3
    <3> QED
      BY Zenon, <1>15, <3>1, <3>2
  <2>4. jsynced' = Len(journal') /\ location' = [b \in Block |-> 0]
    BY Zenon, <1>15, <2>1 DEF Exit, Crash, Forget
  <2>5. SeriesOK' /\ bsynced <= bsynced'
    BY <1>2, <2>2, <2>3, <2>4 DEF SeriesOK
  <2>6. FilesSound'
    <3>1. journal' \in Seq(Sound')
      BY Zenon, <1>2, <2>2, <2>3, <2>5, <1>SoundKept
    <3> QED
      BY <2>1, <3>1 DEF Forget, FilesSound
  <2>7. BytesKnown' /\ BytesSynced'
    <3>1. \A b \in Header : ~HasBytes(status'[b])
      BY Zenon, <2>1, BlockFacts DEF Forget, FreshTree, HasBytes
    <3> QED
      BY Zenon, <3>1 DEF BytesKnown, BytesSynced
  <2> QED
    BY Zenon, <1>1, <2>5, <2>6, <2>7 DEF DiskInv
<1> QED
  BY Zenon, <1>5, <1>6, <1>7, <1>8, <1>9, <1>10, <1>11, <1>12, <1>13, <1>14, <1>15
     DEF IndexNext, Commit, Load

(* An index that was just created satisfies the invariant.                 *)
LEMMA InitDiskInv == IndexInit => DiskInv
<1> SUFFICES ASSUME IndexInit PROVE DiskInv
  BY Zenon
<1>1. IInv
  BY Zenon, InitIInv DEF IndexInit
<1>2. ControlOK /\ LoadBounds /\ SeriesOK /\ FilesSound
  <2>1. ControlOK
    BY Zenon, BlockFacts DEF IndexInit, ControlOK
  <2>2. LoadBounds
    BY DEF IndexInit, LoadBounds
  <2>3. /\ journal = <<>> /\ jsynced = 0 /\ blocks = <<>> /\ bsynced = 0
        /\ location = [b \in Block |-> 0] /\ replaced = <<>> /\ temp = <<>>
    BY Zenon DEF IndexInit
  <2>4. SeriesOK
    BY <2>3 DEF SeriesOK
  <2>5. FilesSound
    BY <2>3 DEF FilesSound
  <2> QED
    BY Zenon, <2>1, <2>2, <2>4, <2>5
<1>3. FlagsOK
  BY Zenon DEF IndexInit, FlagsOK
<1>4. \A b \in Header : ~HasBytes(status[b])
  BY Zenon, BlockFacts DEF IndexInit, Init, HasBytes
<1> QED
  BY Zenon, <1>1, <1>2, <1>3, <1>4 DEF DiskInv, BytesKnown, BytesSynced

(* The inductive invariant of the index holds across commits, rewrites,    *)
(* failed writes, crashes at any point and loads.                          *)
THEOREM DiskInvariant == IndexSpec => []DiskInv
<1> QED
  BY InitDiskInv, StepDiskInv, PTL DEF IndexSpec

(* Every variable of the index keeps its type.                             *)
THEOREM IndexTypeCorrect == IndexSpec => []IndexTypeOK
<1>1. ASSUME DiskInv PROVE IndexTypeOK
  <2>1. Sound \subseteq Record \cup {Torn}
    BY Zenon DEF Sound
  <2>2. {journal, replaced, temp} \subseteq Seq(Record \cup {Torn})
    BY <1>1, <2>1 DEF DiskInv, FilesSound
  <2>3. {stopping, unread} \subseteq BOOLEAN
    BY <1>1, Zenon DEF DiskInv, FlagsOK
  <2>4. {pos, taken, now, records, restarts, faults, commits} \subseteq Nat
    BY Zenon, <1>1 DEF DiskInv, ControlOK, LoadBounds
  <2> QED
    BY Zenon, <1>1, <2>2, <2>3, <2>4 DEF IndexTypeOK, DiskInv, ControlOK, SeriesOK
<1> QED
  BY <1>1, DiskInvariant, PTL

(* ChainStore::commit's one ordering rule holds at every point a crash can *)
(* fall at: a location any journal file names is durable and is the        *)
(* block's own.                                                            *)
THEOREM NamedBytesDurableHolds == IndexSpec => []NamedBytesDurable
<1>1. ASSUME DiskInv PROVE NamedBytesDurable
  <2>1. ASSUME NEW file \in {journal, replaced, temp}, NEW i \in DOMAIN file,
               file[i].at # 0
        PROVE  file[i].at <= bsynced /\ blocks[file[i].at] = file[i].header
    <3>1. file \in Seq(Sound)
      BY Zenon, <1>1 DEF DiskInv, FilesSound
    <3>2. file[i] \in Sound
      BY <3>1
    <3> QED
      BY Zenon, <2>1, <3>2 DEF Sound
  <2>2. ASSUME NEW b \in Header, HasBytes(status[b])
        PROVE  location[b] \in DOMAIN blocks /\ blocks[location[b]] = b
    <3>1. location[b] \in 1 .. Len(blocks) /\ blocks[location[b]] = b
      BY Zenon, <1>1, <2>2 DEF DiskInv, BytesKnown
    <3>2. DOMAIN blocks = 1 .. Len(blocks)
      BY <1>1 DEF DiskInv, SeriesOK
    <3> QED
      BY Zenon, <3>1, <3>2
  <2> QED
    BY Zenon, <2>1, <2>2 DEF NamedBytesDurable
<1> QED
  BY <1>1, DiskInvariant, PTL

(* The header tree's invariants survive every crash, rewrite and load: a   *)
(* replay rebuilds a tree in which parents come first, verdicts are closed *)
(* and the most-work header is the right one.                              *)
THEOREM TreeSurvives == IndexSpec => [](ParentsFirst /\ ActiveChain
                                        /\ VerdictClosure /\ BestHeader)
<1>1. DiskInv => ParentsFirst /\ ActiveChain /\ VerdictClosure /\ BestHeader
  BY Zenon DEF DiskInv, IInv
<1> QED
  BY <1>1, DiskInvariant, PTL

-----------------------------------------------------------------------------
(* Parents come first in every journal file, although the dirty list does  *)
(* not keep them first.                                                    *)

InFile(file, b) == \E i \in DOMAIN file : file[i].header = b

(* Every header of the tree is in the journal or owed to it.               *)
TreeOwed == \A b \in Tree \ {Genesis} : InFile(journal, b) \/ b \in flagged

(* A dirty entry's parent is in the journal, or owed to it earlier.        *)
DirtyAfterParent ==
    \A i \in DOMAIN dirty :
        \/ Prev[dirty[i]] = Genesis
        \/ InFile(journal, Prev[dirty[i]])
        \/ \E j \in DOMAIN dirty : j < i /\ dirty[j] = Prev[dirty[i]]

(* From the batch's write to the end of the commit, and during a load, the *)
(* journal names the whole tree, and so does the file about to replace it. *)
TreeWritten ==
    /\ phase \in {"fsync", "rewrite", "rename", "dirsync", "replay", "apply"} =>
         \A b \in Tree \ {Genesis} : InFile(journal, b)
    /\ phase = "rename" => \A b \in Tree \ {Genesis} : InFile(temp, b)

FilesOrdered ==
    ParentsFirstIn(journal) /\ ParentsFirstIn(replaced) /\ ParentsFirstIn(temp)

OrderInv == FilesOrdered /\ TreeOwed /\ DirtyAfterParent /\ TreeWritten

(* A file with no records names no child before its parent.                *)
LEMMA EmptyOrdered == ParentsFirstIn(<<>>)
BY DEF ParentsFirstIn

(* What concatenation does to the elements of two sequences.               *)
LEMMA ConcatFacts ==
    ASSUME NEW S, NEW p \in Seq(S), NEW q \in Seq(S)
    PROVE  /\ p \o q \in Seq(S)
           /\ Len(p) \in Nat /\ Len(q) \in Nat
           /\ Len(p \o q) = Len(p) + Len(q)
           /\ DOMAIN p = 1 .. Len(p) /\ DOMAIN q = 1 .. Len(q)
           /\ DOMAIN (p \o q) = 1 .. Len(p) + Len(q)
           /\ \A i \in 1 .. Len(p) : (p \o q)[i] = p[i]
           /\ \A i \in 1 .. Len(q) : (p \o q)[Len(p) + i] = q[i]
           /\ \A i \in (Len(p) + 1) .. (Len(p) + Len(q)) :
                i - Len(p) \in 1 .. Len(q) /\ (p \o q)[i] = q[i - Len(p)]
OBVIOUS

(* A file that grows names what it named.                                  *)
LEMMA GrowsNames ==
    ASSUME NEW S, NEW p \in Seq(S), NEW q \in Seq(S), NEW b, InFile(p, b) \/ InFile(q, b)
    PROVE  InFile(p \o q, b)
<1>1. CASE InFile(p, b)
  <2>1. PICK i \in DOMAIN p : p[i].header = b
    BY Zenon, <1>1 DEF InFile
  <2> QED
    BY <2>1, ConcatFacts DEF InFile
<1>2. CASE InFile(q, b)
  <2>1. PICK i \in DOMAIN q : q[i].header = b
    BY Zenon, <1>2 DEF InFile
  <2>2. Len(p) + i \in DOMAIN (p \o q) /\ (p \o q)[Len(p) + i] = q[i]
    BY <2>1, ConcatFacts
  <2> QED
    BY Zenon, <2>1, <2>2 DEF InFile
<1> QED
  BY Zenon, <1>1, <1>2

-----------------------------------------------------------------------------
(* Steps that change the tree.                                             *)

(* A dirty entry's parent is in the tree.                                  *)
LEMMA DirtyInTree ==
    ASSUME IInv, NEW i \in DOMAIN dirty
    PROVE  dirty[i] \in Header /\ dirty[i] \in Tree /\ Prev[dirty[i]] \in Tree
<1>1. TypeOK /\ DirtyOnce /\ ParentsFirst
  BY Zenon DEF IInv
<1>2. dirty[i] \in Header
  BY <1>1 DEF TypeOK
<1>3. dirty[i] \in Tree
  BY Zenon, <1>1, <1>2 DEF DirtyOnce
<1> QED
  BY Zenon, <1>1, <1>2, <1>3, BlockFacts DEF ParentsFirst

(* What the tree's own steps do to the tree and to the dirty list.         *)
LEMMA StepMarks ==
    ASSUME IInv, NEW b \in Header,
           Accept(b, now) \/ BlockChecked(b) \/ Connected(b) \/ Disconnected(b)
             \/ Invalidate(b)
    PROVE  /\ Prev[b] \in Tree
           /\ Tree' \subseteq Tree \cup {b}
           /\ flagged' = flagged \cup {b}
           /\ dirty' = dirty \/ dirty' = Append(dirty, b)
<1>1. TypeOK /\ ParentsFirst /\ b \in Block /\ Prev[b] \in Block /\ b # Genesis
  BY Zenon, BlockFacts DEF IInv
<1>2. CASE Accept(b, now)
  <2>1. Connects(b) /\ \E s, c : Insert(b, s, c)
    BY Zenon, <1>2 DEF Accept, AcceptInvalidAncestor, AcceptInvalid, AcceptFirst
  <2>2. /\ index' = [index EXCEPT ![b] = Len(entries) + 1]
        /\ flagged' = flagged \cup {b}
        /\ dirty' = Append(dirty, b)
    BY Zenon, <2>1 DEF Insert
  <2>3. Tree' \subseteq Tree \cup {b}
    BY Zenon, <1>1, <2>2 DEF Tree, TypeOK
  <2> QED
    BY Zenon, <1>1, <2>1, <2>2, <2>3 DEF Connects, Tree
<1>3. CASE BlockChecked(b) \/ Connected(b) \/ Disconnected(b) \/ Invalidate(b)
  <2>1. MarkDirty(b) /\ index' = index
    BY Zenon, <1>3 DEF BlockChecked, Connected, Disconnected, Invalidate
  <2>2. status[b] # "Absent"
    BY Zenon, <1>3 DEF BlockChecked, Connected, Disconnected, Invalidate
  <2>3. b \in Tree \ {Genesis} /\ Tree' = Tree
    BY Zenon, <1>1, <2>1, <2>2 DEF ParentsFirst, Tree
  <2>4. Prev[b] \in Tree
    BY Zenon, <1>1, <2>3 DEF ParentsFirst
  <2> QED
    BY Zenon, <2>1, <2>3, <2>4 DEF MarkDirty
<1> QED
  BY Zenon, <1>2, <1>3

-----------------------------------------------------------------------------
(* Steps that write.                                                       *)

(* The whole batch is the part of it that leaves nothing out.              *)
LEMMA BatchWhole ==
    ASSUME DiskInv, phase = "write"
    PROVE  Partial(Batch, Len(dirty), FALSE) = Batch
<1>1. Batch \in Seq(Sound) /\ Len(Batch) = Len(dirty)
  BY Zenon, WrittenSound DEF Writing
<1> QED
  BY <1>1 DEF Partial

-----------------------------------------------------------------------------
(* Every step.                                                             *)

(* Every step of the index keeps parents first in every file.              *)
LEMMA StepOrderInv == DiskInv /\ DiskInv' /\ OrderInv /\ [IndexNext]_ivars => OrderInv'

(* Appending to a file in which parents come first items whose parents are *)
(* in it, or come earlier among them, keeps parents first.                 *)
<1>AppendOrdered.
    ASSUME NEW S, NEW p \in Seq(S), NEW q \in Seq(S), ParentsFirstIn(p),
           \A i \in DOMAIN q :
              \/ q[i] = Torn
              \/ Prev[q[i].header] = Genesis
              \/ InFile(p, Prev[q[i].header])
              \/ \E j \in DOMAIN q : j < i /\ q[j].header = Prev[q[i].header]
    PROVE  ParentsFirstIn(p \o q)
  <2> DEFINE r == p \o q
  <2>1. /\ Len(p) \in Nat /\ Len(q) \in Nat
        /\ DOMAIN p = 1 .. Len(p) /\ DOMAIN q = 1 .. Len(q)
        /\ DOMAIN r = 1 .. Len(p) + Len(q)
        /\ \A i \in 1 .. Len(p) : r[i] = p[i]
        /\ \A i \in 1 .. Len(q) : r[Len(p) + i] = q[i]
        /\ \A i \in (Len(p) + 1) .. (Len(p) + Len(q)) :
             i - Len(p) \in 1 .. Len(q) /\ r[i] = q[i - Len(p)]
    BY ConcatFacts
  <2> HIDE DEF r
  <2>2. ASSUME NEW i \in DOMAIN r
        PROVE  \/ r[i] = Torn
               \/ Prev[r[i].header] = Genesis
               \/ \E j \in DOMAIN r : j < i /\ r[j].header = Prev[r[i].header]
    <3>1. CASE i \in 1 .. Len(p)
      <4>1. \/ p[i] = Torn
            \/ Prev[p[i].header] = Genesis
            \/ \E j \in DOMAIN p : j < i /\ p[j].header = Prev[p[i].header]
        BY Zenon, <1>AppendOrdered, <2>1, <3>1 DEF ParentsFirstIn
      <4>2. ASSUME NEW j \in DOMAIN p PROVE j \in DOMAIN r /\ r[j] = p[j]
        BY <2>1
      <4> QED
        BY Zenon, <2>1, <3>1, <4>1, <4>2
    <3>2. CASE i \in (Len(p) + 1) .. (Len(p) + Len(q))
      <4>1. PICK k \in 1 .. Len(q) : k = i - Len(p) /\ r[i] = q[k]
        BY Zenon, <2>1, <3>2
      <4>2. CASE InFile(p, Prev[q[k].header])
        <5>1. PICK j \in DOMAIN p : p[j].header = Prev[q[k].header]
          BY Zenon, <4>2 DEF InFile
        <5>2. j \in DOMAIN r /\ j < i /\ r[j] = p[j]
          BY <2>1, <3>2, <5>1
        <5> QED
          BY Zenon, <4>1, <5>1, <5>2
      <4>3. ASSUME NEW j \in DOMAIN q, j < k, q[j].header = Prev[q[k].header]
            PROVE  \E m \in DOMAIN r : m < i /\ r[m].header = Prev[r[i].header]
        <5>1. PICK m : m = Len(p) + j
          BY Zenon
        <5>2. m \in DOMAIN r /\ m < i /\ r[m] = q[j]
          BY SMTT(20), <2>1, <3>2, <4>1, <4>3, <5>1
        <5> QED
          BY Zenon, <4>1, <4>3, <5>2
      <4>4. k \in DOMAIN q
        BY Zenon, <2>1, <4>1
      <4> QED
        BY Zenon, <1>AppendOrdered, <4>1, <4>2, <4>3, <4>4
    <3>3. i \in 1 .. Len(p) \/ i \in (Len(p) + 1) .. (Len(p) + Len(q))
      BY <2>1
    <3> QED
      BY Zenon, <3>1, <3>2, <3>3
  <2>3. ParentsFirstIn(r)
    BY Zenon, <2>2 DEF ParentsFirstIn
  <2> QED
    BY Zenon, <2>3 DEF r

(* Cutting a file short, with or without a torn piece left behind, keeps   *)
(* parents first.                                                          *)
<1>PartialOrdered.
    ASSUME NEW S, Torn \in S, NEW p \in Seq(S), ParentsFirstIn(p),
           NEW k \in 0 .. Len(p), NEW torn
    PROVE  ParentsFirstIn(Partial(p, k, torn))
  <2>1. PICK head : head = SubSeq(p, 1, k)
    BY Zenon
  <2>2. PICK tail : tail = IF torn THEN <<Torn>> ELSE <<>>
    BY Zenon
  <2>3. /\ head \in Seq(S) /\ Len(head) = k /\ DOMAIN head = 1 .. k
        /\ \A i \in 1 .. k : head[i] = p[i]
        /\ DOMAIN p = 1 .. Len(p) /\ Len(p) \in Nat
    BY <2>1
  <2>4. ParentsFirstIn(head)
    <3>1. ASSUME NEW i \in 1 .. k
          PROVE  \/ head[i] = Torn
                 \/ Prev[head[i].header] = Genesis
                 \/ \E j \in 1 .. k : j < i /\ head[j].header = Prev[head[i].header]
      <4>1. i \in DOMAIN p /\ head[i] = p[i]
        BY <2>3
      <4>2. \/ p[i] = Torn
            \/ Prev[p[i].header] = Genesis
            \/ \E j \in DOMAIN p : j < i /\ p[j].header = Prev[p[i].header]
        BY Zenon, <1>PartialOrdered, <4>1 DEF ParentsFirstIn
      <4>3. ASSUME NEW j \in DOMAIN p, j < i PROVE j \in 1 .. k /\ head[j] = p[j]
        BY <2>3, <4>3
      <4> QED
        BY Zenon, <4>1, <4>2, <4>3
    <3> QED
      BY Zenon, <2>3, <3>1 DEF ParentsFirstIn
  <2>5. tail \in Seq(S) /\ \A i \in DOMAIN tail : tail[i] = Torn
    BY <1>PartialOrdered, <2>2
  <2>6. ParentsFirstIn(head \o tail)
    BY Zenon, <2>3, <2>4, <2>5, <1>AppendOrdered
  <2> QED
    BY Zenon, <2>1, <2>2, <2>6 DEF Partial

(* When the journal names the whole tree nothing is missing from it.       *)
<1>WrittenOwed.
    ASSUME IInv', \A b \in Tree' \ {Genesis} : InFile(journal', b)
    PROVE  TreeOwed' /\ DirtyAfterParent'
  <2>1. TypeOK' /\ DirtyOnce' /\ ParentsFirst'
    BY Zenon, <1>WrittenOwed DEF IInv
  <2>2. ASSUME NEW i \in DOMAIN dirty'
        PROVE  Prev[dirty'[i]] = Genesis \/ InFile(journal', Prev[dirty'[i]])
    <3>1. dirty'[i] \in Header
      BY <2>1 DEF TypeOK
    <3>2. dirty'[i] \in Tree' \ {Genesis}
      BY Zenon, <2>1, <3>1, BlockFacts DEF DirtyOnce
    <3>3. Prev[dirty'[i]] \in Tree'
      BY Zenon, <2>1, <3>2 DEF ParentsFirst
    <3> QED
      BY Zenon, <1>WrittenOwed, <3>3
  <2> QED
    BY Zenon, <1>WrittenOwed, <2>2 DEF TreeOwed, DirtyAfterParent

(* An entry becomes owed after its parent, which is in the journal or owed *)
(* already.                                                                *)
<1>MarkOwed.
    ASSUME IInv, TreeOwed, DirtyAfterParent, UNCHANGED journal,
           NEW b \in Header, Prev[b] \in Tree, Tree' \subseteq Tree \cup {b},
           flagged' = flagged \cup {b},
           dirty' = dirty \/ dirty' = Append(dirty, b)
    PROVE  TreeOwed' /\ DirtyAfterParent'
  <2>1. TypeOK /\ DirtyOnce /\ dirty \in Seq(Header)
    BY Zenon, <1>MarkOwed DEF IInv, TypeOK
  <2>2. TreeOwed'
    BY Zenon, <1>MarkOwed DEF TreeOwed
  <2>3. CASE dirty' = dirty
    BY Zenon, <1>MarkOwed, <2>2, <2>3 DEF DirtyAfterParent
  <2>4. CASE dirty' = Append(dirty, b)
    <3>1. /\ Len(dirty) \in Nat
          /\ DOMAIN dirty = 1 .. Len(dirty)
          /\ DOMAIN dirty' = 1 .. Len(dirty) + 1
          /\ \A i \in 1 .. Len(dirty) : dirty'[i] = dirty[i]
          /\ dirty'[Len(dirty) + 1] = b
      BY <2>1, <2>4, AppendFacts
    <3>2. \/ Prev[b] = Genesis
          \/ InFile(journal, Prev[b])
          \/ \E j \in DOMAIN dirty : dirty[j] = Prev[b]
      <4>1. Prev[b] = Genesis \/ InFile(journal, Prev[b]) \/ Prev[b] \in flagged
        BY Zenon, <1>MarkOwed DEF TreeOwed
      <4>2. Prev[b] \in flagged => \E j \in DOMAIN dirty : dirty[j] = Prev[b]
        BY Zenon, <2>1 DEF DirtyOnce, TypeOK
      <4> QED
        BY Zenon, <4>1, <4>2
    <3>3. ASSUME NEW i \in DOMAIN dirty'
          PROVE  \/ Prev[dirty'[i]] = Genesis
                 \/ InFile(journal, Prev[dirty'[i]])
                 \/ \E j \in DOMAIN dirty' : j < i /\ dirty'[j] = Prev[dirty'[i]]
      <4>1. CASE i \in 1 .. Len(dirty)
        <5>1. \/ Prev[dirty[i]] = Genesis
              \/ InFile(journal, Prev[dirty[i]])
              \/ \E j \in DOMAIN dirty : j < i /\ dirty[j] = Prev[dirty[i]]
          BY Zenon, <1>MarkOwed, <3>1, <4>1 DEF DirtyAfterParent
        <5> QED
          BY <3>1, <4>1, <5>1
      <4>2. CASE i = Len(dirty) + 1
        <5>1. ASSUME NEW j \in DOMAIN dirty, dirty[j] = Prev[b]
              PROVE  j \in DOMAIN dirty' /\ j < i /\ dirty'[j] = Prev[b]
          BY <3>1, <4>2, <5>1
        <5> QED
          BY Zenon, <3>1, <3>2, <4>2, <5>1
      <4> QED
        BY SMTT(20), <3>1, <4>1, <4>2
    <3> QED
      BY Zenon, <1>MarkOwed, <2>2, <3>3 DEF DirtyAfterParent
  <2> QED
    BY Zenon, <1>MarkOwed, <2>3, <2>4

(* A batch written behind the journal, or the part of it a failed write    *)
(* left, keeps parents first.                                              *)
<1>BatchOrdered.
    ASSUME DiskInv, OrderInv, phase = "write", NEW k \in 0 .. Len(dirty), NEW torn
    PROVE  ParentsFirstIn(journal \o Partial(Batch, k, torn))
  <2>1. dirty \in Seq(Header) /\ journal \in Seq(Sound) /\ phase \in Writing
    BY Zenon, <1>BatchOrdered DEF DiskInv, IInv, TypeOK, FilesSound, Writing
  <2>2. Batch \in Seq(Sound) /\ Len(Batch) = Len(dirty)
    BY Zenon, <1>BatchOrdered, <2>1, WrittenSound
  <2>3. DOMAIN dirty = 1 .. Len(dirty) /\ Len(dirty) \in Nat
    BY <2>1
  <2>4. \A i \in 1 .. Len(dirty) : Batch[i].header = dirty[i]
    BY Zenon, <2>3 DEF Batch, Persisted
  <2>5. PICK part : part = Partial(Batch, k, torn)
    BY Zenon
  <2>6. part \in Seq(Sound)
    BY Zenon, <2>2, <2>5, PartialSound
  <2>7. PICK head : head = SubSeq(Batch, 1, k)
    BY Zenon
  <2>8. /\ head \in Seq(Sound) /\ Len(head) = k /\ DOMAIN head = 1 .. k
        /\ \A i \in 1 .. k : head[i] = Batch[i]
    <3>1. \A i \in 1 .. Len(Batch) : Batch[i] \in Sound
      BY <2>2
    <3> QED
      BY <2>2, <2>7, <3>1
  <2>9. PICK tail : tail = IF torn THEN <<Torn>> ELSE <<>>
    BY Zenon
  <2>10. tail \in Seq({Torn}) /\ Len(tail) \in Nat /\ \A i \in 1 .. Len(tail) : tail[i] = Torn
    <3>1. CASE tail = <<>>
      BY <3>1
    <3>2. CASE tail = <<Torn>>
      <4>1. PICK t : t = Torn
        BY Zenon
      <4> QED
        BY <3>2, <4>1
    <3> QED
      BY Zenon, <2>9, <3>1, <3>2
  <2>11. tail \in Seq(Sound)
    BY <2>9, <2>10 DEF Sound, Torn
  <2>12. part = head \o tail
    BY Zenon, <2>5, <2>7, <2>9 DEF Partial
  <2>13. /\ DOMAIN part = 1 .. k + Len(tail)
         /\ \A i \in 1 .. k : part[i] = head[i]
         /\ \A i \in (k + 1) .. (k + Len(tail)) : part[i] = Torn
    <3>1. /\ DOMAIN part = 1 .. k + Len(tail)
          /\ \A i \in 1 .. k : part[i] = head[i]
          /\ \A i \in (k + 1) .. (k + Len(tail)) :
               i - k \in 1 .. Len(tail) /\ part[i] = tail[i - k]
      <4>1. head \in Seq(Sound) /\ tail \in Seq(Sound)
        BY Zenon, <2>8, <2>11
      <4>2. /\ DOMAIN (head \o tail) = 1 .. Len(head) + Len(tail)
            /\ \A i \in 1 .. Len(head) : (head \o tail)[i] = head[i]
            /\ \A i \in (Len(head) + 1) .. (Len(head) + Len(tail)) :
                 /\ i - Len(head) \in 1 .. Len(tail)
                 /\ (head \o tail)[i] = tail[i - Len(head)]
        BY <4>1
      <4>3. Len(head) = k
        BY ZenonT(30), <2>8
      <4> QED
        BY Zenon, <2>12, <4>2, <4>3
    <3> QED
      BY Zenon, <2>10, <3>1
  <2>14. ASSUME NEW i \in DOMAIN part
         PROVE  \/ part[i] = Torn
                \/ Prev[part[i].header] = Genesis
                \/ InFile(journal, Prev[part[i].header])
                \/ \E j \in DOMAIN part : j < i /\ part[j].header = Prev[part[i].header]
    <3>1. CASE i \in 1 .. k
      <4>1. i \in DOMAIN dirty /\ part[i].header = dirty[i]
        BY <2>3, <2>4, <2>8, <2>13, <3>1
      <4>2. \/ Prev[dirty[i]] = Genesis
            \/ InFile(journal, Prev[dirty[i]])
            \/ \E j \in DOMAIN dirty : j < i /\ dirty[j] = Prev[dirty[i]]
        BY Zenon, <1>BatchOrdered, <4>1 DEF OrderInv, DirtyAfterParent
      <4>3. ASSUME NEW j \in DOMAIN dirty, j < i
            PROVE  j \in DOMAIN part /\ part[j].header = dirty[j]
        BY <2>3, <2>4, <2>8, <2>10, <2>13, <3>1, <4>3
      <4> QED
        BY Zenon, <4>1, <4>2, <4>3
    <3>2. CASE i \in (k + 1) .. (k + Len(tail))
      BY Zenon, <2>13, <3>2
    <3> QED
      BY <2>10, <2>13, <3>1, <3>2
  <2>15. ParentsFirstIn(journal)
    BY Zenon, <1>BatchOrdered DEF OrderInv, FilesOrdered
  <2>16. ParentsFirstIn(journal \o part)
    BY Zenon, <2>1, <2>6, <2>14, <2>15, <1>AppendOrdered
  <2> QED
    BY Zenon, <2>5, <2>16

(* Once the batch is behind it the journal names the whole tree.           *)
<1>BatchNames.
    ASSUME DiskInv, OrderInv, phase = "write", NEW b \in Tree \ {Genesis}
    PROVE  InFile(journal \o Batch, b)
  <2>1. /\ Batch \in Seq(Sound) /\ journal \in Seq(Sound)
        /\ dirty \in Seq(Header) /\ DirtyOnce
        /\ b \in Header
    BY Zenon, <1>BatchNames, WrittenSound, BlockFacts DEF DiskInv, IInv, TypeOK, FilesSound, Writing, Tree
  <2>2. CASE InFile(journal, b)
    BY Zenon, <2>1, <2>2, GrowsNames
  <2>3. CASE b \in flagged
    <3>1. PICK i \in DOMAIN dirty : dirty[i] = b
      BY Zenon, <2>1, <2>3 DEF DirtyOnce
    <3>2. i \in DOMAIN Batch /\ Batch[i].header = b
      BY Zenon, <3>1 DEF Batch, Persisted
    <3>3. InFile(Batch, b)
      BY Zenon, <3>2 DEF InFile
    <3> QED
      BY Zenon, <2>1, <3>3, GrowsNames
  <2> QED
    BY Zenon, <1>BatchNames, <2>2, <2>3 DEF OrderInv, TreeOwed

(* A snapshot names the whole tree, parents first: it follows the arena.   *)
<1>SnapshotOrdered.
    ASSUME DiskInv
    PROVE  /\ ParentsFirstIn(Snapshot)
           /\ \A b \in Tree \ {Genesis} : InFile(Snapshot, b)
  <2>1. ParentsFirst /\ TypeOK /\ IInv
    BY Zenon, <1>SnapshotOrdered DEF DiskInv, IInv
  <2>2. /\ Len(entries) \in Nat \ {0} /\ entries[1] = Genesis
        /\ \A i \in 1 .. Len(entries) - 1 : entries[i + 1] \in Header
    BY Zenon, <2>1, ArenaHeaders
  <2>3. DOMAIN entries = 1 .. Len(entries)
    BY <2>1 DEF TypeOK
  <2>4. DOMAIN Snapshot = 1 .. Len(entries) - 1
    BY Zenon DEF Snapshot
  <2>5. ASSUME NEW i \in 1 .. Len(entries) - 1
        PROVE  Snapshot[i].header = entries[i + 1]
    BY Zenon DEF Snapshot, Persisted
  <2>6. ASSUME NEW b \in Tree \ {Genesis}
        PROVE  /\ index[b] - 1 \in 1 .. Len(entries) - 1
               /\ Snapshot[index[b] - 1].header = b
    <3>1. index[b] \in 1 .. Len(entries) /\ entries[index[b]] = b
      BY Zenon, <2>1, <2>3 DEF ParentsFirst
    <3>2. index[b] # 1
      BY Zenon, <2>2, <3>1
    <3>3. PICK i : i = index[b] - 1
      BY Zenon
    <3>4. i \in 1 .. Len(entries) - 1 /\ i + 1 = index[b]
      BY <2>2, <3>1, <3>2, <3>3
    <3>5. Snapshot[i].header = entries[i + 1]
      BY Zenon, <2>5, <3>4
    <3> QED
      BY Zenon, <3>1, <3>3, <3>4, <3>5
  <2>7. ASSUME NEW i \in DOMAIN Snapshot
        PROVE  \/ Prev[Snapshot[i].header] = Genesis
               \/ \E j \in DOMAIN Snapshot :
                    j < i /\ Snapshot[j].header = Prev[Snapshot[i].header]
    <3>1. PICK b : b = entries[i + 1]
      BY Zenon
    <3>2. b \in Header /\ i \in 1 .. Len(entries) - 1 /\ i + 1 \in DOMAIN entries
      BY SMTT(20), <2>2, <2>3, <2>4, <3>1
    <3>3. index[b] = i + 1 /\ Snapshot[i].header = b
      BY Zenon, <2>1, <2>5, <3>1, <3>2 DEF ParentsFirst
    <3>4. b \in Tree \ {Genesis}
      BY <3>2, <3>3, BlockFacts DEF Tree
    <3>5. Prev[b] \in Tree /\ index[Prev[b]] < i + 1 /\ index[Prev[b]] \in Nat
      <4>1. Prev[b] \in Tree /\ index[Prev[b]] < index[b]
        BY Zenon, <2>1, <3>4 DEF ParentsFirst
      <4>2. Prev[b] \in Block
        BY Zenon, <3>2, BlockFacts
      <4> QED
        BY Zenon, <2>1, <3>3, <4>1, <4>2 DEF TypeOK
    <3>6. CASE Prev[b] # Genesis
      <4>1. PICK j : j = index[Prev[b]] - 1
        BY Zenon
      <4>2. j \in 1 .. Len(entries) - 1 /\ Snapshot[j].header = Prev[b]
        BY Zenon, <2>6, <3>5, <3>6, <4>1
      <4>3. j < i
        BY <3>2, <3>5, <4>1
      <4> QED
        BY Zenon, <2>4, <3>3, <4>2, <4>3
    <3> QED
      BY Zenon, <3>3, <3>6
  <2> QED
    BY Zenon, <2>4, <2>6, <2>7 DEF ParentsFirstIn, InFile

(* A step that leaves the files alone keeps them ordered.                  *)
<1>FilesKept.
    ASSUME FilesOrdered, UNCHANGED <<journal, replaced, temp>>
    PROVE  FilesOrdered'
  BY Zenon, <1>FilesKept DEF FilesOrdered, ParentsFirstIn
<1> SUFFICES ASSUME DiskInv, DiskInv', OrderInv, [IndexNext]_ivars PROVE OrderInv'
  BY Zenon
<1>1. IInv /\ IInv' /\ FilesSound /\ FilesOrdered /\ TreeOwed /\ DirtyAfterParent /\ TreeWritten
  BY Zenon DEF DiskInv, OrderInv
<1>2. ASSUME UNCHANGED <<vars, journal>>
      PROVE  Tree' = Tree /\ TreeOwed' /\ DirtyAfterParent'
  <2>1. Tree' = Tree
    BY Zenon, <1>2 DEF vars, Tree
  <2> QED
    BY Zenon, <1>1, <1>2, <2>1 DEF vars, TreeOwed, DirtyAfterParent
<1>3. CASE UNCHANGED ivars
  <2>1. UNCHANGED <<vars, journal, replaced, temp, phase>>
    BY Zenon, <1>3 DEF ivars, control, disk
  <2> QED
    BY Zenon, <1>1, <1>2, <2>1, <1>FilesKept DEF OrderInv, TreeWritten
<1>4. CASE Tick \/ CoinCommit \/ CommitSync \/ Stop \/ RefuseToStart
  <2>1. /\ UNCHANGED <<vars, journal, replaced, temp>>
        /\ phase' = phase \/ phase' \in {"write", "exit", "flush", "refused"}
    BY Zenon, <1>4 DEF Tick, CoinCommit, CommitSync, Stop, RefuseToStart, control, disk
  <2> QED
    BY Zenon, <1>1, <1>2, <2>1, <1>FilesKept DEF OrderInv, TreeWritten
<1>5. CASE ReplayRejected \/ ReplayEnd
  <2>1. /\ UNCHANGED <<vars, journal, replaced, temp>>
        /\ phase = "replay" /\ phase' = "apply"
    BY Zenon, <1>5 DEF ReplayRejected, ReplayEnd, disk
  <2> QED
    BY Zenon, <1>1, <1>2, <2>1, <1>FilesKept DEF OrderInv, TreeWritten
<1>6. CASE \E b \in Header : \/ ReceiveHeader(b) \/ ReceiveBlock(b)
                             \/ RefuseBlock(b)
                             \/ ConnectBlock(b) \/ DisconnectBlock(b)
  <2>1. PICK b \in Header : \/ ReceiveHeader(b) \/ ReceiveBlock(b)
                            \/ RefuseBlock(b)
                            \/ ConnectBlock(b) \/ DisconnectBlock(b)
    BY Zenon, <1>6
  <2>2. UNCHANGED <<journal, replaced, temp>> /\ phase' = "run"
    BY Zenon, <2>1 DEF ReceiveHeader, ReceiveBlock, RefuseBlock, ConnectBlock,
                DisconnectBlock, control, disk
  <2>3. Accept(b, now) \/ BlockChecked(b) \/ Connected(b) \/ Disconnected(b)
          \/ Invalidate(b)
    BY Zenon, <2>1 DEF ReceiveHeader, ReceiveBlock, RefuseBlock, ConnectBlock, DisconnectBlock
  <2>4. TreeOwed' /\ DirtyAfterParent'
    BY Zenon, <1>1, <2>2, <2>3, StepMarks, <1>MarkOwed
  <2> QED
    BY Zenon, <1>1, <2>2, <2>4, <1>FilesKept DEF OrderInv, TreeWritten
<1>7. CASE ReplayRecord \/ Apply \/ ConnectStep
  <2>1. /\ UNCHANGED <<journal, replaced, temp>>
        /\ phase \in {"replay", "apply"} /\ phase' = phase
    BY Zenon, <1>7 DEF ReplayRecord, Apply, ConnectStep, Applied, control, disk
  <2>2. ASSUME NEW b \in Tree' \ {Genesis} PROVE InFile(journal, b)
    <3>1. CASE b \in Tree
      BY Zenon, <1>1, <2>1, <2>2, <3>1 DEF TreeWritten
    <3>2. CASE b \notin Tree
      <4>1. index' # index
        BY Zenon, <2>2, <3>2 DEF Tree
      <4>2. ReplayRecord /\ Accept(journal[pos].header, now)
        BY Zenon, <1>7, <4>1 DEF ReplayRecord, Apply, ConnectStep, vars, BlockChecked,
                          Invalidate, Connected
      <4>3. pos \in DOMAIN journal /\ journal[pos].header \in Header
        BY Zenon, <4>2, WholeRecord DEF ReplayRecord
      <4>4. Tree' \subseteq Tree \cup {journal[pos].header}
        BY Zenon, <1>1, <4>2, <4>3, StepMarks
      <4> QED
        BY Zenon, <2>2, <3>2, <4>3, <4>4 DEF InFile
    <3> QED
      BY Zenon, <3>1, <3>2
  <2>3. TreeOwed' /\ DirtyAfterParent'
    BY Zenon, <1>1, <2>1, <2>2, <1>WrittenOwed
  <2> QED
    BY Zenon, <1>1, <2>1, <2>2, <2>3, <1>FilesKept DEF OrderInv, TreeWritten
<1>8. CASE JournalFsync \/ LoadEnd
  <2>1. /\ UNCHANGED <<journal, replaced, temp, index>>
        /\ phase \in {"fsync", "apply"} /\ phase' \in {"rewrite", "run", "exit"}
    BY Zenon, <1>8 DEF JournalFsync, LoadEnd, Applied, Committed, ClearDirty, vars, disk
  <2>2. Tree' = Tree
    BY Zenon, <2>1 DEF Tree
  <2>3. \A b \in Tree' \ {Genesis} : InFile(journal', b)
    BY Zenon, <1>1, <2>1, <2>2 DEF TreeWritten
  <2>4. TreeOwed' /\ DirtyAfterParent'
    BY Zenon, <1>1, <2>3, <1>WrittenOwed
  <2> QED
    BY Zenon, <1>1, <2>1, <2>3, <2>4, <1>FilesKept DEF OrderInv, TreeWritten
<1>9. CASE JournalWrite
  <2>1. /\ phase = "write" /\ phase' = "fsync"
        /\ journal' = journal \o Batch
        /\ UNCHANGED <<vars, replaced, temp>>
    BY Zenon, <1>9 DEF JournalWrite
  <2>2. ParentsFirstIn(journal')
    <3>1. Len(dirty) \in 0 .. Len(dirty)
      BY Lengths
    <3> QED
      BY Zenon, <2>1, <3>1, <1>BatchOrdered, BatchWhole
  <2>3. FilesOrdered'
    BY Zenon, <1>1, <2>1, <2>2 DEF FilesOrdered, ParentsFirstIn
  <2>4. Tree' = Tree
    BY Zenon, <2>1 DEF vars, Tree
  <2>5. \A b \in Tree' \ {Genesis} : InFile(journal', b)
    BY Zenon, <2>1, <2>4, <1>BatchNames
  <2>6. TreeOwed' /\ DirtyAfterParent'
    BY Zenon, <1>1, <2>5, <1>WrittenOwed
  <2> QED
    BY Zenon, <2>1, <2>3, <2>5, <2>6 DEF OrderInv, TreeWritten
<1>10. CASE \E k \in 0 .. Len(dirty), torn \in BOOLEAN : JournalWriteFails(k, torn)
  <2>1. PICK k \in 0 .. Len(dirty), torn \in BOOLEAN : JournalWriteFails(k, torn)
    BY Zenon, <1>10
  <2>2. /\ phase = "write" /\ phase' \in {"exit", "flush"}
        /\ journal' = journal \o Partial(Batch, k, torn)
        /\ UNCHANGED <<vars, replaced, temp>>
    BY Zenon, <2>1 DEF JournalWriteFails, CommitFailed
  <2>3. ParentsFirstIn(journal')
    BY Zenon, <2>2, <1>BatchOrdered
  <2>4. FilesOrdered'
    BY Zenon, <1>1, <2>2, <2>3 DEF FilesOrdered
  <2>5. Partial(Batch, k, torn) \in Seq(Sound) /\ journal \in Seq(Sound)
    BY Zenon, <1>1, <2>2, WrittenSound, PartialSound DEF FilesSound, Writing
  <2>6. ASSUME NEW b, InFile(journal, b) PROVE InFile(journal', b)
    BY Zenon, <2>2, <2>5, <2>6, GrowsNames
  <2>7. Tree' = Tree
    BY Zenon, <2>2 DEF vars, Tree
  <2>8. TreeOwed' /\ DirtyAfterParent'
    BY Zenon, <1>1, <2>2, <2>6, <2>7 DEF vars, TreeOwed, DirtyAfterParent
  <2> QED
    BY Zenon, <2>2, <2>4, <2>8 DEF OrderInv, TreeWritten
<1>11. CASE RewriteTemp
  <2>1. /\ phase = "rewrite" /\ phase' = "rename" /\ temp' = Snapshot
        /\ UNCHANGED <<vars, journal, replaced>>
    BY Zenon, <1>11 DEF RewriteTemp
  <2>2. Tree' = Tree /\ TreeOwed' /\ DirtyAfterParent'
    BY Zenon, <1>2, <2>1
  <2>3. ParentsFirstIn(temp') /\ \A b \in Tree' \ {Genesis} : InFile(temp', b)
    BY Zenon, <2>1, <2>2, <1>SnapshotOrdered
  <2>4. FilesOrdered'
    BY Zenon, <1>1, <2>1, <2>3 DEF FilesOrdered
  <2> QED
    BY Zenon, <1>1, <2>1, <2>2, <2>3, <2>4 DEF OrderInv, TreeWritten
<1>12. CASE RewriteRename
  <2>1. /\ phase = "rename" /\ phase' = "dirsync"
        /\ journal' = temp /\ replaced' = journal /\ temp' = <<>>
        /\ UNCHANGED vars
    BY Zenon, <1>12 DEF RewriteRename
  <2>2. Tree' = Tree
    BY Zenon, <2>1 DEF vars, Tree
  <2>3. \A b \in Tree' \ {Genesis} : InFile(journal', b)
    BY Zenon, <1>1, <2>1, <2>2 DEF TreeWritten
  <2>4. FilesOrdered'
    BY Zenon, <1>1, <2>1, EmptyOrdered DEF FilesOrdered
  <2>5. TreeOwed' /\ DirtyAfterParent'
    BY Zenon, <1>1, <2>3, <1>WrittenOwed
  <2> QED
    BY Zenon, <2>1, <2>3, <2>4, <2>5 DEF OrderInv, TreeWritten
<1>13. CASE RewriteDone
  <2>1. /\ phase = "dirsync" /\ phase' \in {"run", "exit"}
        /\ replaced' = <<>> /\ UNCHANGED <<journal, temp, index>>
    BY Zenon, <1>13 DEF RewriteDone, Committed, ClearDirty
  <2>2. Tree' = Tree
    BY Zenon, <2>1 DEF Tree
  <2>3. \A b \in Tree' \ {Genesis} : InFile(journal', b)
    BY Zenon, <1>1, <2>1, <2>2 DEF TreeWritten
  <2>4. FilesOrdered'
    BY Zenon, <1>1, <2>1, EmptyOrdered DEF FilesOrdered
  <2>5. TreeOwed' /\ DirtyAfterParent'
    BY Zenon, <1>1, <2>3, <1>WrittenOwed
  <2> QED
    BY Zenon, <2>1, <2>3, <2>4, <2>5 DEF OrderInv, TreeWritten
<1>14. CASE Exit \/ \E k \in 0 .. Len(journal), torn \in BOOLEAN, n \in 0 .. Len(blocks) :
                    Crash(k, torn, n)
  <2>1. Forget
    BY Zenon, <1>14 DEF Exit, Crash
  <2>2. ParentsFirstIn(journal')
    <3>1. CASE Exit
      BY Zenon, <1>1, <3>1 DEF Exit, FilesOrdered, ParentsFirstIn
    <3>2. ASSUME NEW k \in 0 .. Len(journal), NEW torn \in BOOLEAN,
                 NEW n \in 0 .. Len(blocks), Crash(k, torn, n)
          PROVE  ParentsFirstIn(journal')
      <4>1. journal' = Partial(journal, k, torn) \/ journal' = replaced
        BY Zenon, <3>2 DEF Crash
      <4>2. Torn \in Sound /\ journal \in Seq(Sound)
        BY Zenon, <1>1 DEF Sound, Torn, FilesSound
      <4>3. ParentsFirstIn(Partial(journal, k, torn))
        BY Zenon, <1>1, <4>2, <1>PartialOrdered DEF FilesOrdered
      <4> QED
        BY Zenon, <1>1, <4>1, <4>3 DEF FilesOrdered
    <3> QED
      BY Zenon, <1>14, <3>1, <3>2
  <2>3. FilesOrdered'
    <3>1. temp' = <<>> /\ replaced' = <<>>
      BY Zenon, <2>1 DEF Forget
    <3> QED
      BY Zenon, <2>2, <3>1, EmptyOrdered DEF FilesOrdered
  <2>4. Tree' = {Genesis}
    <3>1. index' = [b \in Block |-> IF b = Genesis THEN 1 ELSE 0]
      BY Zenon, <2>1 DEF Forget, FreshTree
    <3> QED
      BY <3>1, BlockFacts DEF Tree
  <2>5. TreeOwed' /\ DirtyAfterParent'
    BY Zenon, <1>1, <2>4, <1>WrittenOwed
  <2> QED
    BY Zenon, <2>3, <2>4, <2>5 DEF OrderInv, TreeWritten
<1> QED
  BY ZenonT(30), <1>3, <1>4, <1>5, <1>6, <1>7, <1>8, <1>9, <1>10, <1>11, <1>12, <1>13, <1>14
     DEF IndexNext, Commit, Load

(* What holds of the journal's order through commits, crashes and loads.   *)
THEOREM OrderInvariant == IndexSpec => []OrderInv
<1>1. IndexInit => OrderInv
  <2> SUFFICES ASSUME IndexInit PROVE OrderInv
    BY Zenon
  <2>1. Tree = {Genesis} /\ dirty = <<>> /\ phase = "run"
    <3>1. /\ index = [b \in Block |-> IF b = Genesis THEN 1 ELSE 0]
          /\ dirty = <<>> /\ phase = "run"
      BY Zenon DEF IndexInit, Init
    <3> QED
      BY <3>1, BlockFacts DEF Tree
  <2>2. FilesOrdered
    BY Zenon, EmptyOrdered DEF IndexInit, FilesOrdered
  <2> QED
    BY SMTT(20), <2>1, <2>2 DEF OrderInv, TreeOwed, DirtyAfterParent, TreeWritten
<1> QED
  BY <1>1, DiskInvariant, StepOrderInv, PTL DEF IndexSpec

(* A record of a header never precedes every record of its parent, in the  *)
(* journal a commit appends to, in the one a rewrite puts in its place and *)
(* in whatever prefix a crash leaves of either.                            *)
THEOREM JournalParentsFirstHolds == IndexSpec => []JournalParentsFirst
<1>1. OrderInv => JournalParentsFirst
  BY Zenon DEF OrderInv, FilesOrdered, JournalParentsFirst
<1> QED
  BY <1>1, OrderInvariant, PTL

-----------------------------------------------------------------------------
(* The first record of a header.                                           *)
First(file, j) == \A i \in 1 .. j - 1 : file[i].header # file[j].header

(* The headers of the first n items are in the arena, and each is named    *)
(* first after every header that precedes it there.                        *)
InOrder(file, n, idx) ==
    \A j \in 1 .. n : file[j] # Torn =>
        /\ idx[file[j].header] # 0
        /\ First(file, j) =>
             \A i \in 1 .. j - 1 :
                file[i] # Torn => idx[file[i].header] < idx[file[j].header]

(* A header the journal does not name arrived after all that it names, and *)
(* of two such headers the one owed earlier arrived earlier.               *)
NewestOwed ==
    \A b \in Tree \ {Genesis} : InFile(journal, b) \/
        \A i \in DOMAIN journal :
            journal[i] # Torn => index[journal[i].header] < index[b]
OwedInOrder ==
    \A i, j \in DOMAIN dirty :
        i < j /\ ~InFile(journal, dirty[j]) => index[dirty[i]] < index[dirty[j]]

(* A replay has put back what the records it took name, and nothing else;  *)
(* a load that left nothing unread took every whole record.                *)
ReplayInOrder ==
    phase = "replay" =>
        /\ InOrder(journal, taken, index)
        /\ \A b \in Tree \ {Genesis} : \E i \in 1 .. taken : journal[i].header = b
ReadAll ==
    phase = "apply" => \A i \in DOMAIN journal : i <= taken \/ journal[i] = Torn

ArenaInv ==
    ~unread =>
        /\ phase # "replay" => InOrder(journal, Len(journal), index)
        /\ ReplayInOrder
        /\ ReadAll
        /\ NewestOwed
        /\ OwedInOrder

-----------------------------------------------------------------------------
(* Facts about files.                                                      *)

(* An item of a file of sound items is torn or a record.                   *)
LEMMA SoundItem ==
    ASSUME NEW file \in Seq(Sound), NEW i \in DOMAIN file
    PROVE  /\ file[i] \in Sound
           /\ file[i] # Torn => file[i] \in Record /\ file[i].header \in Header
           /\ file[i].header \in Header => file[i] # Torn
           /\ file[i].header \in Block
<1>1. file[i] \in Sound
  OBVIOUS
<1>2. file[i] \in Record \/ file[i] = Torn
  BY Zenon, <1>1 DEF Sound
<1>3. CASE file[i] = Torn
  BY <1>1, <1>3, BlockFacts DEF Torn
<1>4. CASE file[i] # Torn
  BY Zenon, <1>1, <1>2, <1>4, BlockFacts DEF Record
<1> QED
  BY Zenon, <1>3, <1>4

(* What is left of a file that was cut short.                              *)
LEMMA PartFacts ==
    ASSUME NEW file \in Seq(Sound), NEW k \in 0 .. Len(file), NEW torn,
           NEW part, part = Partial(file, k, torn)
    PROVE  /\ part \in Seq(Sound) /\ Len(part) \in Nat /\ DOMAIN part = 1 .. Len(part)
           /\ k <= Len(part)
           /\ \A i \in 1 .. k : part[i] = file[i]
           /\ \A i \in 1 .. Len(part) : i > k => part[i] = Torn
<1>1. PICK head : head = SubSeq(file, 1, k)
  BY Zenon
<1>2. PICK tail : tail = IF torn THEN <<Torn>> ELSE <<>>
  BY Zenon
<1>3. part = head \o tail
  BY Zenon, <1>1, <1>2 DEF Partial
<1>4. PICK S : S = Sound
  BY Zenon
<1>5. PICK t : t = Torn
  BY Zenon
<1>6. t \in S
  BY Zenon, <1>4, <1>5 DEF Sound, Torn
<1>7. /\ head \in Seq(S) /\ Len(head) = k /\ \A i \in 1 .. k : head[i] = file[i]
  BY <1>1, <1>4
<1>8. tail \in Seq(S) /\ Len(tail) \in Nat /\ \A i \in 1 .. Len(tail) : tail[i] = t
  BY <1>2, <1>5, <1>6
<1>9. /\ part \in Seq(S)
      /\ Len(part) = Len(head) + Len(tail)
      /\ DOMAIN part = 1 .. Len(part)
      /\ \A i \in 1 .. Len(head) : part[i] = head[i]
      /\ \A i \in (Len(head) + 1) .. (Len(head) + Len(tail)) :
           i - Len(head) \in 1 .. Len(tail) /\ part[i] = tail[i - Len(head)]
  <2>1. head \in Seq(S) /\ tail \in Seq(S)
    BY Zenon, <1>7, <1>8
  <2>2. /\ head \o tail \in Seq(S)
        /\ Len(head \o tail) = Len(head) + Len(tail)
        /\ DOMAIN (head \o tail) = 1 .. Len(head) + Len(tail)
        /\ \A i \in 1 .. Len(head) : (head \o tail)[i] = head[i]
        /\ \A i \in (Len(head) + 1) .. (Len(head) + Len(tail)) :
             /\ i - Len(head) \in 1 .. Len(tail)
             /\ (head \o tail)[i] = tail[i - Len(head)]
    BY <2>1
  <2> QED
    BY Zenon, <1>3, <2>2
<1>10. \A i \in (k + 1) .. (k + Len(tail)) : part[i] = t
  BY Zenon, <1>7, <1>8, <1>9
<1>11. /\ Len(part) = k + Len(tail) /\ Len(part) \in Nat /\ k <= Len(part)
       /\ \A i \in 1 .. k : part[i] = file[i]
       /\ \A i \in 1 .. Len(part) : i > k => part[i] = t
  <2>1. k \in Nat
    OBVIOUS
  <2> QED
    BY SMTT(20), <1>7, <1>8, <1>9, <1>10, <2>1
<1> QED
  BY Zenon, <1>4, <1>5, <1>9, <1>11

-----------------------------------------------------------------------------
(* The order of arrival.                                                   *)

(* Every place in the arena is at or before its end.                       *)
LEMMA PlaceBound ==
    ASSUME IInv, NEW b \in Block
    PROVE  /\ index[b] \in Nat /\ Len(entries) \in Nat /\ index[b] <= Len(entries)
           /\ b \in Tree <=> index[b] # 0
<1>1. TypeOK /\ ParentsFirst
  BY Zenon DEF IInv
<1>2. index[b] \in Nat /\ Len(entries) \in Nat /\ DOMAIN entries = 1 .. Len(entries)
  BY <1>1 DEF TypeOK
<1>3. b \in Tree <=> index[b] # 0
  BY ZenonT(30) DEF Tree
<1>4. CASE b \in Tree
  BY SMTT(20), <1>1, <1>2, <1>3, <1>4 DEF ParentsFirst
<1> QED
  BY <1>2, <1>3, <1>4

(* The file a rewrite is about to put in place is the snapshot of the tree *)
(* as it still is.                                                         *)
SnapshotTaken == phase = "rename" => temp = Snapshot

(* What a snapshot says of each entry, in the order of the arena.          *)
LEMMA SnapshotFacts ==
    ASSUME DiskInv
    PROVE  /\ Len(Snapshot) = Len(entries) - 1 /\ Len(Snapshot) \in Nat
           /\ DOMAIN Snapshot = 1 .. Len(Snapshot)
           /\ \A i \in 1 .. Len(Snapshot) :
                /\ Snapshot[i] = Persisted(entries[i + 1])
                /\ Snapshot[i].header = entries[i + 1]
                /\ entries[i + 1] \in Header
                /\ entries[i + 1] \in Tree
                /\ index[entries[i + 1]] = i + 1
           /\ \A b \in Tree \ {Genesis} :
                \E i \in 1 .. Len(Snapshot) : Snapshot[i] = Persisted(b) /\ Snapshot[i].header = b
<1>1. IInv /\ ParentsFirst /\ TypeOK
  BY Zenon DEF DiskInv, IInv
<1>2. PICK n : n = Len(entries) - 1
  BY Zenon
<1>3. /\ n \in Nat /\ Len(entries) = n + 1 /\ entries[1] = Genesis
      /\ \A i \in 1 .. n : entries[i + 1] \in Header
  BY <1>1, <1>2, ArenaHeaders
<1>4. DOMAIN entries = 1 .. n + 1
  <2>1. entries \in Seq(Block)
    BY Zenon, <1>1 DEF TypeOK
  <2> QED
    BY <1>3, <2>1
<1>5. Snapshot = [i \in 1 .. n |-> Persisted(entries[i + 1])]
  BY Zenon, <1>2 DEF Snapshot
<1>6. Len(Snapshot) = n /\ DOMAIN Snapshot = 1 .. n
  BY <1>3, <1>5
<1>7. ASSUME NEW i \in 1 .. n
      PROVE  /\ Snapshot[i] = Persisted(entries[i + 1])
             /\ Snapshot[i].header = entries[i + 1]
             /\ entries[i + 1] \in Header
             /\ entries[i + 1] \in Tree
             /\ index[entries[i + 1]] = i + 1
  <2>1. i + 1 \in DOMAIN entries /\ i + 1 # 0
    BY <1>3, <1>4
  <2>2. index[entries[i + 1]] = i + 1
    BY Zenon, <1>1, <2>1 DEF ParentsFirst
  <2>3. entries[i + 1] \in Header
    BY Zenon, <1>3
  <2>4. entries[i + 1] \in Tree
    BY Zenon, <2>1, <2>2, <2>3, BlockFacts DEF Tree
  <2>5. Snapshot[i] = Persisted(entries[i + 1])
    BY Zenon, <1>5
  <2>6. Persisted(entries[i + 1]).header = entries[i + 1]
    BY Zenon DEF Persisted
  <2> QED
    BY Zenon, <2>2, <2>3, <2>4, <2>5, <2>6
<1>8. ASSUME NEW b \in Tree \ {Genesis}
      PROVE  \E i \in 1 .. n : Snapshot[i] = Persisted(b) /\ Snapshot[i].header = b
  <2>1. index[b] \in 1 .. n + 1 /\ entries[index[b]] = b
    BY Zenon, <1>1, <1>4 DEF ParentsFirst
  <2>2. PICK i : i = index[b] - 1
    BY Zenon
  <2>3. i \in 1 .. n /\ i + 1 = index[b]
    BY <1>3, <2>1, <2>2
  <2> QED
    BY Zenon, <1>7, <2>1, <2>3
<1> QED
  BY Zenon, <1>2, <1>3, <1>6, <1>7, <1>8

(* Nothing changes the tree between the snapshot and the rename.           *)
LEMMA StepSnapshotTaken == SnapshotTaken /\ [IndexNext]_ivars => SnapshotTaken'
<1> SUFFICES ASSUME SnapshotTaken, [IndexNext]_ivars, phase' = "rename"
             PROVE  temp' = Snapshot'
  BY Zenon DEF SnapshotTaken
<1>1. ASSUME UNCHANGED <<vars, location>> PROVE Snapshot' = Snapshot
  BY Zenon, <1>1 DEF vars, Snapshot, Persisted
<1>2. CASE RewriteTemp
  BY Zenon, <1>1, <1>2 DEF RewriteTemp
<1>3. CASE UNCHANGED ivars \/ Tick \/ CoinCommit
  <2>1. UNCHANGED <<vars, location, temp, phase>>
    BY Zenon, <1>3 DEF ivars, Tick, CoinCommit, control, disk
  <2> QED
    BY Zenon, <1>1, <2>1 DEF SnapshotTaken
<1>4. CASE \E b \in Header : \/ ReceiveHeader(b) \/ ReceiveBlock(b) \/ RefuseBlock(b)
                             \/ ConnectBlock(b) \/ DisconnectBlock(b)
  BY Zenon, <1>4 DEF ReceiveHeader, ReceiveBlock, RefuseBlock, ConnectBlock, DisconnectBlock,
              control
<1>5. CASE Load
  BY Zenon, <1>5 DEF Load, ReplayRecord, ReplayRejected, ReplayEnd, Apply, ConnectStep, Applied,
              RefuseToStart, LoadEnd, control
<1>6. CASE CommitSync \/ Stop \/ Exit
  BY Zenon, <1>6 DEF CommitSync, Stop, Exit, Forget
<1>7. CASE JournalWrite \/ JournalFsync \/ RewriteRename \/ RewriteDone
  BY Zenon, <1>7 DEF JournalWrite, JournalFsync, RewriteRename, RewriteDone, Committed
<1>8. CASE \E k \in 0 .. Len(dirty), torn \in BOOLEAN : JournalWriteFails(k, torn)
  BY Zenon, <1>8 DEF JournalWriteFails, CommitFailed
<1>9. CASE \E k \in 0 .. Len(journal), torn \in BOOLEAN, n \in 0 .. Len(blocks) :
             Crash(k, torn, n)
  BY Zenon, <1>9 DEF Crash, Forget
<1> QED
  BY Zenon, <1>2, <1>3, <1>4, <1>5, <1>6, <1>7, <1>8, <1>9 DEF IndexNext, Commit

(* Every step of the index keeps the order of arrival.                     *)
LEMMA StepArenaInv ==
    DiskInv /\ DiskInv' /\ OrderInv /\ OrderInv' /\ SnapshotTaken /\ ArenaInv
      /\ [IndexNext]_ivars => ArenaInv'

(* Items appended to a file keep it in order when each new header among    *)
(* them arrived after all that is named before it.                         *)
<1>AppendInOrder.
    ASSUME NEW S, NEW p \in Seq(S), NEW q \in Seq(S), NEW idx,
           InOrder(p, Len(p), idx),
           \A k \in DOMAIN q : q[k] # Torn =>
              /\ idx[q[k].header] # 0
              /\ \/ InFile(p, q[k].header)
                 \/ /\ \A i \in DOMAIN p :
                         p[i] # Torn => idx[p[i].header] < idx[q[k].header]
                    /\ \A m \in DOMAIN q :
                         m < k /\ q[m] # Torn => idx[q[m].header] < idx[q[k].header]
    PROVE  InOrder(p \o q, Len(p \o q), idx)
  <2>1. PICK r, l, n : r = p \o q /\ l = Len(p) /\ n = Len(q)
    BY ZenonT(30)
  <2>2. /\ l \in Nat /\ n \in Nat /\ Len(r) = l + n
        /\ DOMAIN p = 1 .. l /\ DOMAIN q = 1 .. n
        /\ \A i \in 1 .. l : r[i] = p[i]
        /\ \A i \in (l + 1) .. (l + n) : i - l \in 1 .. n /\ r[i] = q[i - l]
    BY <1>AppendInOrder, <2>1, ConcatFacts
  <2> SUFFICES ASSUME NEW j \in 1 .. l + n, r[j] # Torn
               PROVE  /\ idx[r[j].header] # 0
                      /\ First(r, j) =>
                           \A i \in 1 .. j - 1 :
                              r[i] # Torn => idx[r[i].header] < idx[r[j].header]
    BY Zenon, <2>1, <2>2 DEF InOrder
  <2>3. CASE j \in 1 .. l
    <3>1. r[j] = p[j] /\ \A i \in 1 .. j - 1 : i \in 1 .. l /\ r[i] = p[i]
      BY <2>2, <2>3
    <3>2. First(r, j) => First(p, j)
      BY Zenon, <3>1 DEF First
    <3> QED
      BY ZenonT(30), <1>AppendInOrder, <2>1, <2>3, <3>1, <3>2 DEF InOrder
  <2>4. CASE j \in (l + 1) .. (l + n)
    <3>1. PICK k : k = j - l
      BY Zenon
    <3>2. k \in DOMAIN q /\ r[j] = q[k]
      BY Zenon, <2>2, <2>4, <3>1
    <3>3. idx[r[j].header] # 0
      BY Zenon, <1>AppendInOrder, <3>2
    <3>4. ASSUME First(r, j), NEW i \in 1 .. j - 1, r[i] # Torn
          PROVE  idx[r[i].header] < idx[r[j].header]
      <4>1. ~InFile(p, q[k].header)
        <5> SUFFICES ASSUME NEW m \in DOMAIN p, p[m].header = q[k].header PROVE FALSE
          BY Zenon DEF InFile
        <5>1. m \in 1 .. j - 1 /\ r[m] = p[m]
          BY SMTT(20), <2>2, <2>4
        <5> QED
          BY Zenon, <3>2, <3>4, <5>1 DEF First
      <4>2. CASE i \in 1 .. l
        BY Zenon, <1>AppendInOrder, <2>2, <3>2, <3>4, <4>1, <4>2
      <4>3. CASE i \in (l + 1) .. (l + n)
        <5>1. PICK m : m = i - l
          BY Zenon
        <5>2. m \in DOMAIN q /\ r[i] = q[m] /\ m < k
          BY SMTT(20), <2>2, <2>4, <3>1, <3>4, <4>3, <5>1
        <5> QED
          BY Zenon, <1>AppendInOrder, <3>2, <3>4, <4>1, <5>2
      <4> QED
        BY SMTT(20), <2>2, <2>4, <4>2, <4>3
    <3> QED
      BY Zenon, <3>3, <3>4
  <2> QED
    BY SMTT(20), <2>2, <2>3, <2>4

(* Headers keep their place in the arena.                                  *)
<1>OrderStays.
    ASSUME NEW file, NEW n, NEW idx, NEW new, InOrder(file, n, idx), n \in Nat,
           \A j \in 1 .. n : file[j] # Torn => new[file[j].header] = idx[file[j].header]
    PROVE  InOrder(file, n, new)
  <2> SUFFICES ASSUME NEW j \in 1 .. n, file[j] # Torn
               PROVE  /\ new[file[j].header] # 0
                      /\ First(file, j) =>
                           \A i \in 1 .. j - 1 :
                              file[i] # Torn => new[file[i].header] < new[file[j].header]
    BY Zenon DEF InOrder
  <2>1. \A i \in 1 .. j - 1 : i \in 1 .. n
    BY <1>OrderStays
  <2> QED
    BY Zenon, <1>OrderStays, <2>1 DEF InOrder

(* A journal that names the whole tree owes nothing.                       *)
<1>WrittenNewest.
    ASSUME IInv', \A b \in Tree' \ {Genesis} : InFile(journal', b)
    PROVE  NewestOwed' /\ OwedInOrder'
  <2>1. ASSUME NEW j \in DOMAIN dirty' PROVE InFile(journal', dirty'[j])
    <3>1. TypeOK' /\ DirtyOnce'
      BY Zenon, <1>WrittenNewest DEF IInv
    <3>2. dirty'[j] \in Header
      BY <3>1 DEF TypeOK
    <3>3. dirty'[j] \in Tree'
      BY Zenon, <3>1, <3>2 DEF DirtyOnce
    <3> QED
      BY Zenon, <1>WrittenNewest, <3>2, <3>3, BlockFacts
  <2> QED
    BY Zenon, <1>WrittenNewest, <2>1 DEF NewestOwed, OwedInOrder

(* A step of the tree between commits.                                     *)
<1>StepInOrder.
    ASSUME DiskInv, OrderInv, InOrder(journal, Len(journal), index),
           NewestOwed, OwedInOrder, UNCHANGED journal, NEW b \in Header,
           Accept(b, now) \/ BlockChecked(b) \/ Connected(b) \/ Disconnected(b)
             \/ Invalidate(b)
    PROVE  InOrder(journal, Len(journal), index') /\ NewestOwed' /\ OwedInOrder'
  <2>1. /\ IInv /\ journal \in Seq(Sound) /\ Len(journal) \in Nat
        /\ DOMAIN journal = 1 .. Len(journal)
        /\ dirty \in Seq(Header) /\ DOMAIN dirty = 1 .. Len(dirty) /\ Len(dirty) \in Nat
        /\ index \in [Block -> Nat] /\ b \in Block /\ b # Genesis
    <3>1. IInv /\ TypeOK /\ journal \in Seq(Sound)
      BY Zenon, <1>StepInOrder DEF DiskInv, FilesSound, IInv
    <3>2. dirty \in Seq(Header) /\ index \in [Block -> Nat]
      BY Zenon, <3>1 DEF TypeOK
    <3>3. /\ Len(journal) \in Nat /\ DOMAIN journal = 1 .. Len(journal)
          /\ DOMAIN dirty = 1 .. Len(dirty) /\ Len(dirty) \in Nat
      BY <3>1, <3>2
    <3> QED
      BY Zenon, <3>1, <3>2, <3>3, BlockFacts
  <2>2. \A j \in DOMAIN journal : journal[j] # Torn =>
           journal[j].header \in Block /\ journal[j].header \in Tree
    <3>1. \A j \in DOMAIN journal : journal[j] # Torn => journal[j].header \in Header
      BY Zenon, <2>1, SoundItem
    <3> QED
      BY Zenon, <1>StepInOrder, <2>1, <3>1, BlockFacts, PlaceBound DEF InOrder
  <2>3. \A i \in DOMAIN dirty : dirty[i] \in Tree /\ dirty[i] \in Header
    BY Zenon, <2>1, DirtyInTree
  <2>4. CASE Accept(b, now)
    <3>1. Connects(b) /\ \E s, c : Insert(b, s, c)
      BY Zenon, <2>4 DEF Accept, AcceptInvalidAncestor, AcceptInvalid, AcceptFirst
    <3>2. /\ index' = [index EXCEPT ![b] = Len(entries) + 1]
          /\ dirty' = Append(dirty, b)
          /\ index[b] = 0
      BY Zenon, <3>1 DEF Insert, Connects
    <3>3. \A c \in Block : c \in Tree => c # b /\ index'[c] = index[c]
      BY Zenon, <2>1, <3>2 DEF Tree
    <3>4. \A c \in Block : c \in Tree => index[c] < index'[b]
      BY <2>1, <3>2, PlaceBound
    <3>5. InOrder(journal, Len(journal), index')
      BY Zenon, <1>StepInOrder, <2>1, <2>2, <3>3, <1>OrderStays
    <3>6. NewestOwed'
      <4> SUFFICES ASSUME NEW c \in Tree' \ {Genesis}, ~InFile(journal, c),
                          NEW i \in DOMAIN journal, journal[i] # Torn
                   PROVE  index'[journal[i].header] < index'[c]
        BY Zenon, <1>StepInOrder DEF NewestOwed
      <4>1. journal[i].header \in Block /\ journal[i].header \in Tree
        BY Zenon, <2>2
      <4>2. index'[journal[i].header] = index[journal[i].header]
        BY Zenon, <3>3, <4>1
      <4>3. c = b \/ c \in Tree
        BY Zenon, <2>1, <3>2 DEF Tree
      <4>4. CASE c = b
        BY Zenon, <3>4, <4>1, <4>2, <4>4
      <4>5. CASE c \in Tree
        <5>1. index[journal[i].header] < index[c]
          BY Zenon, <1>StepInOrder, <4>5 DEF NewestOwed
        <5>2. index'[c] = index[c]
          BY Zenon, <3>3, <4>5 DEF Tree
        <5> QED
          BY Zenon, <4>2, <5>1, <5>2
      <4> QED
        BY Zenon, <4>3, <4>4, <4>5
    <3>7. OwedInOrder'
      <4>1. /\ DOMAIN dirty' = 1 .. Len(dirty) + 1
            /\ \A i \in 1 .. Len(dirty) : dirty'[i] = dirty[i]
            /\ dirty'[Len(dirty) + 1] = b
        BY <2>1, <3>2, AppendFacts
      <4> SUFFICES ASSUME NEW i \in DOMAIN dirty', NEW j \in DOMAIN dirty', i < j,
                          ~InFile(journal, dirty'[j])
                   PROVE  index'[dirty'[i]] < index'[dirty'[j]]
        BY Zenon, <1>StepInOrder DEF OwedInOrder
      <4>2. i \in 1 .. Len(dirty) /\ dirty'[i] = dirty[i] /\ i \in DOMAIN dirty
        BY <2>1, <4>1
      <4>3. dirty[i] \in Block /\ dirty[i] \in Tree
        BY Zenon, <2>3, <4>2, BlockFacts
      <4>4. index'[dirty[i]] = index[dirty[i]]
        BY Zenon, <3>3, <4>3
      <4>5. CASE j = Len(dirty) + 1
        BY Zenon, <3>4, <4>1, <4>2, <4>3, <4>4, <4>5
      <4>6. CASE j \in 1 .. Len(dirty)
        <5>1. dirty'[j] = dirty[j] /\ j \in DOMAIN dirty
          BY Zenon, <2>1, <4>1, <4>6
        <5>2. index[dirty[i]] < index[dirty[j]]
          BY Zenon, <1>StepInOrder, <4>2, <5>1 DEF OwedInOrder
        <5>3. index'[dirty[j]] = index[dirty[j]]
          BY ZenonT(30), <2>3, <3>3, <5>1, BlockFacts
        <5> QED
          BY Zenon, <4>2, <4>4, <5>1, <5>2, <5>3
      <4>7. j = Len(dirty) + 1 \/ j \in 1 .. Len(dirty)
        BY SMTT(20), <2>1, <4>1
      <4> QED
        BY Zenon, <4>5, <4>6, <4>7
    <3> QED
      BY Zenon, <3>5, <3>6, <3>7
  <2>5. CASE BlockChecked(b) \/ Connected(b) \/ Disconnected(b) \/ Invalidate(b)
    <3>1. MarkDirty(b) /\ index' = index /\ status[b] # "Absent"
      BY Zenon, <2>5 DEF BlockChecked, Connected, Disconnected, Invalidate
    <3>2. b \in Tree \ {Genesis} /\ Tree' = Tree
      BY Zenon, <2>1, <3>1 DEF IInv, ParentsFirst, Tree
    <3>3. NewestOwed'
      BY Zenon, <1>StepInOrder, <3>1, <3>2 DEF NewestOwed
    <3>4. CASE dirty' = dirty
      BY Zenon, <1>StepInOrder, <3>1, <3>3, <3>4 DEF OwedInOrder
    <3>5. CASE b \notin flagged /\ dirty' = Append(dirty, b)
      <4>1. /\ DOMAIN dirty' = 1 .. Len(dirty) + 1
            /\ \A i \in 1 .. Len(dirty) : dirty'[i] = dirty[i]
            /\ dirty'[Len(dirty) + 1] = b
        BY <2>1, <3>5, AppendFacts
      <4>2. InFile(journal, b)
        BY Zenon, <1>StepInOrder, <3>2, <3>5 DEF OrderInv, TreeOwed
      <4> SUFFICES ASSUME NEW i \in DOMAIN dirty', NEW j \in DOMAIN dirty', i < j,
                          ~InFile(journal, dirty'[j])
                   PROVE  index[dirty'[i]] < index[dirty'[j]]
        BY Zenon, <1>StepInOrder, <3>1, <3>3 DEF OwedInOrder
      <4>3. j # Len(dirty) + 1
        BY Zenon, <4>1, <4>2
      <4>4. /\ i \in DOMAIN dirty /\ dirty'[i] = dirty[i]
            /\ j \in DOMAIN dirty /\ dirty'[j] = dirty[j]
        BY <2>1, <4>1, <4>3
      <4> QED
        BY Zenon, <1>StepInOrder, <4>4 DEF OwedInOrder
    <3> QED
      BY Zenon, <3>1, <3>4, <3>5 DEF MarkDirty
  <2> QED
    BY Zenon, <1>StepInOrder, <2>4, <2>5

(* A batch, or the part of it a failed write left, behind the journal.     *)
<1>BatchInOrder.
    ASSUME DiskInv, OrderInv, phase = "write", InOrder(journal, Len(journal), index),
           NewestOwed, OwedInOrder, UNCHANGED vars,
           NEW k \in 0 .. Len(dirty), NEW torn,
           journal' = journal \o Partial(Batch, k, torn)
    PROVE  InOrder(journal', Len(journal'), index) /\ NewestOwed' /\ OwedInOrder'
  <2>1. /\ IInv /\ journal \in Seq(Sound) /\ DOMAIN journal = 1 .. Len(journal)
        /\ Len(journal) \in Nat
        /\ dirty \in Seq(Header) /\ DOMAIN dirty = 1 .. Len(dirty) /\ Len(dirty) \in Nat
    BY SMTT(20), <1>BatchInOrder DEF DiskInv, FilesSound, IInv, TypeOK
  <2>2. PICK part : part = Partial(Batch, k, torn)
    BY Zenon
  <2>3. Batch \in Seq(Sound) /\ Len(Batch) = Len(dirty)
    BY Zenon, <1>BatchInOrder, WrittenSound DEF Writing
  <2>4. /\ part \in Seq(Sound) /\ Len(part) \in Nat /\ DOMAIN part = 1 .. Len(part)
        /\ k <= Len(part)
        /\ \A i \in 1 .. k : part[i] = Batch[i]
        /\ \A i \in 1 .. Len(part) : i > k => part[i] = Torn
    BY SMTT(20), <2>2, <2>3, PartFacts
  <2>5. \A i \in 1 .. k : i \in DOMAIN dirty /\ part[i].header = dirty[i]
    <3> SUFFICES ASSUME NEW i \in 1 .. k
                 PROVE  i \in DOMAIN dirty /\ part[i].header = dirty[i]
      BY Zenon
    <3>1. i \in DOMAIN dirty
      BY <2>1
    <3>2. Batch[i] = Persisted(dirty[i])
      BY Zenon, <3>1 DEF Batch
    <3>3. Persisted(dirty[i]).header = dirty[i]
      BY Zenon DEF Persisted
    <3> QED
      BY Zenon, <2>4, <3>1, <3>2, <3>3
  <2>6. \A i \in DOMAIN part : part[i] # Torn => i \in 1 .. k
    BY <2>1, <2>4
  <2>7. ASSUME NEW i \in DOMAIN part, part[i] # Torn
        PROVE  /\ index[part[i].header] # 0
               /\ \/ InFile(journal, part[i].header)
                  \/ /\ \A j \in DOMAIN journal :
                          journal[j] # Torn => index[journal[j].header] < index[part[i].header]
                     /\ \A m \in DOMAIN part :
                          m < i /\ part[m] # Torn => index[part[m].header] < index[part[i].header]
    <3>1. i \in 1 .. k /\ i \in DOMAIN dirty /\ part[i].header = dirty[i]
      BY Zenon, <2>5, <2>6, <2>7
    <3>2. dirty[i] \in Header /\ dirty[i] \in Tree \ {Genesis} /\ index[dirty[i]] # 0
      BY Zenon, <2>1, <3>1, DirtyInTree, BlockFacts DEF Tree
    <3>3. ASSUME ~InFile(journal, dirty[i]), NEW m \in DOMAIN part, m < i, part[m] # Torn
          PROVE  index[part[m].header] < index[dirty[i]]
      <4>1. m \in DOMAIN dirty /\ part[m].header = dirty[m]
        BY Zenon, <2>5, <2>6, <3>3
      <4> QED
        BY Zenon, <1>BatchInOrder, <3>1, <3>3, <4>1 DEF OwedInOrder
    <3>4. ~InFile(journal, dirty[i]) => \A j \in DOMAIN journal :
             journal[j] # Torn => index[journal[j].header] < index[dirty[i]]
      BY Zenon, <1>BatchInOrder, <3>2 DEF NewestOwed
    <3> QED
      BY Zenon, <3>1, <3>2, <3>3, <3>4
  <2>8. InOrder(journal \o part, Len(journal \o part), index)
    <3>1. PICK S : S = Sound
      BY Zenon
    <3> QED
      BY Zenon, <1>BatchInOrder, <2>1, <2>4, <2>7, <3>1, <1>AppendInOrder
  <2>9. ASSUME NEW c, ~InFile(journal', c) PROVE ~InFile(journal, c) /\ ~InFile(part, c)
    BY Zenon, <1>BatchInOrder, <2>1, <2>2, <2>4, <2>9, GrowsNames
  <2>10. Tree' = Tree /\ index' = index /\ dirty' = dirty
    BY Zenon, <1>BatchInOrder DEF vars, Tree
  <2>11. OwedInOrder'
    BY Zenon, <1>BatchInOrder, <2>9, <2>10 DEF OwedInOrder
  <2>12. NewestOwed'
    <3> SUFFICES ASSUME NEW c \in Tree \ {Genesis}, ~InFile(journal', c),
                        NEW i \in DOMAIN journal', journal'[i] # Torn
                 PROVE  index[journal'[i].header] < index[c]
      BY Zenon, <2>10 DEF NewestOwed
    <3>1. ~InFile(journal, c) /\ ~InFile(part, c)
      BY Zenon, <2>9
    <3>2. c \in flagged /\ c \in Header
      BY Zenon, <1>BatchInOrder, <3>1, BlockFacts DEF OrderInv, TreeOwed, Tree
    <3>3. PICK m \in DOMAIN dirty : dirty[m] = c
      BY Zenon, <2>1, <3>2 DEF IInv, DirtyOnce
    <3>4. m \notin 1 .. k
      <4> SUFFICES ASSUME m \in 1 .. k PROVE FALSE
        BY Zenon
      <4>1. m \in DOMAIN part /\ part[m].header = c
        BY <2>4, <2>5, <3>3
      <4> QED
        BY Zenon, <3>1, <4>1 DEF InFile
    <3>5. \/ i \in DOMAIN journal /\ journal'[i] = journal[i]
          \/ \E j \in DOMAIN part : journal'[i] = part[j]
      <4>1. /\ DOMAIN (journal \o part) = 1 .. Len(journal) + Len(part)
            /\ \A j \in 1 .. Len(journal) : (journal \o part)[j] = journal[j]
            /\ \A j \in (Len(journal) + 1) .. (Len(journal) + Len(part)) :
                 j - Len(journal) \in 1 .. Len(part)
                   /\ (journal \o part)[j] = part[j - Len(journal)]
        BY SMTT(20), <2>1, <2>4
      <4>2. i \in 1 .. Len(journal) \/ i \in (Len(journal) + 1) .. (Len(journal) + Len(part))
        BY <1>BatchInOrder, <2>1, <2>2, <2>4, <4>1
      <4> QED
        BY Zenon, <1>BatchInOrder, <2>1, <2>2, <2>4, <4>1, <4>2
    <3>6. CASE i \in DOMAIN journal /\ journal'[i] = journal[i]
      BY Zenon, <1>BatchInOrder, <3>1, <3>6 DEF NewestOwed
    <3>7. ASSUME NEW j \in DOMAIN part, journal'[i] = part[j]
          PROVE  index[journal'[i].header] < index[c]
      <4>1. j \in 1 .. k /\ j \in DOMAIN dirty /\ part[j].header = dirty[j]
        BY Zenon, <2>5, <2>6, <3>7
      <4>2. j < m
        BY <2>1, <3>3, <3>4, <4>1
      <4> QED
        BY Zenon, <1>BatchInOrder, <3>1, <3>3, <3>7, <4>1, <4>2 DEF OwedInOrder
    <3> QED
      BY Zenon, <3>5, <3>6, <3>7
  <2> QED
    BY ZenonT(30), <1>BatchInOrder, <2>2, <2>8, <2>11, <2>12

(* A rewrite names the headers in the order they arrived.                  *)
<1>SnapshotInOrder.
    ASSUME DiskInv
    PROVE  InOrder(Snapshot, Len(Snapshot), index)
  <2>1. PICK n, s : n = Len(Snapshot) /\ s = Snapshot
    BY Zenon
  <2>2. n \in Nat /\ \A i \in 1 .. n : index[s[i].header] = i + 1
    BY Zenon, <1>SnapshotInOrder, <2>1, SnapshotFacts
  <2>3. InOrder(s, n, index)
    BY <2>2 DEF InOrder
  <2> QED
    BY Zenon, <2>1, <2>3

(* A record replayed: its header is in the tree already, or enters behind  *)
(* every other.                                                            *)
<1>ReplayKeepsOrder.
    ASSUME DiskInv, phase = "replay", ReplayInOrder, ReplayRecord
    PROVE  ReplayInOrder'
  <2>1. /\ IInv /\ journal \in Seq(Sound) /\ taken \in Nat /\ taken + 1 = pos
        /\ taken <= Len(journal) /\ Len(journal) \in Nat /\ DOMAIN journal = 1 .. Len(journal)
    BY <1>ReplayKeepsOrder DEF DiskInv, LoadBounds, FilesSound
  <2>2. PICK h : h = journal[pos].header
    BY Zenon
  <2>3. pos \in DOMAIN journal /\ h \in Header /\ h \in Block /\ h # Genesis
    BY Zenon, <1>ReplayKeepsOrder, <2>2, WholeRecord, BlockFacts DEF ReplayRecord
  <2>4. taken' = taken + 1 /\ journal' = journal /\ phase' = "replay"
    BY Zenon, <1>ReplayKeepsOrder DEF ReplayRecord, disk
  <2>5. InOrder(journal, taken, index)
    BY Zenon, <1>ReplayKeepsOrder DEF ReplayInOrder
  <2>6. \A b \in Tree \ {Genesis} : \E i \in 1 .. taken : journal[i].header = b
    BY Zenon, <1>ReplayKeepsOrder DEF ReplayInOrder
  <2>7. \A j \in 1 .. taken : journal[j] # Torn =>
           journal[j].header \in Block /\ index[journal[j].header] # 0
    <3>1. \A j \in DOMAIN journal : journal[j] # Torn => journal[j].header \in Block
      BY Zenon, <2>1, SoundItem
    <3> QED
      BY <2>1, <2>5, <3>1 DEF InOrder
  <2>8. /\ InOrder(journal, taken, index')
        /\ index'[h] # 0
        /\ Tree' \subseteq Tree \cup {h}
        /\ \/ \E i \in 1 .. taken : journal[i].header = h
           \/ \A i \in 1 .. taken :
                journal[i] # Torn => index'[journal[i].header] < index'[h]
    <3>1. CASE index[h] # 0 /\ UNCHANGED vars
      <4>1. index' = index /\ Tree' = Tree /\ h \in Tree \ {Genesis}
        BY Zenon, <2>3, <3>1 DEF vars, Tree
      <4> QED
        BY Zenon, <2>5, <2>6, <3>1, <4>1
    <3>2. CASE Accept(h, now)
      <4>1. Connects(h) /\ \E s, c : Insert(h, s, c)
        BY Zenon, <3>2 DEF Accept, AcceptInvalidAncestor, AcceptInvalid, AcceptFirst
      <4>2. index' = [index EXCEPT ![h] = Len(entries) + 1] /\ index[h] = 0
        BY Zenon, <4>1 DEF Insert, Connects
      <4>3. index \in [Block -> Nat]
        BY Zenon, <2>1 DEF IInv, TypeOK
      <4>4. \A c \in Block : index[c] # 0 => index'[c] = index[c] /\ index'[c] < index'[h]
        BY SMTT(20), <2>1, <2>3, <4>2, <4>3, PlaceBound
      <4>5. InOrder(journal, taken, index')
        BY Zenon, <2>1, <2>5, <2>7, <4>4, <1>OrderStays
      <4>6. index'[h] # 0
        BY SMTT(20), <2>1, <2>3, <4>2, <4>3, PlaceBound
      <4>7. Tree' \subseteq Tree \cup {h}
        BY ZenonT(30), <4>2, <4>3 DEF Tree
      <4> QED
        BY Zenon, <2>7, <4>4, <4>5, <4>6, <4>7
    <3> QED
      BY Zenon, <1>ReplayKeepsOrder, <2>2, <3>1, <3>2 DEF ReplayRecord
  <2>9. InOrder(journal, taken + 1, index')
    <3> SUFFICES ASSUME NEW j \in 1 .. taken + 1, journal[j] # Torn
                 PROVE  /\ index'[journal[j].header] # 0
                        /\ First(journal, j) =>
                             \A i \in 1 .. j - 1 : journal[i] # Torn =>
                                index'[journal[i].header] < index'[journal[j].header]
      BY Zenon DEF InOrder
    <3>1. CASE j \in 1 .. taken
      BY Zenon, <2>8, <3>1 DEF InOrder
    <3>2. CASE j = taken + 1
      <4>1. journal[j].header = h /\ j - 1 = taken
        BY <2>1, <2>2, <3>2
      <4> QED
        BY Zenon, <2>8, <4>1 DEF First
    <3> QED
      BY <2>1, <3>1, <3>2
  <2>10. ASSUME NEW b \in Tree' \ {Genesis}
         PROVE  \E i \in 1 .. taken + 1 : journal[i].header = b
    <3>1. CASE b = h
      <4>1. taken + 1 \in 1 .. taken + 1 /\ journal[taken + 1].header = h
        BY <2>1, <2>2
      <4> QED
        BY Zenon, <3>1, <4>1
    <3>2. CASE b \in Tree
      BY SMTT(20), <2>1, <2>6, <2>10, <3>2
    <3> QED
      BY Zenon, <2>8, <2>10, <3>1, <3>2
  <2> QED
    BY Zenon, <2>4, <2>9, <2>10 DEF ReplayInOrder
<1> SUFFICES ASSUME DiskInv, DiskInv', OrderInv, OrderInv', SnapshotTaken, ArenaInv,
                    [IndexNext]_ivars, ~unread'
             PROVE  /\ phase' # "replay" => InOrder(journal', Len(journal'), index')
                    /\ ReplayInOrder'
                    /\ ReadAll'
                    /\ NewestOwed'
                    /\ OwedInOrder'
  BY Zenon DEF ArenaInv
<1>1. IInv /\ IInv' /\ taken \in Nat /\ Len(journal) \in Nat
      /\ DOMAIN journal = 1 .. Len(journal)
  BY DEF DiskInv, LoadBounds, FilesSound
<1>2. ASSUME ~unread
      PROVE  /\ phase # "replay" => InOrder(journal, Len(journal), index)
             /\ ReplayInOrder
             /\ ReadAll
             /\ NewestOwed
             /\ OwedInOrder
  BY Zenon, <1>2 DEF ArenaInv
<1>3. ASSUME phase' \in {"fsync", "rewrite", "rename", "dirsync", "replay", "apply"}
      PROVE  NewestOwed' /\ OwedInOrder'
  <2>1. \A b \in Tree' \ {Genesis} : InFile(journal', b)
    BY Zenon, <1>3 DEF OrderInv, TreeWritten
  <2> QED
    BY Zenon, <1>1, <2>1, <1>WrittenNewest
<1>4. ASSUME UNCHANGED <<vars, journal>>
      PROVE  /\ index' = index
             /\ NewestOwed => NewestOwed'
             /\ OwedInOrder => OwedInOrder'
  <2>1. Tree' = Tree
    BY Zenon, <1>4 DEF vars, Tree
  <2> QED
    BY Zenon, <1>4, <2>1 DEF vars, NewestOwed, OwedInOrder
<1>5. CASE UNCHANGED ivars \/ Tick \/ CoinCommit
  <2>1. UNCHANGED <<vars, journal, phase, taken, unread>>
    BY Zenon, <1>5 DEF ivars, Tick, CoinCommit, control, disk, history
  <2>2. index' = index /\ Tree' = Tree
    BY Zenon, <2>1 DEF vars, Tree
  <2>3. ReplayInOrder'
    BY Zenon, <1>2, <2>1, <2>2 DEF ReplayInOrder
  <2>4. ReadAll'
    BY Zenon, <1>2, <2>1 DEF ReadAll
  <2> QED
    BY Zenon, <1>2, <1>4, <2>1, <2>3, <2>4
<1>6. CASE CommitSync \/ Stop \/ RefuseToStart
  <2>1. /\ UNCHANGED <<vars, journal, unread>>
        /\ phase # "replay" /\ phase' \notin {"replay", "apply"}
    BY Zenon, <1>6 DEF CommitSync, Stop, RefuseToStart, Applied, disk, history
  <2> QED
    BY Zenon, <1>2, <1>4, <2>1 DEF ReplayInOrder, ReadAll
<1>7. CASE ReplayRejected
  BY Zenon, <1>7 DEF ReplayRejected
<1>8. CASE ReplayEnd
  <2>1. /\ UNCHANGED <<vars, journal, taken>> /\ phase = "replay" /\ phase' = "apply"
        /\ ~unread /\ ~(pos < Len(journal)) /\ ~Whole
    BY Zenon, <1>8 DEF ReplayEnd, disk
  <2>2. taken + 1 = pos
    BY Zenon, <2>1 DEF DiskInv, LoadBounds
  <2>3. \A i \in 1 .. Len(journal) : i <= taken \/ journal[i] = Torn
    BY <1>1, <2>1, <2>2 DEF Whole
  <2>4. InOrder(journal, taken, index)
    BY Zenon, <1>2, <2>1 DEF ReplayInOrder
  <2>5. InOrder(journal, Len(journal), index)
    <3>1. \A j \in 1 .. Len(journal) : journal[j] # Torn => j \in 1 .. taken
      BY <1>1, <2>3
    <3> QED
      BY Zenon, <2>4, <3>1 DEF InOrder
  <2>6. index' = index
    BY Zenon, <1>4, <2>1
  <2>7. ReadAll'
    BY Zenon, <1>1, <2>1, <2>3 DEF ReadAll
  <2>8. ReplayInOrder'
    BY Zenon, <2>1 DEF ReplayInOrder
  <2>9. NewestOwed' /\ OwedInOrder'
    BY Zenon, <1>3, <2>1
  <2> QED
    BY Zenon, <2>1, <2>5, <2>6, <2>7, <2>8, <2>9
<1>9. CASE \E b \in Header : \/ ReceiveHeader(b) \/ ReceiveBlock(b)
                             \/ RefuseBlock(b)
                             \/ ConnectBlock(b) \/ DisconnectBlock(b)
  <2>1. PICK b \in Header : \/ ReceiveHeader(b) \/ ReceiveBlock(b)
                            \/ RefuseBlock(b)
                            \/ ConnectBlock(b) \/ DisconnectBlock(b)
    BY Zenon, <1>9
  <2>2. UNCHANGED <<journal, unread>> /\ phase = "run" /\ phase' = "run"
    BY Zenon, <2>1 DEF ReceiveHeader, ReceiveBlock, RefuseBlock, ConnectBlock,
                DisconnectBlock, control, disk, history
  <2>3. Accept(b, now) \/ BlockChecked(b) \/ Connected(b) \/ Disconnected(b)
          \/ Invalidate(b)
    BY Zenon, <2>1 DEF ReceiveHeader, ReceiveBlock, RefuseBlock, ConnectBlock, DisconnectBlock
  <2>4. InOrder(journal, Len(journal), index') /\ NewestOwed' /\ OwedInOrder'
    <3>1. InOrder(journal, Len(journal), index) /\ NewestOwed /\ OwedInOrder
      BY Zenon, <1>2, <2>2
    <3> QED
      BY Zenon, <2>2, <2>3, <3>1, <1>StepInOrder
  <2> QED
    BY Zenon, <2>2, <2>4 DEF ReplayInOrder, ReadAll
<1>10. CASE ReplayRecord
  <2>1. phase = "replay" /\ phase' = "replay" /\ ~unread
    BY Zenon, <1>10 DEF ReplayRecord, history
  <2>2. ReplayInOrder'
    BY Zenon, <1>2, <1>10, <2>1, <1>ReplayKeepsOrder
  <2> QED
    BY Zenon, <1>3, <2>1, <2>2 DEF ReadAll
<1>11. CASE Apply \/ ConnectStep
  <2>1. /\ phase = "apply" /\ phase' = "apply"
        /\ UNCHANGED <<journal, taken, unread, index>>
    BY Zenon, <1>11 DEF Apply, ConnectStep, Applied, control, disk, history, vars, BlockChecked,
                 Invalidate, Connected
  <2> QED
    BY Zenon, <1>2, <1>3, <2>1 DEF ReadAll, ReplayInOrder
<1>12. CASE JournalFsync \/ LoadEnd \/ RewriteDone
  <2>1. /\ phase \in {"fsync", "apply", "dirsync"} /\ phase' \in {"rewrite", "run", "exit"}
        /\ UNCHANGED <<journal, unread, index>>
    BY Zenon, <1>12 DEF JournalFsync, LoadEnd, RewriteDone, Applied, Committed, ClearDirty, vars,
                 disk, history
  <2>2. Tree' = Tree
    BY Zenon, <2>1 DEF Tree
  <2>3. \A b \in Tree' \ {Genesis} : InFile(journal', b)
    BY Zenon, <2>1, <2>2 DEF OrderInv, TreeWritten
  <2>4. NewestOwed' /\ OwedInOrder'
    BY Zenon, <1>1, <2>3, <1>WrittenNewest
  <2> QED
    BY Zenon, <1>2, <2>1, <2>4 DEF ReadAll, ReplayInOrder
<1>13. CASE JournalWrite
  <2>1. /\ phase = "write" /\ phase' = "fsync" /\ UNCHANGED <<vars, unread>>
        /\ journal' = journal \o Batch
    BY Zenon, <1>13 DEF JournalWrite, history
  <2>2. Len(dirty) \in 0 .. Len(dirty) /\ journal' = journal \o Partial(Batch, Len(dirty), FALSE)
    <3>1. Len(dirty) \in Nat
      BY Zenon, Lengths
    <3>2. Partial(Batch, Len(dirty), FALSE) = Batch
      BY Zenon, <2>1, BatchWhole
    <3>3. Len(dirty) \in 0 .. Len(dirty)
      BY <3>1
    <3> QED
      BY Zenon, <2>1, <3>2, <3>3
  <2>3. InOrder(journal', Len(journal'), index)
    <3>1. InOrder(journal, Len(journal), index) /\ NewestOwed /\ OwedInOrder
      BY Zenon, <1>2, <2>1
    <3> QED
      BY Zenon, <2>1, <2>2, <3>1, <1>BatchInOrder
  <2>4. index' = index
    BY Zenon, <2>1 DEF vars
  <2> QED
    BY Zenon, <1>3, <2>1, <2>3, <2>4 DEF ReadAll, ReplayInOrder
<1>14. CASE \E k \in 0 .. Len(dirty), torn \in BOOLEAN : JournalWriteFails(k, torn)
  <2>1. PICK k \in 0 .. Len(dirty), torn \in BOOLEAN : JournalWriteFails(k, torn)
    BY Zenon, <1>14
  <2>2. /\ phase = "write" /\ phase' \in {"exit", "flush"} /\ UNCHANGED <<vars, unread>>
        /\ journal' = journal \o Partial(Batch, k, torn)
    BY Zenon, <2>1 DEF JournalWriteFails, CommitFailed
  <2>3. InOrder(journal', Len(journal'), index) /\ NewestOwed' /\ OwedInOrder'
    <3>1. InOrder(journal, Len(journal), index) /\ NewestOwed /\ OwedInOrder
      BY Zenon, <1>2, <2>2
    <3> QED
      BY Zenon, <2>2, <3>1, <1>BatchInOrder
  <2>4. index' = index
    BY Zenon, <2>2 DEF vars
  <2> QED
    BY Zenon, <2>2, <2>3, <2>4 DEF ReadAll, ReplayInOrder
<1>15. CASE RewriteTemp
  <2>1. /\ phase = "rewrite" /\ phase' = "rename" /\ UNCHANGED <<vars, journal, unread>>
    BY Zenon, <1>15 DEF RewriteTemp, history
  <2> QED
    BY Zenon, <1>2, <1>4, <2>1 DEF ReadAll, ReplayInOrder
<1>16. CASE RewriteRename
  <2>1. /\ phase = "rename" /\ phase' = "dirsync" /\ UNCHANGED <<vars, unread>>
        /\ journal' = temp
    BY Zenon, <1>16 DEF RewriteRename, history
  <2>2. journal' = Snapshot /\ index' = index
    BY Zenon, <2>1 DEF SnapshotTaken, vars
  <2>3. InOrder(journal', Len(journal'), index')
    BY Zenon, <2>2, <1>SnapshotInOrder
  <2> QED
    BY Zenon, <1>3, <2>1, <2>3 DEF ReadAll, ReplayInOrder
<1>17. CASE Exit \/ \E k \in 0 .. Len(journal), torn \in BOOLEAN, n \in 0 .. Len(blocks) :
                    Crash(k, torn, n)
  <2>1. Forget
    BY Zenon, <1>17 DEF Exit, Crash
  <2>2. phase' = "replay" /\ taken' = 0
        /\ index' = [b \in Block |-> IF b = Genesis THEN 1 ELSE 0]
    BY Zenon, <2>1 DEF Forget, FreshTree
  <2>3. Tree' = {Genesis}
    BY SMTT(20), <2>2, BlockFacts DEF Tree
  <2>4. InOrder(journal', taken', index')
    BY SMTT(20), <2>2 DEF InOrder
  <2> QED
    BY Zenon, <1>3, <2>2, <2>3, <2>4 DEF ReadAll, ReplayInOrder
<1> QED
  BY ZenonT(30), <1>5, <1>6, <1>7, <1>8, <1>9, <1>10, <1>11, <1>12, <1>13, <1>14, <1>15, <1>16, <1>17
     DEF IndexNext, Commit, Load

(* A new node's journal is empty.                                          *)
LEMMA InitArenaInv == IndexInit => ArenaInv /\ SnapshotTaken
<1> SUFFICES ASSUME IndexInit PROVE ArenaInv /\ SnapshotTaken
  BY Zenon
<1>1. /\ phase = "run" /\ journal = <<>> /\ dirty = <<>>
      /\ index = [b \in Block |-> IF b = Genesis THEN 1 ELSE 0]
  BY Zenon DEF IndexInit, Init
<1>2. InOrder(journal, Len(journal), index)
  BY <1>1 DEF InOrder
<1> QED
  BY <1>1, <1>2 DEF ArenaInv, ReplayInOrder, ReadAll, NewestOwed, OwedInOrder, SnapshotTaken

(* What the load, the commits and the rewrites keep of the journal, while  *)
(* no load has left records unread.                                        *)
THEOREM ArenaInvariant == IndexSpec => [](DiskInv /\ OrderInv /\ SnapshotTaken /\ ArenaInv)
BY DiskInvariant, OrderInvariant, InitArenaInv, StepSnapshotTaken, StepArenaInv, PTL
   DEF IndexSpec

(* A replay puts headers back in the order they first arrived, whatever    *)
(* commits, failed writes, rewrites and crashes came before it, so ties    *)
(* for the most work fall the same way after a restart.                    *)
THEOREM ArenaOrderKeptTheorem == IndexSpec => []ArenaOrderKept
<1>1. DiskInv /\ ArenaInv => ArenaOrderKept
  <2> SUFFICES ASSUME DiskInv, ArenaInv, ~unread, phase # "replay",
                      NEW i \in DOMAIN journal, NEW j \in DOMAIN journal, i < j,
                      journal[i] # Torn, journal[j] # Torn,
                      Named(journal[j].header, j - 1) = {}
               PROVE  index[journal[i].header] < index[journal[j].header]
    BY Zenon DEF ArenaOrderKept
  <2>1. DOMAIN journal = 1 .. Len(journal) /\ Len(journal) \in Nat
    BY DEF DiskInv, FilesSound
  <2>2. InOrder(journal, Len(journal), index)
    BY Zenon DEF ArenaInv
  <2>3. First(journal, j)
    BY Zenon DEF Named, First
  <2>4. i \in 1 .. j - 1 /\ j \in 1 .. Len(journal)
    BY <2>1
  <2> QED
    BY Zenon, <2>2, <2>3, <2>4 DEF InOrder
<1> QED
  BY <1>1, ArenaInvariant, PTL

=============================================================================
