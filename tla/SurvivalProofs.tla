--------------------------- MODULE SurvivalProofs ---------------------------
(***************************************************************************)
(* Proofs, for every set of headers, every bound and every point a crash   *)
(* can fall at, that a load that reads the whole journal gives back what a *)
(* commit made durable.                                                    *)
(***************************************************************************)
EXTENDS BlockIndexProofs

(* What is believed of the stages that need the block.                     *)

FileValid(file) ==
    \A i \in DOMAIN file : file[i].status = "Connected" => file[i].header \in valid

(* Only blocks that pass are connected, in the tree and in every file, and *)
(* only headers that do not pass accept_header are refused by it.          *)
ValidInv ==
    /\ \A b \in Header : status[b] = "Connected" => b \in valid
    /\ FileValid(journal) /\ FileValid(replaced) /\ FileValid(temp)
    /\ \A b \in Header : status[b] = "InvalidHeader" => b \notin AcceptOk

(* The last record a load took of a block is the journal's last of it.     *)
LEMMA LastRecordItem ==
    ASSUME DiskInv, phase = "apply", NEW b
    PROVE  \/ /\ LastRecord(b) = Unnamed
              /\ \A i \in 1 .. taken : journal[i].header # b
           \/ \E m \in 1 .. taken :
                /\ LastRecord(b) = journal[m] /\ journal[m].header = b
                /\ \A i \in 1 .. taken : journal[i].header = b => i <= m
<1> DEFINE T == Named(b, taken)
           D == {taken - i : i \in T}
<1>1. taken \in Nat
  BY Zenon DEF DiskInv, LoadBounds
<1>2. T \subseteq 1 .. taken /\ \A i \in 1 .. taken : i \in T <=> journal[i].header = b
  BY Zenon DEF Named
<1>3. CASE T = {}
  BY Zenon, <1>2, <1>3 DEF LastRecord
<1>4. CASE T # {}
  <2>1. D \subseteq Nat /\ D # {}
    BY <1>1, <1>2, <1>4
  <2>2. PICK n \in D : \A m \in D : n <= m
    BY Zenon, <2>1, LeastNatural
  <2>3. PICK i \in T : n = taken - i
    BY Zenon, <2>2
  <2>4. \A j \in T : taken - j \in D
    BY Zenon
  <2>5. ASSUME NEW j \in T PROVE j <= i
    <3>1. taken - i <= taken - j
      BY Zenon, <2>2, <2>3, <2>4
    <3>2. i \in Int /\ j \in Int /\ taken \in Int
      BY <1>1, <1>2
    <3> HIDE DEF T, D
    <3> QED
      BY <3>1, <3>2
  <2>6. PICK m \in T : m = CHOOSE k \in T : \A j \in T : j <= k
    BY Zenon, <2>3, <2>5
  <2>7. \A j \in T : j <= m
    BY Zenon, <2>3, <2>5, <2>6
  <2>8. LastRecord(b) = journal[m]
    BY Zenon, <1>4, <2>6 DEF LastRecord
  <2>9. m \in 1 .. taken /\ journal[m].header = b
    BY Zenon, <1>2, <2>6
  <2>10. \A j \in 1 .. taken : journal[j].header = b => j <= m
    BY Zenon, <1>2, <2>7
  <2> HIDE DEF T, D
  <2> QED
    BY Zenon, <2>8, <2>9, <2>10
<1> QED
  BY Zenon, <1>3, <1>4

(* Which blocks pass is not the node's to change.                          *)
LEMMA ValidKept == [IndexNext]_ivars => valid' = valid
<1> SUFFICES ASSUME [IndexNext]_ivars PROVE valid' = valid
  BY Zenon
<1>1. CASE UNCHANGED ivars
  BY Zenon, <1>1 DEF ivars, world
<1>2. CASE Tick \/ CoinCommit \/ CommitSync \/ Stop \/ Exit \/ Commit
  BY Zenon, <1>2 DEF Tick, CoinCommit, CommitSync, Stop, Exit, Forget, Commit, JournalWrite,
              JournalFsync, RewriteTemp, RewriteRename, RewriteDone, world
<1>3. CASE \E b \in Header : \/ ReceiveHeader(b) \/ ReceiveBlock(b) \/ RefuseBlock(b)
                             \/ ConnectBlock(b) \/ DisconnectBlock(b)
  BY Zenon, <1>3 DEF ReceiveHeader, ReceiveBlock, RefuseBlock, ConnectBlock, DisconnectBlock, world
<1>4. CASE \E k \in 0 .. Len(dirty), torn \in BOOLEAN : JournalWriteFails(k, torn)
  BY Zenon, <1>4 DEF JournalWriteFails, world
<1>5. CASE \E k \in 0 .. Len(journal), torn \in BOOLEAN, n \in 0 .. Len(blocks) :
             Crash(k, torn, n)
  BY Zenon, <1>5 DEF Crash, Forget, world
<1>6. CASE Load
  BY Zenon, <1>6 DEF Load, ReplayRecord, ReplayRejected, ReplayEnd, Apply, ConnectStep,
              RefuseToStart, LoadEnd, world
<1> QED
  BY Zenon, <1>1, <1>2, <1>3, <1>4, <1>5, <1>6 DEF IndexNext

(* What a step of the tree does to a status.                               *)
LEMMA StatusStep ==
    ASSUME IInv, NEW b \in Header,
           \/ UNCHANGED vars \/ ClearDirty
           \/ \E d \in Header : \/ Accept(d, now) \/ BlockChecked(d) \/ Connected(d)
                                \/ Disconnected(d) \/ Invalidate(d)
    PROVE  /\ Terminal(status[b]) => Terminal(status'[b])
           /\ HasBytes(status[b]) => HasBytes(status'[b]) \/ Terminal(status'[b])
           /\ status'[b] = "InvalidHeader" => status[b] = "InvalidHeader" \/ b \notin AcceptOk
           /\ status'[b] = "Connected" => status[b] = "Connected" \/ Connected(b)
<1>1. TypeOK /\ ParentsFirst /\ b \in Block /\ b # Genesis /\ status \in [Block -> Status]
  BY Zenon, BlockFacts DEF IInv, TypeOK
<1>2. CASE UNCHANGED vars \/ ClearDirty
  BY Zenon, <1>2 DEF vars, ClearDirty
<1>3. ASSUME NEW d \in Header, Accept(d, now)
      PROVE  /\ Terminal(status[b]) => Terminal(status'[b])
             /\ HasBytes(status[b]) => HasBytes(status'[b]) \/ Terminal(status'[b])
             /\ status'[b] = "InvalidHeader" => status[b] = "InvalidHeader" \/ b \notin AcceptOk
             /\ status'[b] = "Connected" => status[b] = "Connected"
  <2>1. PICK s \in {"InvalidAncestor", "InvalidHeader", "HeaderAccepted"} :
          status' = [status EXCEPT ![d] = s] /\ (s = "InvalidHeader" => d \notin AcceptOk)
    BY Zenon, <1>3 DEF Accept, AcceptInvalidAncestor, AcceptInvalid, AcceptFirst, Insert
  <2>2. status[d] = "Absent"
    BY Zenon, <1>1, <1>3, BlockFacts DEF ParentsFirst, Tree, Accept, AcceptInvalidAncestor,
                             AcceptInvalid, AcceptFirst, Connects
  <2> QED
    BY Zenon, <1>1, <2>1, <2>2 DEF Terminal, Refused, HasBytes
<1>4. ASSUME NEW d \in Header, BlockChecked(d) \/ Disconnected(d)
      PROVE  /\ Terminal(status[b]) => Terminal(status'[b])
             /\ HasBytes(status[b]) => HasBytes(status'[b])
             /\ status'[b] = "InvalidHeader" => status[b] = "InvalidHeader"
             /\ status'[b] = "Connected" => status[b] = "Connected"
  BY Zenon, <1>1, <1>4 DEF BlockChecked, Disconnected, Terminal, Refused, HasBytes
<1>5. ASSUME NEW d \in Header, Connected(d)
      PROVE  /\ Terminal(status[b]) => Terminal(status'[b])
             /\ HasBytes(status[b]) => HasBytes(status'[b])
             /\ status'[b] = "InvalidHeader" => status[b] = "InvalidHeader"
             /\ status'[b] = "Connected" => status[b] = "Connected" \/ b = d
  BY Zenon, <1>1, <1>5 DEF Connected, Terminal, Refused, HasBytes
<1>6. ASSUME NEW d \in Header, Invalidate(d)
      PROVE  /\ Terminal(status[b]) => Terminal(status'[b])
             /\ HasBytes(status[b]) => HasBytes(status'[b]) \/ Terminal(status'[b])
             /\ status'[b] = "InvalidHeader" => status[b] = "InvalidHeader"
             /\ status'[b] = "Connected" => status[b] = "Connected"
  <2>1. PICK S \in SUBSET (Tree \ {Genesis}) : PropagateAndReselect(d, S)
    BY Zenon, <1>6 DEF Invalidate
  <2>2. status'[b] \in {"InvalidBlock", "InvalidAncestor", status[b]}
    BY Zenon, <1>1, <2>1 DEF PropagateAndReselect
  <2> QED
    BY Zenon, <2>2 DEF HasBytes, Terminal, Refused
<1> QED
  BY Zenon, <1>2, <1>3, <1>4, <1>5, <1>6

(* What is written of a header is what its status says.                    *)
LEMMA PersistedStatus ==
    ASSUME NEW b
    PROVE  /\ Persisted(b).header = b
           /\ Persisted(b).status = "Connected" <=> status[b] = "Connected"
           /\ Persisted(b).status = "Checked" <=> status[b] = "BlockChecked"
           /\ Persisted(b).status = "Refused" <=> status[b] = "InvalidBlock"
           /\ Persisted(b).status \in {"Accepted", "Checked", "Connected", "Refused"}
BY Zenon DEF Persisted

(* The items of a file that grew are the old ones and the new ones.        *)
LEMMA GrownItems ==
    ASSUME NEW S, NEW p \in Seq(S), NEW q \in Seq(S), NEW r, r = p \o q
    PROVE  /\ r \in Seq(S) /\ Len(r) = Len(p) + Len(q) /\ DOMAIN r = 1 .. Len(p) + Len(q)
           /\ Len(p) \in Nat /\ Len(q) \in Nat
           /\ DOMAIN p = 1 .. Len(p) /\ DOMAIN q = 1 .. Len(q)
           /\ \A i \in DOMAIN p : i \in DOMAIN r /\ r[i] = p[i]
           /\ \A i \in DOMAIN q : Len(p) + i \in DOMAIN r /\ r[Len(p) + i] = q[i]
           /\ \A i \in DOMAIN r :
                \/ i \in DOMAIN p /\ r[i] = p[i]
                \/ i > Len(p) /\ i - Len(p) \in DOMAIN q /\ r[i] = q[i - Len(p)]
<1>1. /\ r \in Seq(S)
      /\ Len(p) \in Nat /\ Len(q) \in Nat
      /\ Len(r) = Len(p) + Len(q)
      /\ DOMAIN p = 1 .. Len(p) /\ DOMAIN q = 1 .. Len(q)
      /\ DOMAIN r = 1 .. Len(p) + Len(q)
      /\ \A i \in 1 .. Len(p) : r[i] = p[i]
      /\ \A i \in 1 .. Len(q) : r[Len(p) + i] = q[i]
      /\ \A i \in (Len(p) + 1) .. (Len(p) + Len(q)) :
           i - Len(p) \in 1 .. Len(q) /\ r[i] = q[i - Len(p)]
  BY ConcatFacts
<1> QED
  BY <1>1

(* What a commit writes, whole or in part, is what the tree says.          *)
LEMMA BatchItems ==
    ASSUME DiskInv, phase = "write", NEW k \in 0 .. Len(dirty), NEW torn,
           NEW part, part = Partial(Batch, k, torn)
    PROVE  /\ part \in Seq(Sound) /\ DOMAIN part = 1 .. Len(part) /\ Len(part) \in Nat
           /\ k <= Len(part) /\ k \in Nat
           /\ \A i \in DOMAIN part :
                \/ i > k /\ part[i] = Torn
                \/ /\ i \in 1 .. k /\ i \in DOMAIN dirty
                   /\ dirty[i] \in Header /\ dirty[i] \in flagged
                   /\ part[i] = Persisted(dirty[i]) /\ part[i].header = dirty[i]
<1>1. /\ IInv /\ dirty \in Seq(Header) /\ DOMAIN dirty = 1 .. Len(dirty) /\ Len(dirty) \in Nat
      /\ DirtyOnce
  BY SMTT(20) DEF DiskInv, IInv, TypeOK
<1>2. Batch \in Seq(Sound) /\ Len(Batch) = Len(dirty)
  BY Zenon, WrittenSound DEF Writing
<1>3. /\ part \in Seq(Sound) /\ Len(part) \in Nat /\ DOMAIN part = 1 .. Len(part)
      /\ k <= Len(part)
      /\ \A i \in 1 .. k : part[i] = Batch[i]
      /\ \A i \in 1 .. Len(part) : i > k => part[i] = Torn
  BY <1>2, PartFacts
<1>4. ASSUME NEW i \in 1 .. k
      PROVE  /\ i \in DOMAIN dirty
             /\ dirty[i] \in Header /\ dirty[i] \in flagged
             /\ part[i] = Persisted(dirty[i]) /\ part[i].header = dirty[i]
  <2>1. i \in DOMAIN dirty
    BY <1>1
  <2>2. Batch[i] = Persisted(dirty[i])
    BY Zenon, <2>1 DEF Batch
  <2>3. dirty[i] \in Header
    BY <1>1, <2>1
  <2>4. dirty[i] \in flagged
    BY Zenon, <1>1, <2>1, <2>3 DEF DirtyOnce
  <2> QED
    BY SMTT(20), <1>3, <2>1, <2>2, <2>3, <2>4, PersistedStatus
<1>5. k \in Nat
  BY <1>1
<1> QED
  BY <1>3, <1>4, <1>5

(* Every step of the index connects only blocks that pass.                 *)
LEMMA StepValidInv == DiskInv /\ ValidInv /\ [IndexNext]_ivars => ValidInv'

(* The files stay believable: what is written as connected is connected.   *)
<1>StepFilesValid.
    ASSUME DiskInv, ValidInv, [IndexNext]_ivars
    PROVE  FileValid(journal') /\ FileValid(replaced') /\ FileValid(temp')
  <2> USE <1>StepFilesValid
  <2>1. journal \in Seq(Sound) /\ replaced \in Seq(Sound) /\ temp \in Seq(Sound)
    BY Zenon DEF DiskInv, FilesSound
  <2>2. FileValid(journal) /\ FileValid(replaced) /\ FileValid(temp) /\ FileValid(<<>>)
    BY DEF ValidInv, FileValid
  <2>3. ASSUME NEW b \in Header, Persisted(b).status = "Connected" PROVE b \in valid
    BY Zenon, <2>3, PersistedStatus DEF ValidInv
  <2>4. Torn.status # "Connected"
    BY Zenon DEF Torn
  <2>5. CASE UNCHANGED <<journal, replaced, temp>>
    BY Zenon, <2>2, <2>5
  <2>6. ASSUME phase = "write", NEW k \in 0 .. Len(dirty), NEW torn,
               journal' = journal \o Partial(Batch, k, torn), UNCHANGED <<replaced, temp>>
        PROVE  FileValid(journal') /\ FileValid(replaced') /\ FileValid(temp')
    <3>1. PICK part : part = Partial(Batch, k, torn)
      BY Zenon
    <3>2. /\ part \in Seq(Sound)
          /\ \A i \in DOMAIN part :
               \/ part[i] = Torn
               \/ \E b \in Header : part[i] = Persisted(b) /\ part[i].header = b
      BY <2>6, <3>1, BatchItems
    <3>3. FileValid(part)
      BY Zenon, <2>3, <2>4, <3>2 DEF FileValid
    <3>4. \A i \in DOMAIN journal' :
             \/ i \in DOMAIN journal /\ journal'[i] = journal[i]
             \/ i - Len(journal) \in DOMAIN part /\ journal'[i] = part[i - Len(journal)]
      <4>1. PICK new : new = journal \o part
        BY Zenon
      <4>2. \A i \in DOMAIN new :
               \/ i \in DOMAIN journal /\ new[i] = journal[i]
               \/ i - Len(journal) \in DOMAIN part /\ new[i] = part[i - Len(journal)]
        BY SMTT(20), <2>1, <3>2, <4>1, GrownItems
      <4> QED
        BY Zenon, <2>6, <3>1, <4>1, <4>2
    <3>5. FileValid(journal')
      BY Zenon, <2>2, <3>3, <3>4 DEF FileValid
    <3> QED
      BY Zenon, <2>2, <2>6, <3>5
  <2>7. CASE JournalWrite
    <3>1. Partial(Batch, Len(dirty), FALSE) = Batch /\ phase = "write"
      BY Zenon, <2>7, BatchWhole DEF JournalWrite
    <3>2. Len(dirty) \in Nat
      BY Zenon, Lengths
    <3>3. Len(dirty) \in 0 .. Len(dirty)
      BY <3>2
    <3>4. journal' = journal \o Partial(Batch, Len(dirty), FALSE) /\ UNCHANGED <<replaced, temp>>
      BY Zenon, <2>7, <3>1 DEF JournalWrite
    <3> QED
      BY Zenon, <2>6, <3>1, <3>3, <3>4
  <2>8. CASE \E k \in 0 .. Len(dirty), torn \in BOOLEAN : JournalWriteFails(k, torn)
    BY Zenon, <2>6, <2>8 DEF JournalWriteFails
  <2>9. CASE RewriteTemp
    <3>1. temp' = Snapshot /\ UNCHANGED <<journal, replaced>>
      BY Zenon, <2>9 DEF RewriteTemp
    <3>2. FileValid(Snapshot)
      <4>1. ASSUME NEW i \in DOMAIN Snapshot
            PROVE  \E b \in Header : Snapshot[i] = Persisted(b) /\ Snapshot[i].header = b
        BY Zenon, SnapshotFacts
      <4> QED
        BY Zenon, <2>3, <4>1 DEF FileValid
    <3> QED
      BY Zenon, <2>2, <3>1, <3>2
  <2>10. CASE RewriteRename
    BY Zenon, <2>2, <2>10 DEF RewriteRename
  <2>11. CASE RewriteDone
    BY Zenon, <2>2, <2>11 DEF RewriteDone
  <2>12. CASE Exit
    BY Zenon, <2>2, <2>12 DEF Exit, Forget
  <2>13. CASE \E k \in 0 .. Len(journal), torn \in BOOLEAN, n \in 0 .. Len(blocks) :
                Crash(k, torn, n)
    <3>1. PICK k \in 0 .. Len(journal), torn \in BOOLEAN, n \in 0 .. Len(blocks) :
            Crash(k, torn, n)
      BY Zenon, <2>13
    <3>2. temp' = <<>> /\ replaced' = <<>>
      BY Zenon, <3>1 DEF Crash, Forget
    <3>3. journal' = Partial(journal, k, torn) \/ journal' = replaced
      BY Zenon, <3>1 DEF Crash
    <3>4. PICK part : part = Partial(journal, k, torn)
      BY Zenon
    <3>5. /\ DOMAIN part = 1 .. Len(part) /\ Len(part) \in Nat
          /\ \A i \in 1 .. k : part[i] = journal[i]
          /\ \A i \in 1 .. Len(part) : i > k => part[i] = Torn
      BY <2>1, <3>4, PartFacts
    <3>6. \A i \in DOMAIN part : part[i] = Torn \/ (i \in DOMAIN journal /\ part[i] = journal[i])
      <4>1. k \in Nat /\ k <= Len(journal) /\ DOMAIN journal = 1 .. Len(journal)
            /\ Len(journal) \in Nat
        BY <2>1
      <4> QED
        BY <3>5, <4>1
    <3>7. FileValid(part)
      BY Zenon, <2>2, <2>4, <3>6 DEF FileValid
    <3> QED
      BY Zenon, <2>2, <3>2, <3>3, <3>4, <3>7
  <2>14. CASE \E b \in Header : \/ ReceiveHeader(b) \/ ReceiveBlock(b) \/ RefuseBlock(b)
                                \/ ConnectBlock(b) \/ DisconnectBlock(b)
    BY Zenon, <2>5, <2>14 DEF ReceiveHeader, ReceiveBlock, RefuseBlock, ConnectBlock,
                       DisconnectBlock, disk
  <2>15. CASE UNCHANGED ivars \/ Tick \/ CoinCommit \/ CommitSync \/ Stop \/ JournalFsync
    BY Zenon, <2>5, <2>15 DEF ivars, Tick, CoinCommit, CommitSync, Stop, JournalFsync, disk
  <2>16. CASE Load
    BY Zenon, <2>5, <2>16 DEF Load, ReplayRecord, ReplayRejected, ReplayEnd, Apply, ConnectStep,
                       RefuseToStart, LoadEnd, disk
  <2> QED
    BY ZenonT(30), <2>7, <2>8, <2>9, <2>10, <2>11, <2>12, <2>13, <2>14, <2>15, <2>16 DEF IndexNext, Commit
<1> SUFFICES ASSUME DiskInv, ValidInv, [IndexNext]_ivars PROVE ValidInv'
  BY Zenon
<1>1. valid' = valid /\ IInv
  BY Zenon, ValidKept DEF DiskInv
<1>2. (FileValid(journal) /\ FileValid(replaced) /\ FileValid(temp))'
  BY Zenon, <1>1, <1>StepFilesValid DEF FileValid
<1>3. ASSUME NEW b \in Header
      PROVE  /\ status'[b] = "Connected" => b \in valid
             /\ status'[b] = "InvalidHeader" => b \notin AcceptOk
  <2>1. CASE FreshTree
    <3>1. b \in Block /\ b # Genesis
      BY Zenon, BlockFacts
    <3> QED
      BY Zenon, <2>1, <3>1 DEF FreshTree
  <2>2. CASE ~FreshTree
    <3>1. \/ UNCHANGED vars \/ ClearDirty
          \/ \E d \in Header : \/ Accept(d, now) \/ BlockChecked(d) \/ Connected(d)
                               \/ Disconnected(d) \/ Invalidate(d)
      BY Zenon, <2>2, StepOfTree DEF TreeStep, ivars
    <3>2. /\ status'[b] = "InvalidHeader" => status[b] = "InvalidHeader" \/ b \notin AcceptOk
          /\ status'[b] = "Connected" => status[b] = "Connected" \/ Connected(b)
      BY Zenon, <1>1, <3>1, StatusStep
    <3>3. ASSUME Connected(b), status[b] # "Connected" PROVE b \in valid
      <4>1. status[b] = "BlockChecked" /\ status' # status /\ status'[b] = "Connected"
        <5>1. status \in [Block -> Status] /\ b \in Block
          BY Zenon, <1>1, BlockFacts DEF IInv, TypeOK
        <5> QED
          BY Zenon, <3>3, <5>1 DEF Connected
      <4>2. CASE \E c \in Header : ConnectBlock(c)
        <5>1. PICK c \in Header : ConnectBlock(c)
          BY Zenon, <4>2
        <5>2. c \in valid /\ Connected(c)
          BY Zenon, <5>1 DEF ConnectBlock
        <5>3. b = c
          BY Zenon, <3>3, <5>2 DEF Connected
        <5> QED
          BY Zenon, <5>2, <5>3
      <4>3. CASE ConnectStep
        <5>1. PICK c \in Tree : LastRecord(c).status = "Connected" /\ Connected(c)
          BY Zenon, <4>3 DEF ConnectStep
        <5>2. b = c
          BY Zenon, <3>3, <5>1 DEF Connected
        <5>3. phase = "apply"
          BY Zenon, <4>3 DEF ConnectStep, Applied
        <5>4. PICK m \in 1 .. taken : LastRecord(b) = journal[m] /\ journal[m].header = b
          <6>1. LastRecord(b) # Unnamed
            BY <5>1, <5>2 DEF Unnamed
          <6> QED
            BY Zenon, <5>3, <6>1, LastRecordItem
        <5>5. m \in DOMAIN journal
          BY <5>3, <5>4 DEF DiskInv, LoadBounds, FilesSound
        <5> QED
          BY Zenon, <5>1, <5>2, <5>4, <5>5 DEF ValidInv, FileValid
      <4>4. CASE UNCHANGED ivars \/ Tick \/ CoinCommit \/ CommitSync \/ Stop \/ Commit
        BY Zenon, <4>1, <4>4 DEF ivars, Tick, CoinCommit, CommitSync, Stop, Commit, JournalWrite,
                          JournalFsync, RewriteTemp, RewriteRename, RewriteDone, ClearDirty, vars
      <4>5. CASE Exit \/ \E k \in 0 .. Len(journal), torn \in BOOLEAN, n \in 0 .. Len(blocks) :
                         Crash(k, torn, n)
        BY Zenon, <2>2, <4>5 DEF Exit, Crash, Forget
      <4>6. CASE \E k \in 0 .. Len(dirty), torn \in BOOLEAN : JournalWriteFails(k, torn)
        BY Zenon, <4>1, <4>6 DEF JournalWriteFails, vars
      <4>7. CASE ReplayRejected \/ ReplayEnd \/ RefuseToStart \/ LoadEnd
        BY Zenon, <4>1, <4>7 DEF ReplayRejected, ReplayEnd, RefuseToStart, LoadEnd, ClearDirty, vars
      <4>8. CASE \/ ReplayRecord \/ Apply
                 \/ \E d \in Header : ReceiveHeader(d) \/ ReceiveBlock(d) \/ RefuseBlock(d)
        <5>1. tip' = b /\ tip' # tip
          <6>1. IsConnected(status[tip])
            BY Zenon, <1>1 DEF IInv, ActiveChain
          <6> QED
            BY Zenon, <3>3, <4>1, <6>1 DEF Connected, IsConnected
        <5>2. tip' = tip
          BY Zenon, <4>8 DEF ReplayRecord, Apply, ReceiveHeader, ReceiveBlock, RefuseBlock, Accept,
                      BlockChecked, Invalidate, AcceptInvalidAncestor, AcceptInvalid,
                      AcceptFirst, Insert, vars
        <5> QED
          BY Zenon, <5>1, <5>2
      <4>9. CASE \E d \in Header : DisconnectBlock(d)
        <5>1. PICK d \in Header : Disconnected(d)
          BY Zenon, <4>9 DEF DisconnectBlock
        <5>2. status[d] = "Connected" /\ status' = [status EXCEPT ![d] = "BlockChecked"]
          BY Zenon, <5>1 DEF Disconnected
        <5>3. status'[b] # "Connected"
          BY Zenon, <1>1, <4>1, <5>2, BlockFacts DEF IInv, TypeOK
        <5> QED
          BY Zenon, <4>1, <5>3
      <4> QED
        BY ZenonT(30), <4>2, <4>3, <4>4, <4>5, <4>6, <4>7, <4>8, <4>9 DEF IndexNext, Load
    <3> QED
      BY Zenon, <3>2, <3>3 DEF ValidInv
  <2> QED
    BY Zenon, <2>1, <2>2
<1> QED
  BY Zenon, <1>1, <1>2, <1>3 DEF ValidInv

-----------------------------------------------------------------------------
(* What a commit made durable.                                             *)

(* A record of a higher rank says more of the block, and a header's later  *)
(* records never say less than its earlier ones.                           *)
Rank(s) == IF s = "Refused" THEN 2 ELSE IF s \in {"Checked", "Connected"} THEN 1 ELSE 0
NeverBack(file) ==
    \A i, j \in DOMAIN file :
        i < j /\ file[i].header = file[j].header
          => Rank(file[i].status) <= Rank(file[j].status)

(* b is a or one of its descendants.                                       *)
Below(a, b) ==
    \A S \in SUBSET Header :
        a \in S /\ (\A h \in Header : Prev[h] \in S => h \in S) => b \in S

(* From the first n items of a file follows that b is refused: one of its  *)
(* ancestors is, or does not pass accept_header.                           *)
Doomed(file, n, b) ==
    \E a \in Header :
        /\ Below(a, b)
        /\ \/ a \notin AcceptOk
           \/ \E i \in 1 .. n : file[i].header = a /\ file[i].status = "Refused"

(* The first n items of a file still say what was acknowledged of b.       *)
KeptOf(file, n, ack, b) ==
    /\ ack[b].said.status # "None" => \E i \in 1 .. n : file[i].header = b
    /\ ack[b].said.status = "Refused" => Doomed(file, n, b)
    /\ ack[b].said.status \in {"Checked", "Connected"} =>
         \/ Doomed(file, n, b)
         \/ \E i \in 1 .. n : file[i].header = b /\ Rank(file[i].status) >= 1
Kept(file, n, ack) == \A b \in Header : KeptOf(file, n, ack, b)

(* The tree believes a record.                                             *)
Believed(r, s) ==
    /\ r = "Refused" => Terminal(s)
    /\ r \in {"Checked", "Connected"} => HasBytes(s) \/ Terminal(s)

(* A running node believes every record of the journal.                    *)
RecordsBelieved ==
    \A i \in DOMAIN journal :
        journal[i] # Torn => Believed(journal[i].status, status[journal[i].header])

(* What is owed for a header says no less than what the journal says.      *)
OwedSaysMore ==
    \A b \in flagged : \A i \in DOMAIN journal :
        journal[i].header = b => Rank(journal[i].status) <= Rank(Persisted(b).status)

(* b and all its ancestors pass: no verdict will reach it.                 *)
Sturdy(b) == \E A \in SUBSET valid : b \in A /\ \A h \in A : Prev[h] \in A \cup {Genesis}

(* A block that is owed once more since its bytes were written down was    *)
(* connected since.                                                        *)
OwedSturdy ==
    \A b \in flagged : \A i \in DOMAIN journal :
        /\ journal[i].header = b
        /\ Rank(journal[i].status) >= 1
        /\ HasBytes(status[b])
        => Sturdy(b)

(* Between the write of a batch and its sync, what is owed is written.     *)
OwedWritten == \A b \in flagged : \E i \in DOMAIN journal : journal[i] = Persisted(b)

(* The entries a load has gone through believe their last record.          *)
AppliedBelieved ==
    \A i \in DOMAIN entries :
        i < pos /\ entries[i] # Genesis
          => Believed(LastRecord(entries[i]).status, status[entries[i]])

Loading == {"replay", "apply", "refused"}

SurvivalInv ==
    ~unread =>
        /\ NeverBack(journal) /\ Kept(journal, jsynced, acked)
        /\ phase = "dirsync" => NeverBack(replaced) /\ Kept(replaced, Len(replaced), acked)
        /\ phase \notin Loading => RecordsBelieved /\ OwedSaysMore
        /\ phase = "run" => OwedSturdy
        /\ phase = "fsync" => OwedWritten
        /\ phase = "apply" => AppliedBelieved

(* The ranks, and what has them.                                           *)
LEMMA RankFacts ==
    \A s : /\ Rank(s) \in 0 .. 2
           /\ Rank(s) = 2 <=> s = "Refused"
           /\ Rank(s) >= 1 <=> s \in {"Refused", "Checked", "Connected"}
BY DEF Rank

(* A descendant of what the tree has refused, or must refuse, is refused.  *)
LEMMA DoomedTerminal ==
    ASSUME IInv, NEW n, NEW b \in Header, b \in Tree, Doomed(journal, n, b),
           \A i \in 1 .. n : journal[i].header \in Header /\ journal[i].status = "Refused"
                               => Terminal(status[journal[i].header])
    PROVE  Terminal(status[b])
<1>1. ParentsFirst /\ VerdictClosure
  BY Zenon DEF IInv
<1>2. PICK S : S = {h \in Header : h \in Tree => Terminal(status[h])}
  BY Zenon
<1>3. PICK a \in Header :
        /\ Below(a, b)
        /\ \/ a \notin AcceptOk
           \/ \E i \in 1 .. n : journal[i].header = a /\ journal[i].status = "Refused"
  BY Zenon DEF Doomed
<1>4. a \in S
  <2>1. a \notin AcceptOk /\ a \in Tree => Terminal(status[a])
    BY Zenon, <1>1, BlockFacts DEF VerdictClosure
  <2> QED
    BY Zenon, <1>2, <1>3, <2>1
<1>5. ASSUME NEW h \in Header, Prev[h] \in S PROVE h \in S
  <2>1. h \in Tree => Prev[h] \in Tree /\ (Terminal(status[Prev[h]]) => Terminal(status[h]))
    BY Zenon, <1>1, BlockFacts DEF ParentsFirst, VerdictClosure
  <2> QED
    BY Zenon, <1>2, <1>5, <2>1
<1>6. S \in SUBSET Header
  BY Zenon, <1>2
<1>7. b \in S
  BY Zenon, <1>3, <1>4, <1>5, <1>6 DEF Below
<1> QED
  BY Zenon, <1>2, <1>7

(* While the node runs, what was acknowledged is believed.                 *)
LEMMA Survives ==
    ASSUME DiskInv, ArenaInv, SurvivalInv, ~unread, phase \notin Loading, NEW b \in Header
    PROVE  /\ acked[b].said.status # "None" => b \in Tree
           /\ acked[b].said.status = "Refused" => Terminal(status[b])
           /\ acked[b].said.status \in {"Checked", "Connected"} =>
                HasBytes(status[b]) \/ Terminal(status[b])
<1>1. /\ IInv /\ journal \in Seq(Sound) /\ DOMAIN journal = 1 .. Len(journal)
      /\ Len(journal) \in Nat /\ jsynced \in 0 .. Len(journal)
  BY DEF DiskInv, FilesSound, SeriesOK
<1>2. InOrder(journal, Len(journal), index) /\ RecordsBelieved /\ KeptOf(journal, jsynced, acked, b)
  BY Zenon DEF ArenaInv, SurvivalInv, Loading, Kept
<1>3. \A i \in 1 .. jsynced : i \in DOMAIN journal
  BY <1>1
<1>4. ASSUME NEW i \in 1 .. jsynced, journal[i].header \in Header
      PROVE  /\ journal[i].header \in Tree
             /\ Believed(journal[i].status, status[journal[i].header])
  <2>1. journal[i] # Torn /\ i \in 1 .. Len(journal)
    BY Zenon, <1>1, <1>3, <1>4, SoundItem
  <2> QED
    BY Zenon, <1>2, <1>3, <1>4, <2>1, BlockFacts DEF RecordsBelieved, InOrder, Tree
<1>5. acked[b].said.status # "None" => b \in Tree
  BY Zenon, <1>2, <1>4 DEF KeptOf
<1>6. ASSUME Doomed(journal, jsynced, b), b \in Tree PROVE Terminal(status[b])
  <2>1. \A i \in 1 .. jsynced : journal[i].header \in Header /\ journal[i].status = "Refused"
                                 => Terminal(status[journal[i].header])
    BY Zenon, <1>4 DEF Believed
  <2> QED
    BY Zenon, <1>1, <1>6, <2>1, DoomedTerminal
<1>7. ASSUME NEW i \in 1 .. jsynced, journal[i].header = b, Rank(journal[i].status) >= 1
      PROVE  HasBytes(status[b]) \/ Terminal(status[b])
  BY Zenon, <1>4, <1>7, RankFacts DEF Believed
<1> QED
  BY Zenon, <1>2, <1>5, <1>6, <1>7 DEF KeptOf

-----------------------------------------------------------------------------
(* Steps that write records.                                               *)

(* Items appended to a file keep it from going back when none of them says *)
(* less than what the file, or an earlier one of them, says.               *)
LEMMA AppendNeverBack ==
    ASSUME NEW S, NEW p \in Seq(S), NEW q \in Seq(S), NeverBack(p), NeverBack(q),
           \A i \in DOMAIN p, k \in DOMAIN q :
              p[i].header = q[k].header => Rank(p[i].status) <= Rank(q[k].status)
    PROVE  NeverBack(p \o q)
<1>1. PICK r, l : r = p \o q /\ l = Len(p)
  BY Zenon
<1>2. /\ DOMAIN r = 1 .. l + Len(q) /\ l \in Nat /\ Len(q) \in Nat
      /\ DOMAIN p = 1 .. l /\ DOMAIN q = 1 .. Len(q)
      /\ \A i \in DOMAIN r :
           \/ i \in DOMAIN p /\ r[i] = p[i]
           \/ i > l /\ i - l \in DOMAIN q /\ r[i] = q[i - l]
  BY <1>1, GrownItems
<1> SUFFICES ASSUME NEW i \in DOMAIN r, NEW j \in DOMAIN r, i < j,
                    r[i].header = r[j].header
             PROVE  Rank(r[i].status) <= Rank(r[j].status)
  BY Zenon, <1>1 DEF NeverBack
<1>3. CASE i \in DOMAIN p /\ r[i] = p[i]
  <2>1. CASE j \in DOMAIN p /\ r[j] = p[j]
    BY Zenon, <1>3, <2>1 DEF NeverBack
  <2>2. CASE j > l /\ j - l \in DOMAIN q /\ r[j] = q[j - l]
    BY Zenon, <1>3, <2>2
  <2> QED
    BY Zenon, <1>2, <2>1, <2>2
<1>4. CASE i > l /\ i - l \in DOMAIN q /\ r[i] = q[i - l]
  <2>1. j - l \in DOMAIN q /\ r[j] = q[j - l]
    BY <1>2, <1>4
  <2>2. PICK x, y : x = i - l /\ y = j - l
    BY Zenon
  <2>3. x \in DOMAIN q /\ y \in DOMAIN q /\ r[i] = q[x] /\ r[j] = q[y] /\ x < y
    BY SMTT(20), <1>2, <1>4, <2>1, <2>2
  <2> QED
    BY Zenon, <2>3 DEF NeverBack
<1> QED
  BY Zenon, <1>2, <1>3, <1>4

(* What a torn piece says.                                                 *)
LEMMA TornFacts == Torn.header = Genesis /\ Rank(Torn.status) = 0
BY Zenon DEF Torn, Rank

(* The tree believes what is written of it.                                *)
LEMMA PersistedBelieved ==
    ASSUME NEW b
    PROVE  Believed(Persisted(b).status, status[b])
BY Zenon, PersistedStatus DEF Believed, HasBytes, Terminal, Refused

(* A batch behind the journal, whole or in part.                           *)
LEMMA BatchBelieved ==
    ASSUME DiskInv, phase = "write", RecordsBelieved, OwedSaysMore, NeverBack(journal),
           UNCHANGED <<vars, location>>, NEW k \in 0 .. Len(dirty), NEW torn,
           journal' = journal \o Partial(Batch, k, torn)
    PROVE  /\ NeverBack(journal') /\ RecordsBelieved' /\ OwedSaysMore'
           /\ Len(journal') \in Nat /\ Len(journal) <= Len(journal')
           /\ \A i \in DOMAIN journal : journal'[i] = journal[i]
           /\ k = Len(dirty) => OwedWritten'
<1>1. /\ IInv /\ DirtyOnce /\ journal \in Seq(Sound)
      /\ DOMAIN dirty = 1 .. Len(dirty) /\ flagged \subseteq Header
  BY SMTT(20) DEF DiskInv, IInv, FilesSound, TypeOK
<1>2. PICK part, new : part = Partial(Batch, k, torn) /\ new = journal \o part
  BY Zenon
<1>3. /\ part \in Seq(Sound) /\ DOMAIN part = 1 .. Len(part) /\ Len(part) \in Nat
      /\ k <= Len(part) /\ k \in Nat
      /\ \A i \in DOMAIN part :
           \/ i > k /\ part[i] = Torn
           \/ /\ i \in 1 .. k /\ i \in DOMAIN dirty
              /\ dirty[i] \in Header /\ dirty[i] \in flagged
              /\ part[i] = Persisted(dirty[i]) /\ part[i].header = dirty[i]
  BY <1>2, BatchItems
<1>4. /\ new \in Seq(Sound) /\ Len(new) = Len(journal) + Len(part)
      /\ DOMAIN new = 1 .. Len(journal) + Len(part)
      /\ Len(journal) \in Nat /\ DOMAIN journal = 1 .. Len(journal)
      /\ \A i \in DOMAIN journal : i \in DOMAIN new /\ new[i] = journal[i]
      /\ \A i \in DOMAIN part : Len(journal) + i \in DOMAIN new /\ new[Len(journal) + i] = part[i]
      /\ \A i \in DOMAIN new :
           \/ i \in DOMAIN journal /\ new[i] = journal[i]
           \/ i > Len(journal) /\ i - Len(journal) \in DOMAIN part
                /\ new[i] = part[i - Len(journal)]
  BY SMTT(20), <1>1, <1>2, <1>3, GrownItems
<1>5. journal' = new
  BY Zenon, <1>2
<1>6. \A i \in DOMAIN new :
         \/ i \in DOMAIN journal /\ new[i] = journal[i]
         \/ new[i] = Torn
         \/ \E b \in flagged : new[i] = Persisted(b) /\ new[i].header = b
  BY SMTT(20), <1>3, <1>4
<1>7. \A b : Persisted(b)' = Persisted(b)
  BY Zenon DEF vars, Persisted
<1>8. NeverBack(part)
  <2> SUFFICES ASSUME NEW i \in DOMAIN part, NEW j \in DOMAIN part, i < j,
                      part[i].header = part[j].header
               PROVE  Rank(part[i].status) <= Rank(part[j].status)
    BY Zenon DEF NeverBack
  <2>1. CASE part[j] = Torn
    <3>1. part[i] = Torn
      BY Zenon, <1>3, <2>1, SoundItem, TornFacts, BlockFacts
    <3> QED
      BY <2>1, <3>1, TornFacts
  <2>2. CASE part[j] # Torn
    <3>1. j \in DOMAIN dirty /\ dirty[j] \in Header /\ part[j].header = dirty[j]
      BY Zenon, <1>3, <2>2
    <3>2. part[i] # Torn
      BY Zenon, <3>1, TornFacts, BlockFacts
    <3>3. i \in DOMAIN dirty /\ part[i].header = dirty[i]
      BY Zenon, <1>3, <3>2
    <3>4. i = j
      BY Zenon, <1>1, <3>1, <3>3 DEF DirtyOnce
    <3> QED
      BY <1>3, <3>4
  <2> QED
    BY Zenon, <2>1, <2>2
<1>9. ASSUME NEW i \in DOMAIN journal, NEW m \in DOMAIN part, journal[i].header = part[m].header
      PROVE  Rank(journal[i].status) <= Rank(part[m].status)
  <2>1. CASE part[m] = Torn
    <3>1. journal[i] = Torn
      BY Zenon, <1>1, <1>9, <2>1, SoundItem, TornFacts, BlockFacts
    <3> QED
      BY <2>1, <3>1, TornFacts
  <2>2. CASE part[m] # Torn
    <3>1. PICK b \in flagged : part[m] = Persisted(b) /\ part[m].header = b
      BY Zenon, <1>3, <2>2
    <3> QED
      BY Zenon, <1>9, <3>1 DEF OwedSaysMore
  <2> QED
    BY Zenon, <2>1, <2>2
<1>10. NeverBack(new)
  <2>1. PICK S : S = Sound
    BY Zenon
  <2> QED
    BY ZenonT(30), <1>1, <1>2, <1>3, <1>8, <1>9, <2>1, AppendNeverBack
<1>11. RecordsBelieved'
  <2> SUFFICES ASSUME NEW i \in DOMAIN new, new[i] # Torn
               PROVE  Believed(new[i].status, status[new[i].header])
    BY Zenon, <1>5 DEF RecordsBelieved, vars
  <2> QED
    BY Zenon, <1>6, PersistedBelieved DEF RecordsBelieved
<1>12. OwedSaysMore'
  <2> SUFFICES ASSUME NEW b \in flagged, NEW i \in DOMAIN new, new[i].header = b
               PROVE  Rank(new[i].status) <= Rank(Persisted(b).status)
    BY Zenon, <1>5, <1>7 DEF OwedSaysMore, vars
  <2>1. new[i] # Torn
    BY Zenon, <1>1, TornFacts, BlockFacts
  <2>2. CASE new[i] = Persisted(b)
    BY <2>2, RankFacts
  <2> QED
    BY Zenon, <1>6, <2>1, <2>2 DEF OwedSaysMore
<1>13. ASSUME k = Len(dirty) PROVE OwedWritten'
  <2> SUFFICES ASSUME NEW b \in flagged PROVE \E i \in DOMAIN new : new[i] = Persisted(b)
    BY Zenon, <1>5, <1>7 DEF OwedWritten, vars
  <2>1. PICK i \in DOMAIN dirty : dirty[i] = b
    BY Zenon, <1>1 DEF DirtyOnce
  <2>2. i \in 1 .. k /\ i \in DOMAIN part
    BY SMTT(20), <1>1, <1>3, <1>13
  <2>3. part[i] = Persisted(b)
    BY <1>3, <2>1, <2>2
  <2> QED
    BY Zenon, <1>4, <2>2, <2>3
<1> QED
  BY SMTT(20), <1>3, <1>4, <1>5, <1>10, <1>11, <1>12, <1>13

(* A snapshot has one record of each header, and the tree believes it.     *)
LEMMA SnapshotBelieved ==
    ASSUME DiskInv
    PROVE  /\ NeverBack(Snapshot)
           /\ \A i \in DOMAIN Snapshot :
                Believed(Snapshot[i].status, status[Snapshot[i].header])
           /\ \A i \in DOMAIN Snapshot : \A b : Snapshot[i].header = b =>
                Rank(Snapshot[i].status) <= Rank(Persisted(b).status)
<1>1. \A i \in DOMAIN Snapshot :
         /\ i \in Nat
         /\ Snapshot[i] = Persisted(Snapshot[i].header)
         /\ index[Snapshot[i].header] = i + 1
  BY SnapshotFacts
<1>2. NeverBack(Snapshot)
  <2> SUFFICES ASSUME NEW i \in DOMAIN Snapshot, NEW j \in DOMAIN Snapshot, i < j,
                      Snapshot[i].header = Snapshot[j].header
               PROVE  FALSE
    BY Zenon DEF NeverBack
  <2>1. i + 1 = j + 1 /\ i \in Nat /\ j \in Nat
    BY Zenon, <1>1
  <2> QED
    BY <2>1
<1>3. ASSUME NEW i \in DOMAIN Snapshot, NEW b, Snapshot[i].header = b
      PROVE  /\ Believed(Snapshot[i].status, status[b])
             /\ Rank(Snapshot[i].status) <= Rank(Persisted(b).status)
  <2>1. Snapshot[i] = Persisted(b)
    BY Zenon, <1>1, <1>3
  <2> QED
    BY <2>1, RankFacts, PersistedBelieved
<1> QED
  BY Zenon, <1>2, <1>3

-----------------------------------------------------------------------------
(* Every step.                                                             *)

(* What SurvivalInv says once no load has left records unread, step by     *)
(* step: the files, then the tree.                                         *)
FilesKeep ==
    /\ NeverBack(journal) /\ Kept(journal, jsynced, acked)
    /\ phase = "dirsync" => NeverBack(replaced) /\ Kept(replaced, Len(replaced), acked)
TreeBelieves ==
    /\ phase \notin Loading => RecordsBelieved /\ OwedSaysMore
    /\ phase = "run" => OwedSturdy
    /\ phase = "fsync" => OwedWritten
    /\ phase = "apply" => AppliedBelieved

(* Every step but the ones that change the tree keeps the files.           *)
LEMMA StepFilesKeep ==
    DiskInv /\ ValidInv /\ SnapshotTaken /\ ArenaInv /\ SurvivalInv
      /\ [IndexNext]_ivars /\ ~unread /\ FilesKeep /\ TreeBelieves => FilesKeep'

(* A file that keeps a prefix keeps what the prefix says.                  *)
<1>KeptGrows.
    ASSUME NEW p, NEW q, NEW n \in Nat, NEW m \in Nat, NEW ack, n <= m,
           \A i \in 1 .. n : q[i] = p[i], Kept(p, n, ack)
    PROVE  Kept(q, m, ack)
  <2> USE <1>KeptGrows
  <2>1. \A i \in 1 .. n : i \in 1 .. m
    OBVIOUS
  <2>2. ASSUME NEW b, Doomed(p, n, b) PROVE Doomed(q, m, b)
    BY Zenon, <2>1, <2>2 DEF Doomed
  <2>3. ASSUME NEW b \in Header PROVE KeptOf(q, m, ack, b)
    <3>1. KeptOf(p, n, ack, b)
      BY Zenon DEF Kept
    <3>2. \A i \in 1 .. n : i \in 1 .. m /\ q[i] = p[i]
      BY Zenon, <2>1
    <3> QED
      BY Zenon, <2>2, <3>1, <3>2 DEF KeptOf
  <2> QED
    BY Zenon, <2>3 DEF Kept

(* A header is below itself, and its child below what it is below.         *)
<1>BelowFacts.
    /\ \A a : Below(a, a)
    /\ \A a : \A b \in Header : Below(a, Prev[b]) => Below(a, b)
  BY Zenon DEF Below

(* The verdicts of the tree follow from its snapshot: a descendant's from  *)
(* the ancestor that earned it.                                            *)
<1>TerminalDoomed.
    ASSUME DiskInv, ValidInv, NEW b \in Header, Terminal(status[b])
    PROVE  Doomed(Snapshot, Len(Snapshot), b)
  <2>1. IInv /\ TypeOK /\ ParentsFirst /\ ActiveChain /\ VerdictClosure
    BY Zenon, <1>TerminalDoomed DEF DiskInv, IInv
  <2> DEFINE Bad == {c \in Header : Terminal(status[c]) /\ ~Doomed(Snapshot, Len(Snapshot), c)}
             T == {index[c] : c \in Bad}
  <2> SUFFICES ASSUME b \in Bad PROVE FALSE
    BY Zenon, <1>TerminalDoomed
  <2>2. T \subseteq Nat /\ T # {}
    BY SMTT(20), <2>1, BlockFacts DEF TypeOK
  <2>3. PICK k \in T : \A m \in T : k <= m
    <3> HIDE DEF T
    <3> QED
      BY Zenon, <2>2, LeastNatural
  <2>4. PICK c \in Bad : index[c] = k
    BY Zenon, <2>3
  <2>5. c \in Header /\ Terminal(status[c]) /\ ~Doomed(Snapshot, Len(Snapshot), c)
    BY Zenon, <2>4
  <2>6. c \in Tree \ {Genesis}
    BY Zenon, <2>1, <2>5, BlockFacts DEF ParentsFirst, Terminal, Refused
  <2>7. CASE status[c] = "InvalidBlock"
    <3>1. PICK i \in 1 .. Len(Snapshot) : Snapshot[i] = Persisted(c) /\ Snapshot[i].header = c
      BY Zenon, <1>TerminalDoomed, <2>6, SnapshotFacts
    <3>2. Snapshot[i].status = "Refused"
      BY ZenonT(30), <2>7, <3>1, PersistedStatus
    <3> QED
      BY Zenon, <2>5, <3>1, <3>2, <1>BelowFacts DEF Doomed
  <2>8. CASE status[c] = "InvalidHeader"
    BY Zenon, <1>TerminalDoomed, <2>5, <2>8, <1>BelowFacts DEF ValidInv, Doomed
  <2>9. CASE status[c] = "InvalidAncestor"
    <3>1. PICK d : d = Prev[c]
      BY Zenon
    <3>2. Terminal(status[d]) /\ index[d] < index[c] /\ d \in Block
      BY ZenonT(30), <2>1, <2>5, <2>6, <2>9, <3>1, BlockFacts DEF VerdictClosure, ParentsFirst
    <3>3. d \in Header
      BY ZenonT(30), <2>1, <3>2, BlockFacts DEF ActiveChain, Terminal, Refused
    <3>4. d \notin Bad
      <4> SUFFICES ASSUME d \in Bad PROVE FALSE
        BY Zenon
      <4>1. k <= index[d]
        BY Zenon, <2>3
      <4>2. k \in Nat /\ index[d] \in Nat
        BY Zenon, <2>1, <2>2, <3>2 DEF TypeOK
      <4> QED
        BY SMTT(20), <2>4, <3>2, <4>1, <4>2
    <3>5. Doomed(Snapshot, Len(Snapshot), d)
      BY Zenon, <3>2, <3>3, <3>4
    <3>6. Doomed(Snapshot, Len(Snapshot), c)
      BY Zenon, <2>5, <3>1, <3>5, <1>BelowFacts DEF Doomed
    <3> QED
      BY Zenon, <2>5, <3>6
  <2> QED
    BY Zenon, <2>5, <2>7, <2>8, <2>9 DEF Terminal, Refused

(* So a rewrite keeps what was acknowledged.                               *)
<1>SnapshotKeeps.
    ASSUME DiskInv, ValidInv, ArenaInv, SurvivalInv, ~unread, phase \notin Loading
    PROVE  Kept(Snapshot, Len(Snapshot), acked)
  <2> USE <1>SnapshotKeeps
  <2> SUFFICES ASSUME NEW b \in Header PROVE KeptOf(Snapshot, Len(Snapshot), acked, b)
    BY Zenon DEF Kept
  <2>1. /\ acked[b].said.status # "None" => b \in Tree
        /\ acked[b].said.status = "Refused" => Terminal(status[b])
        /\ acked[b].said.status \in {"Checked", "Connected"} =>
             HasBytes(status[b]) \/ Terminal(status[b])
    BY Zenon, Survives
  <2>2. Terminal(status[b]) => Doomed(Snapshot, Len(Snapshot), b)
    BY Zenon, <1>TerminalDoomed
  <2>3. b \in Tree => \E i \in 1 .. Len(Snapshot) :
                         Snapshot[i] = Persisted(b) /\ Snapshot[i].header = b
    BY Zenon, SnapshotFacts, BlockFacts
  <2>4. HasBytes(status[b]) => Rank(Persisted(b).status) >= 1
    BY Zenon, PersistedStatus, RankFacts DEF HasBytes
  <2> QED
    BY Zenon, <2>1, <2>2, <2>3, <2>4 DEF KeptOf

(* Cutting a file short does not make it go back.                          *)
<1>PartNeverBack.
    ASSUME NEW file \in Seq(Sound), NEW k \in 0 .. Len(file), NEW torn, NeverBack(file)
    PROVE  NeverBack(Partial(file, k, torn))
  <2> USE <1>PartNeverBack
  <2>1. PICK part : part = Partial(file, k, torn)
    BY Zenon
  <2>2. /\ part \in Seq(Sound) /\ DOMAIN part = 1 .. Len(part) /\ Len(part) \in Nat
        /\ \A i \in 1 .. k : part[i] = file[i]
        /\ \A i \in 1 .. Len(part) : i > k => part[i] = Torn
    BY <2>1, PartFacts
  <2>3. k \in Nat /\ DOMAIN file = 1 .. Len(file) /\ Len(file) \in Nat /\ k <= Len(file)
    OBVIOUS
  <2> SUFFICES ASSUME NEW i \in DOMAIN part, NEW j \in DOMAIN part, i < j,
                      part[i].header = part[j].header
               PROVE  Rank(part[i].status) <= Rank(part[j].status)
    BY Zenon, <2>1 DEF NeverBack
  <2>4. CASE j <= k
    <3>1. i \in DOMAIN file /\ j \in DOMAIN file /\ part[i] = file[i] /\ part[j] = file[j]
      BY SMTT(20), <2>2, <2>3, <2>4
    <3> QED
      BY Zenon, <3>1 DEF NeverBack
  <2>5. CASE ~(j <= k)
    <3>1. part[j] = Torn
      BY SMTT(20), <2>2, <2>3, <2>5
    <3>2. part[i].header = Genesis
      BY Zenon, <3>1, TornFacts
    <3>3. part[i] = Torn
      BY Zenon, <2>2, <3>2, SoundItem, BlockFacts
    <3> QED
      BY SMTT(20), <3>1, <3>3, TornFacts
  <2> QED
    BY Zenon, <2>4, <2>5

(* A commit made durable what was owed, and kept the rest.                 *)
<1>SyncKeeps.
    ASSUME DiskInv, JournalFsync, Kept(journal, jsynced, acked), OwedWritten
    PROVE  Kept(journal', jsynced', acked')
  <2> USE <1>SyncKeeps
  <2>1. /\ journal' = journal /\ jsynced' = Len(journal)
        /\ \A b \in Block : acked'[b] = IF b \in flagged
                                        THEN [said |-> Persisted(b), was |-> status[b]]
                                        ELSE acked[b]
    BY Zenon DEF JournalFsync
  <2>2. /\ Len(journal) \in Nat /\ jsynced \in Nat /\ jsynced <= Len(journal)
        /\ DOMAIN journal = 1 .. Len(journal)
    BY DEF DiskInv, FilesSound, SeriesOK
  <2>3. Kept(journal, Len(journal), acked)
    BY Zenon, <2>2, <1>KeptGrows
  <2> SUFFICES ASSUME NEW b \in Header PROVE KeptOf(journal, Len(journal), acked', b)
    BY Zenon, <2>1 DEF Kept
  <2>4. b \in Block
    BY Zenon, BlockFacts
  <2>5. CASE b \notin flagged
    <3>1. acked'[b] = acked[b]
      BY Zenon, <2>1, <2>4, <2>5
    <3>2. KeptOf(journal, Len(journal), acked, b)
      BY Zenon, <2>3 DEF Kept
    <3> QED
      BY Zenon, <3>1, <3>2 DEF KeptOf
  <2>6. CASE b \in flagged
    <3>1. PICK i \in 1 .. Len(journal) : journal[i] = Persisted(b)
      BY Zenon, <2>2, <2>6 DEF OwedWritten
    <3>2. acked'[b].said = journal[i] /\ journal[i].header = b
      <4>1. acked'[b] = [said |-> Persisted(b), was |-> status[b]]
        BY Zenon, <2>1, <2>4, <2>6
      <4>2. acked'[b].said = Persisted(b)
        BY <4>1
      <4>3. Persisted(b).header = b
        BY Zenon DEF Persisted
      <4> QED
        BY Zenon, <3>1, <4>2, <4>3
    <3>3. journal[i].status = "Refused" => Doomed(journal, Len(journal), b)
      BY Zenon, <3>1, <3>2, <1>BelowFacts DEF Doomed
    <3>4. journal[i].status \in {"Checked", "Connected"} => Rank(journal[i].status) >= 1
      BY Zenon, RankFacts
    <3>5. PICK s : s = journal[i].status
      BY Zenon
    <3>6. acked'[b].said.status = s
      BY Zenon, <3>2, <3>5
    <3>7. /\ \E j \in 1 .. Len(journal) : journal[j].header = b
          /\ s = "Refused" => Doomed(journal, Len(journal), b)
          /\ s \in {"Checked", "Connected"} =>
               \E j \in 1 .. Len(journal) : journal[j].header = b /\ Rank(journal[j].status) >= 1
      BY ZenonT(30), <3>1, <3>2, <3>3, <3>4, <3>5
    <3> QED
      BY Zenon, <3>6, <3>7 DEF KeptOf
  <2> QED
    BY Zenon, <2>5, <2>6
<1> SUFFICES ASSUME DiskInv, ValidInv, SnapshotTaken, ArenaInv, SurvivalInv,
                    [IndexNext]_ivars, ~unread, FilesKeep, TreeBelieves
             PROVE  FilesKeep'
  BY Zenon
<1>1. /\ journal \in Seq(Sound) /\ replaced \in Seq(Sound) /\ DOMAIN journal = 1 .. Len(journal)
      /\ Len(journal) \in Nat /\ jsynced \in Nat /\ jsynced <= Len(journal)
  BY DEF DiskInv, FilesSound, SeriesOK
<1>2. NeverBack(journal) /\ Kept(journal, jsynced, acked)
  BY Zenon DEF FilesKeep
<1>3. CASE UNCHANGED <<journal, jsynced, acked>> /\ phase' # "dirsync"
  BY Zenon, <1>2, <1>3 DEF FilesKeep
<1>4. CASE UNCHANGED ivars \/ Tick \/ CoinCommit
  <2>1. UNCHANGED <<journal, jsynced, acked, replaced, phase>>
    BY Zenon, <1>4 DEF ivars, Tick, CoinCommit, control, disk, history
  <2> QED
    BY Zenon, <2>1 DEF FilesKeep
<1>5. CASE CommitSync \/ Stop \/ Load \/ RewriteTemp \/ RewriteDone
  <2>1. UNCHANGED <<journal, jsynced, acked>>
    BY Zenon, <1>5 DEF CommitSync, Stop, Load, ReplayRecord, ReplayRejected, ReplayEnd, Apply,
                ConnectStep, RefuseToStart, LoadEnd, RewriteTemp, RewriteDone, disk, history
  <2>2. phase' # "dirsync"
    BY Zenon, <1>5 DEF CommitSync, Stop, Load, ReplayRecord, ReplayRejected, ReplayEnd, Apply,
                ConnectStep, RefuseToStart, LoadEnd, RewriteTemp, RewriteDone, Applied,
                Committed, control
  <2> QED
    BY ZenonT(30), <1>3, <2>1, <2>2
<1>6. CASE \E b \in Header : \/ ReceiveHeader(b) \/ ReceiveBlock(b) \/ RefuseBlock(b)
                             \/ ConnectBlock(b) \/ DisconnectBlock(b)
  <2>1. UNCHANGED <<journal, jsynced, acked>> /\ phase' # "dirsync"
    BY Zenon, <1>6 DEF ReceiveHeader, ReceiveBlock, RefuseBlock, ConnectBlock, DisconnectBlock,
                control, disk, history
  <2> QED
    BY Zenon, <1>3, <2>1
<1>7. ASSUME NEW k \in 0 .. Len(dirty), NEW torn, phase = "write",
             UNCHANGED <<vars, location, jsynced, acked>>,
             journal' = journal \o Partial(Batch, k, torn), phase' # "dirsync"
      PROVE  FilesKeep'
  <2>1. RecordsBelieved /\ OwedSaysMore
    BY Zenon, <1>7 DEF TreeBelieves, Loading
  <2>2. /\ NeverBack(journal') /\ Len(journal') \in Nat /\ Len(journal) <= Len(journal')
        /\ \A i \in DOMAIN journal : journal'[i] = journal[i]
    BY Zenon, <1>2, <1>7, <2>1, BatchBelieved
  <2>3. Kept(journal', jsynced, acked)
    <3>1. \A i \in 1 .. jsynced : journal'[i] = journal[i]
      BY SMTT(20), <1>1, <2>2
    <3>2. jsynced <= jsynced
      BY <1>1
    <3> QED
      BY ZenonT(30), <1>1, <1>2, <3>1, <3>2, <1>KeptGrows
  <2> QED
    BY Zenon, <1>7, <2>2, <2>3 DEF FilesKeep
<1>8. CASE JournalWrite
  <2>1. phase = "write" /\ Len(dirty) \in 0 .. Len(dirty)
    BY SMTT(20), <1>8, Lengths DEF JournalWrite
  <2>2. Partial(Batch, Len(dirty), FALSE) = Batch
    BY Zenon, <2>1, BatchWhole
  <2>3. /\ UNCHANGED <<vars, location, jsynced, acked>> /\ phase' # "dirsync"
        /\ journal' = journal \o Partial(Batch, Len(dirty), FALSE)
    BY Zenon, <1>8, <2>2 DEF JournalWrite, history
  <2> QED
    BY ZenonT(30), <1>7, <2>1, <2>3
<1>9. CASE \E k \in 0 .. Len(dirty), torn \in BOOLEAN : JournalWriteFails(k, torn)
  <2>1. PICK k \in 0 .. Len(dirty), torn \in BOOLEAN : JournalWriteFails(k, torn)
    BY Zenon, <1>9
  <2> QED
    BY Zenon, <1>7, <2>1 DEF JournalWriteFails, CommitFailed
<1>10. CASE JournalFsync
  <2>1. /\ journal' = journal /\ phase = "fsync" /\ phase' \in {"rewrite", "exit", "run"}
    BY Zenon, <1>10 DEF JournalFsync, Committed
  <2>2. OwedWritten
    BY Zenon, <2>1 DEF TreeBelieves
  <2>3. Kept(journal', jsynced', acked')
    BY Zenon, <1>2, <1>10, <2>2, <1>SyncKeeps
  <2> QED
    BY Zenon, <1>2, <2>1, <2>3 DEF FilesKeep
<1>11. CASE RewriteRename
  <2>1. /\ phase = "rename" /\ UNCHANGED acked /\ journal' = temp /\ jsynced' = Len(temp)
        /\ replaced' = journal
    BY Zenon, <1>11 DEF RewriteRename, history
  <2>2. journal' = Snapshot /\ jsynced' = Len(Snapshot)
    BY Zenon, <2>1 DEF SnapshotTaken
  <2>3. Kept(Snapshot, Len(Snapshot), acked) /\ NeverBack(Snapshot)
    BY ZenonT(30), <2>1, <1>SnapshotKeeps, SnapshotBelieved DEF Loading
  <2>4. Kept(journal, Len(journal), acked)
    BY Zenon, <1>1, <1>2, <1>KeptGrows
  <2> QED
    BY ZenonT(30), <1>2, <2>1, <2>2, <2>3, <2>4 DEF FilesKeep
<1>12. CASE Exit
  <2>1. UNCHANGED <<journal, acked>> /\ jsynced' = Len(journal) /\ phase' = "replay"
    BY ZenonT(30), <1>12 DEF Exit, Forget
  <2>2. Kept(journal, Len(journal), acked)
    BY Zenon, <1>1, <1>2, <1>KeptGrows
  <2> QED
    BY Zenon, <1>2, <2>1, <2>2 DEF FilesKeep
<1>13. CASE \E k \in 0 .. Len(journal), torn \in BOOLEAN, n \in 0 .. Len(blocks) :
              Crash(k, torn, n)
  <2>1. PICK k \in 0 .. Len(journal), torn \in BOOLEAN, n \in 0 .. Len(blocks) :
          Crash(k, torn, n)
    BY Zenon, <1>13
  <2>2. UNCHANGED acked /\ jsynced' = Len(journal') /\ phase' = "replay"
    BY Zenon, <2>1 DEF Crash, Forget
  <2>3. CASE k \in jsynced .. Len(journal) /\ journal' = Partial(journal, k, torn)
    <3>1. /\ NeverBack(journal') /\ Len(journal') \in Nat /\ k <= Len(journal')
          /\ \A i \in 1 .. k : journal'[i] = journal[i]
      <4>1. PICK part : part = Partial(journal, k, torn)
        BY Zenon
      <4>2. /\ Len(part) \in Nat /\ k <= Len(part)
            /\ \A i \in 1 .. k : part[i] = journal[i]
        BY SMTT(20), <1>1, <4>1, PartFacts
      <4>3. NeverBack(part)
        BY ZenonT(30), <1>1, <1>2, <4>1, <1>PartNeverBack
      <4> QED
        BY Zenon, <2>3, <4>1, <4>2, <4>3
    <3>2. jsynced <= Len(journal') /\ \A i \in 1 .. jsynced : journal'[i] = journal[i]
      BY SMTT(20), <1>1, <2>3, <3>1
    <3>3. Kept(journal', Len(journal'), acked)
      BY ZenonT(30), <1>1, <1>2, <3>1, <3>2, <1>KeptGrows
    <3> QED
      BY Zenon, <2>2, <3>1, <3>3 DEF FilesKeep
  <2>4. CASE phase = "dirsync" /\ journal' = replaced
    BY Zenon, <2>2, <2>4 DEF FilesKeep
  <2> QED
    BY Zenon, <2>1, <2>3, <2>4 DEF Crash
<1> QED
  BY ZenonT(30), <1>4, <1>5, <1>6, <1>8, <1>9, <1>10, <1>11, <1>12, <1>13 DEF IndexNext, Commit

(* Every step leaves the tree believing what the files say.                *)
LEMMA StepTreeBelieves ==
    DiskInv /\ DiskInv' /\ ValidInv /\ ValidInv' /\ SnapshotTaken /\ ArenaInv
      /\ [IndexNext]_ivars /\ ~unread /\ ~unread' /\ FilesKeep /\ TreeBelieves
      => TreeBelieves'

(* A connected block passes, with all its ancestors.                       *)
<1>ConnectedSturdy.
    ASSUME NEW st, NEW b \in Header, st[b] = "Connected",
           \A h \in Header : st[h] = "Connected" => h \in valid /\ IsConnected(st[Prev[h]]),
           \A h \in Block : st[h] = "Genesis" <=> h = Genesis
    PROVE  Sturdy(b)
  <2> USE <1>ConnectedSturdy
  <2>1. PICK A : A = {h \in Header : st[h] = "Connected"}
    BY Zenon
  <2>2. A \in SUBSET valid /\ b \in A
    BY Zenon, <2>1
  <2>3. ASSUME NEW h \in A PROVE Prev[h] \in A \cup {Genesis}
    <3>1. Prev[h] \in Block /\ IsConnected(st[Prev[h]])
      BY Zenon, <2>1, BlockFacts
    <3> QED
      BY Zenon, <2>1, <3>1, BlockFacts DEF IsConnected
  <2> QED
    BY Zenon, <2>2, <2>3 DEF Sturdy

(* A verdict on a block that does not pass reaches no block that does with *)
(* all its ancestors.                                                      *)
<1>SturdySafe.
    ASSUME IInv, NEW from \in Header, from \notin valid,
           status[from] \in {"HeaderAccepted", "BlockChecked"},
           NEW S \in SUBSET (Tree \ {Genesis}), Inherits(from, S), NEW b \in S
    PROVE  ~Sturdy(b)
  <2>1. ParentsFirst /\ TypeOK
    BY Zenon, <1>SturdySafe DEF IInv
  <2>2. \A c \in S : c \in Header /\ Prev[c] \in S \cup {from}
    BY Zenon, <1>SturdySafe, InheritorsOffChain
  <2> DEFINE Bad == {c \in S : Sturdy(c)}
             T == {index[c] : c \in Bad}
  <2> SUFFICES ASSUME b \in Bad PROVE FALSE
    BY Zenon
  <2>3. T \subseteq Nat /\ T # {}
    <3>1. \A c \in Block : index[c] \in Nat
      BY Zenon, <2>1 DEF TypeOK
    <3>2. \A c \in Bad : c \in Block
      BY Zenon, <2>2, BlockFacts
    <3> HIDE DEF Bad
    <3> QED
      BY Zenon, <3>1, <3>2
  <2>4. PICK k \in T : \A m \in T : k <= m
    <3> HIDE DEF T
    <3> QED
      BY Zenon, <2>3, LeastNatural
  <2>5. PICK c \in Bad : index[c] = k
    BY Zenon, <2>4
  <2>6. PICK A \in SUBSET valid : c \in A /\ \A h \in A : Prev[h] \in A \cup {Genesis}
    BY Zenon, <2>5 DEF Sturdy
  <2>7. c \in S /\ Prev[c] \in S \cup {from} /\ Prev[c] \in A \cup {Genesis}
    BY Zenon, <2>2, <2>5, <2>6
  <2>8. Prev[c] \in S /\ Prev[c] \in A
    BY Zenon, <1>SturdySafe, <2>6, <2>7, BlockFacts
  <2>9. Prev[c] \in Bad
    BY Zenon, <2>6, <2>8 DEF Sturdy
  <2>10. k <= index[Prev[c]]
    BY Zenon, <2>4, <2>9
  <2>11. index[Prev[c]] < index[c] /\ index[c] \in Nat /\ index[Prev[c]] \in Nat
    BY ZenonT(30), <2>1, <2>2, <2>7, BlockFacts DEF ParentsFirst, TypeOK
  <2> QED
    BY SMTT(20), <2>5, <2>10, <2>11

(* Belief is never lost: a status only moves to one that says more.        *)
<1>BeliefStays.
    ASSUME NEW r, NEW s, NEW t, Believed(r, s), Terminal(s) => Terminal(t),
           HasBytes(s) => HasBytes(t) \/ Terminal(t)
    PROVE  Believed(r, t)
  BY Zenon, <1>BeliefStays DEF Believed

(* Receiving headers and blocks, refusing, connecting and disconnecting.   *)
<1>RunBelieved.
    ASSUME DiskInv, DiskInv', ValidInv, ValidInv', RecordsBelieved, OwedSaysMore, OwedSturdy,
           InOrder(journal, Len(journal), index), UNCHANGED <<journal, valid>>,
           NEW b \in Header,
           \/ Accept(b, now) \/ BlockChecked(b) \/ Connected(b) \/ Disconnected(b)
           \/ b \notin valid /\ Invalidate(b)
    PROVE  RecordsBelieved' /\ OwedSaysMore' /\ OwedSturdy'
  <2>1. /\ IInv /\ IInv' /\ TypeOK /\ status \in [Block -> Status]
        /\ journal \in Seq(Sound) /\ b \in Block /\ b # Genesis /\ flagged \subseteq Header
        /\ DOMAIN journal = 1 .. Len(journal)
    <3>1. IInv /\ IInv' /\ journal \in Seq(Sound)
      BY Zenon, <1>RunBelieved DEF DiskInv, FilesSound
    <3>2. TypeOK
      BY Zenon, <3>1 DEF IInv
    <3>3. status \in [Block -> Status] /\ flagged \subseteq Header
      BY Zenon, <3>2 DEF TypeOK
    <3>4. b \in Block /\ b # Genesis
      BY Zenon, BlockFacts
    <3>5. DOMAIN journal = 1 .. Len(journal)
      BY <3>1
    <3> QED
      BY ZenonT(30), <3>1, <3>2, <3>3, <3>4, <3>5
  <2>2. \A i \in DOMAIN journal : journal[i] # Torn => journal[i].header \in Header
    BY ZenonT(30), <2>1, SoundItem
  <2>3. \A i \in DOMAIN journal : journal[i].header \in Header => journal[i] # Torn
    BY ZenonT(30), <2>1, SoundItem
  <2>4. \A c \in Header : Sturdy(c)' <=> Sturdy(c)
    BY Zenon, <1>RunBelieved DEF Sturdy
  <2>5. RecordsBelieved'
    <3> SUFFICES ASSUME NEW i \in DOMAIN journal, journal[i] # Torn
                 PROVE  Believed(journal[i].status, status'[journal[i].header])
      BY Zenon, <1>RunBelieved DEF RecordsBelieved
    <3>1. PICK h \in Header : h = journal[i].header
      BY Zenon, <2>2
    <3>2. Believed(journal[i].status, status[h])
      BY Zenon, <1>RunBelieved, <3>1 DEF RecordsBelieved
    <3>3. /\ Terminal(status[h]) => Terminal(status'[h])
          /\ HasBytes(status[h]) => HasBytes(status'[h]) \/ Terminal(status'[h])
      BY Zenon, <1>RunBelieved, <2>1, StatusStep
    <3> QED
      BY Zenon, <3>1, <3>2, <3>3, <1>BeliefStays
  <2>6. flagged' = flagged \cup {b}
    BY Zenon, <1>RunBelieved, <2>1, StepMarks
  <2>7. \A c : status'[c] = status[c] => Persisted(c)'.status = Persisted(c).status
    BY Zenon DEF Persisted
  <2>8. ASSUME NEW c \in flagged, status'[c] = status[c], NEW i \in DOMAIN journal,
               journal[i].header = c
        PROVE  /\ Rank(journal[i].status) <= Rank(Persisted(c)'.status)
               /\ Rank(journal[i].status) >= 1 /\ HasBytes(status'[c]) => Sturdy(c)
    BY Zenon, <1>RunBelieved, <2>7, <2>8 DEF OwedSaysMore, OwedSturdy
  <2>9. SUFFICES ASSUME NEW c \in flagged', NEW i \in DOMAIN journal, journal[i].header = c,
                        c = b \/ status'[c] # status[c]
                 PROVE  /\ Rank(journal[i].status) <= Rank(Persisted(c)'.status)
                        /\ Rank(journal[i].status) >= 1 /\ HasBytes(status'[c]) => Sturdy(c)
    <3>1. \A c \in flagged' : c \in flagged \/ c = b
      BY Zenon, <2>6
    <3>2. flagged' \subseteq Header
      BY Zenon, <2>1, <2>6
    <3>3. OwedSaysMore'
      BY ZenonT(30), <1>RunBelieved, <2>8, <2>9, <3>1 DEF OwedSaysMore
    <3>4. OwedSturdy'
      BY ZenonT(30), <1>RunBelieved, <2>4, <2>8, <2>9, <3>1, <3>2 DEF OwedSturdy
    <3> QED
      BY Zenon, <2>5, <3>3, <3>4
  <2>10. c \in Header /\ c \in Block /\ (c = b \/ c \in flagged)
    BY Zenon, <2>1, <2>6, BlockFacts
  <2>11. journal[i] # Torn
    BY Zenon, <2>3, <2>10, <2>9
  <2>12. Believed(journal[i].status, status[c])
    BY Zenon, <1>RunBelieved, <2>9, <2>11 DEF RecordsBelieved
  <2>13. /\ Persisted(c)'.status = "Connected" <=> status'[c] = "Connected"
         /\ Persisted(c)'.status = "Checked" <=> status'[c] = "BlockChecked"
         /\ Persisted(c)'.status = "Refused" <=> status'[c] = "InvalidBlock"
    BY Zenon DEF Persisted
  <2>14. CASE Accept(b, now)
    <3>1. PICK s : status' = [status EXCEPT ![b] = s]
      BY Zenon, <2>14 DEF Accept, AcceptInvalidAncestor, AcceptInvalid, AcceptFirst, Insert
    <3>2. c = b
      BY ZenonT(30), <2>1, <2>9, <2>10, <3>1
    <3>3. index[b] = 0
      BY Zenon, <2>14 DEF Accept, AcceptInvalidAncestor, AcceptInvalid, AcceptFirst, Connects
    <3> QED
      BY ZenonT(30), <1>RunBelieved, <2>1, <2>9, <2>11, <3>2, <3>3 DEF InOrder
  <2>15. CASE BlockChecked(b)
    <3>1. c = b /\ status[c] = "HeaderAccepted"
      BY ZenonT(30), <2>1, <2>9, <2>10, <2>15 DEF BlockChecked
    <3>2. ~(Rank(journal[i].status) >= 1)
      BY Zenon, <2>12, <3>1, RankFacts DEF Believed, HasBytes, Terminal, Refused
    <3>3. Rank(journal[i].status) \in 0 .. 2 /\ Rank(Persisted(c)'.status) \in 0 .. 2
      BY Zenon, RankFacts
    <3> QED
      BY <3>2, <3>3
  <2>16. CASE Connected(b)
    <3>1. c = b /\ status[c] = "BlockChecked" /\ status'[c] = "Connected"
      BY ZenonT(30), <2>1, <2>9, <2>10, <2>16 DEF Connected
    <3>2. journal[i].status # "Refused"
      BY Zenon, <2>12, <3>1 DEF Believed, HasBytes, Terminal, Refused
    <3>3. Rank(Persisted(c)'.status) >= 1
      BY ZenonT(30), <2>13, <3>1, RankFacts
    <3>4. Rank(journal[i].status) <= Rank(Persisted(c)'.status)
      <4>1. Rank(journal[i].status) \in 0 .. 2 /\ Rank(journal[i].status) # 2
            /\ Rank(Persisted(c)'.status) \in 0 .. 2
        BY SMTT(20), <3>2, RankFacts
      <4> QED
        BY SMTT(20), <3>3, <4>1
    <3>5. Sturdy(c)
      <4>1. \A h \in Header : status'[h] = "Connected" =>
               h \in valid /\ IsConnected(status'[Prev[h]])
        BY Zenon, <1>RunBelieved, <2>1 DEF ValidInv, IInv, ActiveChain
      <4>2. \A h \in Block : status'[h] = "Genesis" <=> h = Genesis
        BY ZenonT(30), <2>1 DEF IInv, ActiveChain
      <4> QED
        BY ZenonT(30), <2>10, <3>1, <4>1, <4>2, <1>ConnectedSturdy
    <3> QED
      BY Zenon, <3>4, <3>5
  <2>17. CASE Disconnected(b)
    <3>1. c = b /\ status[c] = "Connected" /\ status'[c] = "BlockChecked"
      BY ZenonT(30), <2>1, <2>9, <2>10, <2>17 DEF Disconnected
    <3>2. journal[i].status # "Refused"
      BY Zenon, <2>12, <3>1 DEF Believed, HasBytes, Terminal, Refused
    <3>3. Rank(Persisted(c)'.status) >= 1
      BY ZenonT(30), <2>13, <3>1, RankFacts
    <3>4. Rank(journal[i].status) <= Rank(Persisted(c)'.status)
      <4>1. Rank(journal[i].status) \in 0 .. 2 /\ Rank(journal[i].status) # 2
            /\ Rank(Persisted(c)'.status) \in 0 .. 2
        BY <3>2, RankFacts
      <4> QED
        BY <3>3, <4>1
    <3>5. Sturdy(c)
      <4>1. \A h \in Header : status[h] = "Connected" =>
               h \in valid /\ IsConnected(status[Prev[h]])
        BY Zenon, <1>RunBelieved, <2>1 DEF ValidInv, IInv, ActiveChain
      <4>2. \A h \in Block : status[h] = "Genesis" <=> h = Genesis
        BY Zenon, <2>1 DEF IInv, ActiveChain
      <4> QED
        BY ZenonT(30), <2>10, <3>1, <4>1, <4>2, <1>ConnectedSturdy
    <3> QED
      BY Zenon, <3>4, <3>5
  <2>18. CASE b \notin valid /\ Invalidate(b)
    <3>1. PICK S \in SUBSET (Tree \ {Genesis}) : Inherits(b, S) /\ PropagateAndReselect(b, S)
      BY Zenon, <2>18 DEF Invalidate
    <3>2. status'[c] = IF c = b THEN "InvalidBlock"
                       ELSE IF c \in S THEN "InvalidAncestor" ELSE status[c]
      BY Zenon, <2>10, <3>1 DEF PropagateAndReselect
    <3>3. ~HasBytes(status'[c])
      BY Zenon, <2>9, <3>2 DEF HasBytes
    <3>4. CASE c = b
      <4>1. Rank(Persisted(c)'.status) = 2
        BY ZenonT(30), <2>13, <3>2, <3>4, RankFacts
      <4>2. Rank(journal[i].status) \in 0 .. 2
        BY Zenon, RankFacts
      <4> QED
        BY SMTT(20), <3>3, <4>1, <4>2
    <3>5. CASE c # b
      <4>1. c \in S /\ c \in flagged
        BY ZenonT(30), <2>9, <2>10, <3>2, <3>5
      <4>2. status[b] \in {"HeaderAccepted", "BlockChecked"}
        BY Zenon, <2>18 DEF Invalidate
      <4>3. ~Sturdy(c)
        BY ZenonT(30), <2>1, <2>18, <3>1, <4>1, <4>2, <1>SturdySafe
      <4>4. ~Terminal(status[c])
        BY ZenonT(30), <2>1, <3>1, <4>1, <4>2, InheritorsOffChain
      <4>5. ~(Rank(journal[i].status) >= 1)
        <5> SUFFICES ASSUME Rank(journal[i].status) >= 1 PROVE FALSE
          BY Zenon
        <5>1. HasBytes(status[c])
          BY Zenon, <2>12, <4>4, RankFacts DEF Believed
        <5> QED
          BY ZenonT(30), <1>RunBelieved, <2>9, <4>1, <4>3, <5>1 DEF OwedSturdy
      <4>6. Rank(journal[i].status) \in 0 .. 2 /\ Rank(Persisted(c)'.status) \in 0 .. 2
        BY Zenon, RankFacts
      <4> QED
        BY SMTT(20), <3>3, <4>5, <4>6
    <3> QED
      BY Zenon, <3>4, <3>5
  <2> QED
    BY ZenonT(30), <1>RunBelieved, <2>14, <2>15, <2>16, <2>17, <2>18

(* What was believed of a record is believed of one that says less.        *)
<1>BelievedLess.
    ASSUME NEW r, NEW q, NEW s, Rank(r) <= Rank(q), Believed(q, s)
    PROVE  Believed(r, s)
  <2> USE <1>BelievedLess
  <2>1. Rank(r) \in 0 .. 2 /\ Rank(q) \in 0 .. 2
    BY Zenon, RankFacts
  <2>2. r = "Refused" => q = "Refused"
    BY <2>1, RankFacts
  <2>3. r \in {"Checked", "Connected"} => Rank(q) >= 1
    BY <2>1, RankFacts
  <2> QED
    BY Zenon, <2>2, <2>3, RankFacts DEF Believed

(* The records a load took do not change while it applies them.            *)
<1>LastRecordStays.
    ASSUME UNCHANGED <<journal, taken>>
    PROVE  \A b : LastRecord(b)' = LastRecord(b)
  BY <1>LastRecordStays DEF LastRecord, Named

(* The entry a load goes through next believes its last record too.        *)
<1>ApplyBelieved.
    ASSUME DiskInv, phase = "apply", AppliedBelieved, Apply
    PROVE  AppliedBelieved'
  <2>1. /\ IInv /\ ActiveChain /\ entries \in Seq(Block) /\ status \in [Block -> Status]
        /\ DOMAIN entries = 1 .. Len(entries) /\ pos \in Nat /\ pos >= 1 /\ Len(entries) \in Nat
    <3>1. IInv /\ pos \in Nat /\ pos >= 1
      BY <1>ApplyBelieved DEF DiskInv, LoadBounds
    <3>2. ActiveChain /\ entries \in Seq(Block) /\ status \in [Block -> Status]
      BY Zenon, <3>1 DEF IInv, TypeOK
    <3> QED
      BY <3>1, <3>2
  <2>2. \A b : LastRecord(b)' = LastRecord(b)
    BY Zenon, <1>ApplyBelieved, <1>LastRecordStays DEF Apply, disk
  <2>3. PICK d, r : d = entries[pos] /\ r = LastRecord(d)
    BY Zenon
  <2>4. pos \in DOMAIN entries /\ d \in Block /\ pos' = pos + 1
    BY SMTT(20), <1>ApplyBelieved, <2>1, <2>3 DEF Apply
  <2>5. \/ /\ Terminal(status[d]) \/ status[d] = "Genesis" \/ r.status \in {"None", "Accepted"}
           /\ UNCHANGED vars
        \/ /\ status[d] # "Genesis" /\ r.status \in {"Checked", "Connected"} /\ BlockChecked(d)
        \/ /\ status[d] # "Genesis" /\ r.status = "Refused" /\ Invalidate(d)
    BY Zenon, <1>ApplyBelieved, <2>3 DEF Apply
  <2>6. entries' = entries
    BY Zenon, <2>5 DEF vars, BlockChecked, Invalidate
  <2>7. status[d] # "Genesis" => d \in Header
    BY Zenon, <2>1, <2>4, BlockFacts DEF ActiveChain
  <2>8. UNCHANGED vars \/ \E h \in Header : BlockChecked(h) \/ Invalidate(h)
    BY Zenon, <2>5, <2>7
  <2> SUFFICES ASSUME NEW i \in DOMAIN entries, i < pos + 1, entries[i] # Genesis
               PROVE  Believed(LastRecord(entries[i]).status, status'[entries[i]])
    BY Zenon, <2>2, <2>4, <2>6 DEF AppliedBelieved
  <2>9. PICK b \in Header : b = entries[i]
    BY <2>1, BlockFacts
  <2>10. CASE i < pos
    <3>1. Believed(LastRecord(b).status, status[b])
      BY Zenon, <1>ApplyBelieved, <2>9, <2>10 DEF AppliedBelieved
    <3>2. /\ Terminal(status[b]) => Terminal(status'[b])
          /\ HasBytes(status[b]) => HasBytes(status'[b]) \/ Terminal(status'[b])
      BY Zenon, <2>1, <2>8, StatusStep
    <3> QED
      BY Zenon, <2>9, <3>1, <3>2, <1>BeliefStays
  <2>11. CASE i = pos
    <3>1. b = d /\ status[d] # "Genesis" /\ LastRecord(b) = r
      BY Zenon, <2>1, <2>3, <2>4, <2>9, <2>11, BlockFacts DEF ActiveChain
    <3>2. CASE UNCHANGED vars /\ (Terminal(status[d]) \/ r.status \in {"None", "Accepted"})
      BY Zenon, <2>9, <3>1, <3>2 DEF vars, Believed
    <3>3. CASE r.status \in {"Checked", "Connected"} /\ BlockChecked(d)
      <4>1. status'[d] = "BlockChecked"
        BY Zenon, <2>1, <2>4, <3>3 DEF BlockChecked
      <4> QED
        BY Zenon, <2>9, <3>1, <3>3, <4>1 DEF Believed, HasBytes
    <3>4. CASE r.status = "Refused" /\ Invalidate(d)
      <4>1. status'[d] = "InvalidBlock"
        BY Zenon, <2>4, <3>4 DEF Invalidate, PropagateAndReselect
      <4> QED
        BY Zenon, <2>9, <3>1, <3>4, <4>1 DEF Believed, Terminal, Refused
    <3> QED
      BY Zenon, <2>5, <3>1, <3>2, <3>3, <3>4
  <2> QED
    BY <2>1, <2>10, <2>11

(* Connecting the marker's path takes no belief away.                      *)
<1>ConnectBelieved.
    ASSUME DiskInv, AppliedBelieved, ConnectStep
    PROVE  AppliedBelieved'
  <2>1. IInv /\ ActiveChain /\ entries \in Seq(Block) /\ DOMAIN entries = 1 .. Len(entries)
    BY SMTT(20), <1>ConnectBelieved DEF DiskInv, IInv, TypeOK
  <2>2. \A b : LastRecord(b)' = LastRecord(b)
    BY Zenon, <1>ConnectBelieved, <1>LastRecordStays DEF ConnectStep, disk
  <2>3. PICK d \in Tree : Connected(d)
    BY Zenon, <1>ConnectBelieved DEF ConnectStep
  <2>4. d \in Header /\ entries' = entries /\ pos' = pos
    BY Zenon, <1>ConnectBelieved, <2>1, <2>3, BlockFacts DEF ActiveChain, Connected, Tree, ConnectStep, control
  <2> SUFFICES ASSUME NEW i \in DOMAIN entries, i < pos, entries[i] # Genesis
               PROVE  Believed(LastRecord(entries[i]).status, status'[entries[i]])
    BY Zenon, <2>2, <2>4 DEF AppliedBelieved
  <2>5. PICK b \in Header : b = entries[i]
    BY <2>1, BlockFacts
  <2>6. Believed(LastRecord(b).status, status[b])
    BY Zenon, <1>ConnectBelieved, <2>5 DEF AppliedBelieved
  <2>7. /\ Terminal(status[b]) => Terminal(status'[b])
        /\ HasBytes(status[b]) => HasBytes(status'[b]) \/ Terminal(status'[b])
    BY Zenon, <2>1, <2>3, <2>4, StatusStep
  <2> QED
    BY Zenon, <2>5, <2>6, <2>7, <1>BeliefStays

(* A load that took every record and went through every entry believes     *)
(* them all.                                                               *)
<1>LoadedBelieved.
    ASSUME DiskInv, ArenaInv, ~unread, Applied, NeverBack(journal), AppliedBelieved,
           UNCHANGED <<journal, status>>
    PROVE  RecordsBelieved'
  <2>1. /\ IInv /\ ParentsFirst /\ journal \in Seq(Sound) /\ DOMAIN journal = 1 .. Len(journal)
        /\ taken \in Nat /\ taken <= Len(journal) /\ Len(journal) \in Nat
        /\ phase = "apply" /\ pos > Len(entries) /\ pos \in Nat
    BY <1>LoadedBelieved DEF DiskInv, IInv, FilesSound, LoadBounds, Applied
  <2>2. InOrder(journal, Len(journal), index) /\ \A i \in DOMAIN journal : i <= taken \/ journal[i] = Torn
    BY Zenon, <1>LoadedBelieved, <2>1 DEF ArenaInv, ReadAll
  <2> SUFFICES ASSUME NEW i \in DOMAIN journal, journal[i] # Torn
               PROVE  Believed(journal[i].status, status[journal[i].header])
    BY Zenon, <1>LoadedBelieved DEF RecordsBelieved
  <2>3. PICK h \in Header : h = journal[i].header
    BY Zenon, <2>1, SoundItem
  <2>4. i \in 1 .. taken
    BY <2>1, <2>2
  <2>5. h \in Tree
    BY Zenon, <2>1, <2>2, <2>3, BlockFacts DEF InOrder, Tree
  <2>6. PICK x : x = index[h]
    BY Zenon
  <2>7. x \in DOMAIN entries /\ entries[x] = h
    BY Zenon, <2>1, <2>5, <2>6 DEF ParentsFirst
  <2>8. x < pos
    <3>1. x \in Nat /\ Len(entries) \in Nat /\ x <= Len(entries)
      BY Zenon, <2>1, <2>6, PlaceBound, BlockFacts
    <3> QED
      BY <2>1, <3>1
  <2>9. Believed(LastRecord(h).status, status[h])
    BY Zenon, <1>LoadedBelieved, <2>7, <2>8, BlockFacts DEF AppliedBelieved
  <2>10. PICK m \in 1 .. taken :
           /\ LastRecord(h) = journal[m] /\ journal[m].header = h
           /\ \A j \in 1 .. taken : journal[j].header = h => j <= m
    BY ZenonT(30), <1>LoadedBelieved, <2>1, <2>3, <2>4, LastRecordItem
  <2>11. i <= m /\ m \in DOMAIN journal
    BY SMTT(20), <2>1, <2>3, <2>4, <2>10
  <2>12. Rank(journal[i].status) <= Rank(journal[m].status)
    <3>1. CASE i = m
      BY <3>1, RankFacts
    <3>2. CASE i < m
      BY ZenonT(30), <1>LoadedBelieved, <2>3, <2>10, <2>11, <3>2 DEF NeverBack
    <3> QED
      BY SMTT(20), <2>4, <2>11, <3>1, <3>2
  <2> QED
    BY Zenon, <2>3, <2>9, <2>10, <2>12, <1>BelievedLess

(* A commit, and a load, leaves nothing owed.                              *)
<1>NothingOwed.
    ASSUME IInv, \/ ClearDirty
                 \/ dirty = <<>> /\ UNCHANGED vars
    PROVE  flagged' = {}
  <2> USE <1>NothingOwed
  <2>1. TypeOK /\ DirtyOnce
    BY Zenon DEF IInv
  <2>2. flagged \subseteq Header
    BY Zenon, <2>1 DEF TypeOK
  <2>3. \A b \in flagged : \E i \in DOMAIN dirty : dirty[i] = b
    BY Zenon, <2>1, <2>2 DEF DirtyOnce
  <2>4. CASE ClearDirty
    BY Zenon, <2>3, <2>4 DEF ClearDirty
  <2>5. CASE dirty = <<>> /\ UNCHANGED vars
    <3>1. DOMAIN dirty = {}
      BY <2>5
    <3> QED
      BY Zenon, <2>3, <2>5, <3>1 DEF vars
  <2> QED
    BY Zenon, <2>4, <2>5

(* Nothing is owed more than what was written.                             *)
<1>NoneOwed.
    ASSUME flagged' = {}
    PROVE  OwedSaysMore' /\ OwedSturdy' /\ OwedWritten'
  BY Zenon, <1>NoneOwed DEF OwedSaysMore, OwedSturdy, OwedWritten
<1> SUFFICES ASSUME DiskInv, DiskInv', ValidInv, ValidInv', SnapshotTaken, ArenaInv,
                    [IndexNext]_ivars, ~unread, ~unread', FilesKeep, TreeBelieves
             PROVE  TreeBelieves'
  BY Zenon
<1>1. IInv /\ pos \in Nat /\ NeverBack(journal)
  BY Zenon DEF DiskInv, LoadBounds, FilesKeep
<1>2. ASSUME UNCHANGED <<vars, journal>>
      PROVE  /\ RecordsBelieved => RecordsBelieved'
             /\ UNCHANGED location => (OwedSaysMore => OwedSaysMore')
             /\ UNCHANGED <<location, valid>> => (OwedSturdy => OwedSturdy')
             /\ UNCHANGED location => (OwedWritten => OwedWritten')
  <2>1. UNCHANGED <<status, flagged>>
    BY Zenon, <1>2 DEF vars
  <2>2. UNCHANGED location => \A b : Persisted(b)' = Persisted(b)
    BY Zenon, <2>1 DEF Persisted
  <2>3. UNCHANGED valid => \A b : Sturdy(b)' <=> Sturdy(b)
    BY Zenon DEF Sturdy
  <2>4. RecordsBelieved => RecordsBelieved'
    BY Zenon, <1>2, <2>1 DEF RecordsBelieved
  <2>5. UNCHANGED location => (OwedSaysMore => OwedSaysMore')
    BY Zenon, <1>2, <2>1, <2>2 DEF OwedSaysMore
  <2>6. UNCHANGED <<location, valid>> => (OwedSturdy => OwedSturdy')
    BY Zenon, <1>2, <2>1, <2>3 DEF OwedSturdy
  <2>7. UNCHANGED location => (OwedWritten => OwedWritten')
    BY Zenon, <1>2, <2>1, <2>2 DEF OwedWritten
  <2> QED
    BY Zenon, <2>4, <2>5, <2>6, <2>7
<1>3. valid' = valid
  BY Zenon, ValidKept
<1>4. CASE UNCHANGED ivars \/ Tick \/ CoinCommit
  <2>1. UNCHANGED <<vars, journal, location, phase, pos, taken>>
    BY Zenon, <1>4 DEF ivars, Tick, CoinCommit, control, disk
  <2>2. AppliedBelieved => AppliedBelieved'
    <3>1. \A b : LastRecord(b)' = LastRecord(b)
      BY Zenon, <2>1, <1>LastRecordStays
    <3> QED
      BY Zenon, <2>1, <3>1 DEF AppliedBelieved, vars
  <2> QED
    BY Zenon, <1>2, <1>3, <2>1, <2>2 DEF TreeBelieves
<1>5. CASE CommitSync \/ Stop \/ RewriteTemp
  <2>1. /\ UNCHANGED <<vars, journal, location>> /\ phase \notin Loading
        /\ phase' \notin Loading \cup {"run", "fsync"}
    BY Zenon, <1>5 DEF CommitSync, Stop, RewriteTemp, disk, Loading
  <2> QED
    BY Zenon, <1>2, <2>1 DEF TreeBelieves, Loading
<1>6. CASE ReplayRecord \/ RefuseToStart \/ Exit
             \/ \E k \in 0 .. Len(journal), torn \in BOOLEAN, n \in 0 .. Len(blocks) :
                  Crash(k, torn, n)
  <2>1. phase' \in {"replay", "refused"}
    BY Zenon, <1>6 DEF ReplayRecord, RefuseToStart, Exit, Crash, Forget
  <2> QED
    BY Zenon, <2>1 DEF TreeBelieves, Loading
<1>7. CASE ReplayRejected
  BY Zenon, <1>7 DEF ReplayRejected
<1>8. CASE ReplayEnd
  <2>1. phase' = "apply" /\ pos' = 1 /\ UNCHANGED vars
    BY Zenon, <1>8 DEF ReplayEnd
  <2>2. \A i \in DOMAIN entries : ~(i < 1)
    <3>1. DOMAIN entries = 1 .. Len(entries)
      BY <1>1 DEF IInv, TypeOK
    <3> QED
      BY <3>1
  <2>3. AppliedBelieved'
    BY Zenon, <2>1, <2>2 DEF AppliedBelieved, vars
  <2> QED
    BY Zenon, <2>1, <2>3 DEF TreeBelieves, Loading
<1>9. CASE \E b \in Header : \/ ReceiveHeader(b) \/ ReceiveBlock(b) \/ RefuseBlock(b)
                             \/ ConnectBlock(b) \/ DisconnectBlock(b)
  <2>1. PICK b \in Header : \/ ReceiveHeader(b) \/ ReceiveBlock(b) \/ RefuseBlock(b)
                            \/ ConnectBlock(b) \/ DisconnectBlock(b)
    BY Zenon, <1>9
  <2>2. UNCHANGED journal /\ phase = "run" /\ phase' = "run"
    BY Zenon, <2>1 DEF ReceiveHeader, ReceiveBlock, RefuseBlock, ConnectBlock, DisconnectBlock,
                control, disk
  <2>3. \/ Accept(b, now) \/ BlockChecked(b) \/ Connected(b) \/ Disconnected(b)
        \/ b \notin valid /\ Invalidate(b)
    BY Zenon, <2>1 DEF ReceiveHeader, ReceiveBlock, RefuseBlock, ConnectBlock, DisconnectBlock
  <2>4. /\ RecordsBelieved /\ OwedSaysMore /\ OwedSturdy
        /\ InOrder(journal, Len(journal), index)
    BY Zenon, <2>2 DEF TreeBelieves, Loading, ArenaInv
  <2>5. RecordsBelieved' /\ OwedSaysMore' /\ OwedSturdy'
    BY Zenon, <1>3, <2>2, <2>3, <2>4, <1>RunBelieved
  <2> QED
    BY Zenon, <2>2, <2>5 DEF TreeBelieves
<1>10. CASE Apply \/ ConnectStep
  <2>1. phase = "apply" /\ phase' = "apply"
    BY Zenon, <1>10 DEF Apply, ConnectStep, Applied, control
  <2>2. AppliedBelieved'
    BY Zenon, <1>10, <2>1, <1>ApplyBelieved, <1>ConnectBelieved DEF TreeBelieves
  <2> QED
    BY Zenon, <2>1, <2>2 DEF TreeBelieves, Loading
<1>11. CASE LoadEnd
  <2>1. /\ Applied /\ phase = "apply" /\ phase' = "run" /\ UNCHANGED <<journal, status>>
        /\ \/ ClearDirty
           \/ dirty = <<>> /\ UNCHANGED vars
    <3>1. Applied /\ phase' = "run" /\ UNCHANGED journal
      BY Zenon, <1>11 DEF LoadEnd, disk
    <3>2. \/ ClearDirty
          \/ dirty = <<>> /\ UNCHANGED vars
      BY Zenon, <1>11 DEF LoadEnd
    <3>3. UNCHANGED status
      BY Zenon, <3>2 DEF ClearDirty, vars
    <3>4. phase = "apply"
      BY Zenon, <3>1 DEF Applied
    <3> QED
      BY Zenon, <3>1, <3>2, <3>3, <3>4
  <2>2. RecordsBelieved'
    BY Zenon, <1>1, <2>1, <1>LoadedBelieved DEF TreeBelieves
  <2>3. flagged' = {}
    BY Zenon, <1>1, <2>1, <1>NothingOwed
  <2> QED
    BY Zenon, <2>1, <2>2, <2>3, <1>NoneOwed DEF TreeBelieves
<1>12. ASSUME phase = "fsync" \/ phase = "dirsync", ClearDirty, phase' \in {"run", "exit"},
              UNCHANGED journal
       PROVE  TreeBelieves'
  <2>1. flagged' = {} /\ UNCHANGED status
    BY Zenon, <1>1, <1>12, <1>NothingOwed DEF ClearDirty
  <2>2. RecordsBelieved'
    BY Zenon, <1>12, <2>1 DEF RecordsBelieved, TreeBelieves, Loading
  <2> QED
    BY Zenon, <1>12, <2>1, <2>2, <1>NoneOwed DEF TreeBelieves
<1>13. CASE JournalFsync
  <2>1. CASE phase' = "rewrite" /\ UNCHANGED vars
    BY Zenon, <1>2, <1>13, <2>1 DEF JournalFsync, TreeBelieves, Loading
  <2>2. CASE phase' = Committed /\ ClearDirty
    BY Zenon, <1>12, <1>13, <2>2 DEF JournalFsync, Committed
  <2> QED
    BY Zenon, <1>13, <2>1, <2>2 DEF JournalFsync
<1>14. CASE RewriteDone
  BY Zenon, <1>12, <1>14 DEF RewriteDone, Committed
<1>15. CASE JournalWrite
  <2>1. phase = "write" /\ Len(dirty) \in 0 .. Len(dirty)
    BY SMTT(20), <1>15, Lengths DEF JournalWrite
  <2>2. Partial(Batch, Len(dirty), FALSE) = Batch
    BY Zenon, <2>1, BatchWhole
  <2>3. /\ UNCHANGED <<vars, location>> /\ phase' = "fsync"
        /\ journal' = journal \o Partial(Batch, Len(dirty), FALSE)
    BY Zenon, <1>15, <2>2 DEF JournalWrite
  <2>4. RecordsBelieved /\ OwedSaysMore
    BY Zenon, <2>1 DEF TreeBelieves, Loading
  <2>5. RecordsBelieved' /\ OwedSaysMore' /\ OwedWritten'
    BY Zenon, <1>1, <2>1, <2>3, <2>4, BatchBelieved
  <2> QED
    BY Zenon, <2>3, <2>5 DEF TreeBelieves
<1>16. CASE \E k \in 0 .. Len(dirty), torn \in BOOLEAN : JournalWriteFails(k, torn)
  <2>1. PICK k \in 0 .. Len(dirty), torn \in BOOLEAN : JournalWriteFails(k, torn)
    BY Zenon, <1>16
  <2>2. /\ phase = "write" /\ UNCHANGED <<vars, location>> /\ phase' \in {"exit", "flush"}
        /\ journal' = journal \o Partial(Batch, k, torn)
    BY Zenon, <2>1 DEF JournalWriteFails, CommitFailed
  <2>3. RecordsBelieved /\ OwedSaysMore
    BY Zenon, <2>2 DEF TreeBelieves, Loading
  <2>4. RecordsBelieved' /\ OwedSaysMore'
    BY Zenon, <1>1, <2>2, <2>3, BatchBelieved
  <2> QED
    BY Zenon, <2>2, <2>4 DEF TreeBelieves
<1>17. CASE RewriteRename
  <2>1. /\ phase = "rename" /\ phase' = "dirsync" /\ UNCHANGED <<vars, location>>
        /\ journal' = temp
    BY Zenon, <1>17 DEF RewriteRename
  <2>2. journal' = Snapshot /\ UNCHANGED <<status, flagged>>
    BY Zenon, <2>1 DEF SnapshotTaken, vars
  <2>3. \A b : Persisted(b)' = Persisted(b)
    BY Zenon, <2>1, <2>2 DEF Persisted
  <2>4. RecordsBelieved'
    BY Zenon, <2>2, SnapshotBelieved DEF RecordsBelieved
  <2>5. OwedSaysMore'
    BY ZenonT(30), <2>2, <2>3, SnapshotBelieved DEF OwedSaysMore
  <2> QED
    BY Zenon, <2>1, <2>4, <2>5 DEF TreeBelieves
<1> QED
  BY ZenonT(30), <1>4, <1>5, <1>6, <1>7, <1>8, <1>9, <1>10, <1>11, <1>13, <1>14, <1>15, <1>16, <1>17
     DEF IndexNext, Commit, Load

(* No step takes back that records were left unread.                       *)
LEMMA UnreadStays == [IndexNext]_ivars /\ ~unread' /\ unread \in BOOLEAN => ~unread
BY Zenon DEF IndexNext, ivars, Tick, CoinCommit, ReceiveHeader, ReceiveBlock, RefuseBlock,
       ConnectBlock, DisconnectBlock, CommitSync, Commit, JournalWrite, JournalFsync,
       RewriteTemp, RewriteRename, RewriteDone, JournalWriteFails, Stop, Exit, Crash, Forget,
       Load, ReplayRecord, ReplayRejected, ReplayEnd, Apply, ConnectStep, RefuseToStart,
       LoadEnd, history

(* SurvivalInv is kept by every step.                                      *)
LEMMA StepSurvivalInv ==
    DiskInv /\ DiskInv' /\ ValidInv /\ ValidInv' /\ SnapshotTaken /\ ArenaInv /\ SurvivalInv
      /\ [IndexNext]_ivars => SurvivalInv'
<1> SUFFICES ASSUME DiskInv, DiskInv', ValidInv, ValidInv', SnapshotTaken, ArenaInv,
                    SurvivalInv, [IndexNext]_ivars, ~unread'
             PROVE  SurvivalInv'
  BY Zenon DEF SurvivalInv
<1>1. ~unread
  BY Zenon, UnreadStays DEF DiskInv, FlagsOK
<1>2. FilesKeep /\ TreeBelieves
  BY Zenon, <1>1 DEF SurvivalInv, FilesKeep, TreeBelieves
<1>3. FilesKeep'
  BY Zenon, <1>1, <1>2, StepFilesKeep
<1>4. TreeBelieves'
  BY Zenon, <1>1, <1>2, StepTreeBelieves
<1> QED
  BY Zenon, <1>3, <1>4 DEF SurvivalInv, FilesKeep, TreeBelieves

(* A new node has acknowledged nothing.                                    *)
LEMMA InitSurvivalInv == IndexInit => ValidInv /\ SurvivalInv
<1> SUFFICES ASSUME IndexInit PROVE ValidInv /\ SurvivalInv
  BY Zenon
<1>1. /\ phase = "run" /\ journal = <<>> /\ replaced = <<>> /\ temp = <<>> /\ flagged = {}
      /\ acked = [b \in Block |-> [said |-> Unnamed, was |-> "Absent"]]
      /\ status = [b \in Block |-> IF b = Genesis THEN "Genesis" ELSE "Absent"]
  BY Zenon DEF IndexInit, Init
<1>2. \A b \in Header : status[b] = "Absent" /\ acked[b].said.status = "None"
  BY Zenon, <1>1, BlockFacts DEF Unnamed
<1>3. Kept(journal, jsynced, acked)
  BY Zenon, <1>2 DEF Kept, KeptOf
<1>4. NeverBack(journal) /\ RecordsBelieved /\ OwedSaysMore /\ OwedSturdy
  BY SMTT(20), <1>1 DEF NeverBack, RecordsBelieved, OwedSaysMore, OwedSturdy
<1>5. ValidInv
  BY <1>1, <1>2 DEF ValidInv, FileValid
<1> QED
  BY Zenon, <1>1, <1>3, <1>4, <1>5 DEF SurvivalInv

(* What the index, its commits, its rewrites and its loads keep of what a  *)
(* commit made durable, as long as no load has left records unread.        *)
THEOREM SurvivalInvariant == IndexSpec => [](ValidInv /\ SurvivalInv)
<1>1. IndexInit => ValidInv /\ SurvivalInv
  BY Zenon, InitSurvivalInv
<1>2. IndexSpec => []DiskInv /\ []SnapshotTaken /\ []ArenaInv
  BY ArenaInvariant, PTL
<1>3. DiskInv /\ ValidInv /\ [IndexNext]_ivars => ValidInv'
  BY Zenon, StepValidInv
<1> QED
  BY <1>1, <1>2, <1>3, StepSurvivalInv, PTL DEF IndexSpec

(* Every record a commit made durable is still believed by a node that     *)
(* runs: its header is in the tree, a refusal stands, a block's bytes are  *)
(* known or a verdict has reached it; after any number of crashes, failed  *)
(* writes and rewrites, as long as no load has left records unread.        *)
THEOREM CommittedSurvivesTheorem == IndexSpec => []CommittedSurvivesUnlessUnread
<1>1. DiskInv /\ ArenaInv /\ SurvivalInv => CommittedSurvivesUnlessUnread
  BY Zenon, Survives DEF CommittedSurvivesUnlessUnread, CommittedSurvives, Loading
<1> QED
  BY <1>1, ArenaInvariant, SurvivalInvariant, PTL
=============================================================================
