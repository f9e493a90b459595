------------------------------- MODULE Series -------------------------------
(***************************************************************************)
(* One append-only series of flat files (store/series.rs), with the table  *)
(* of open handles its readers share (store/handles.rs) and the reads and  *)
(* writes the store makes through it (store/mod.rs).  A file is a sequence *)
(* of cells: one for a frame (the magic and the length), one per unit of a *)
(* body, one for a trailer.  Every system call of the writer is a step, so *)
(* that a failure or a crash may fall between any two.                     *)
(***************************************************************************)
EXTENDS Integers, Sequences, FiniteSetsExt

CONSTANTS Record,      \* the bodies that may be written
          Size,        \* [Record -> Nat]: units of a body
          Previous,    \* [Record -> a block]: what an undo trailer also covers
          Trailer,     \* 1 for the undo series, 0 for the block series
          MaxFile,     \* max_file, in units
          MaxOpen,     \* MAX_OPEN_FILES
          MaxFiles,    \* bound: files a behaviour makes
          MaxFaults    \* bound: failed calls and crashes of a behaviour

ASSUME SeriesAssumption ==
    /\ Trailer \in {0, 1} /\ {MaxFile, MaxOpen, MaxFiles} \subseteq Nat \ {0}
    /\ MaxFaults \in Nat /\ Size \in [Record -> Nat \ {0}]

VARIABLES
    dir,       \* the directory: the cells of each file in it
    durable,   \* how many cells of each file a power failure keeps
    entries,   \* the files whose directory entry a power failure keeps
    w,         \* the SeriesWriter and where it stands in append
    open,      \* Handles: the files open for reading, latest first
    placed,    \* the locations append returned, with what is really there
    named,     \* those a later sync covered, which the index may name
    lost,      \* the files a power failure took whole
    faults

vars == <<dir, durable, entries, w, open, placed, named, lost, faults>>

Frame == 1
Units(r) == Frame + Size[r] + Trailer
Body(r) == [k \in 1 .. Size[r] |-> <<r, k>>]

(* The checksum of an undo record covers the block before its own.         *)
TrailerOf(r, body) == <<"trailer", Previous[r], body>>

(* The bytes of one record: the frame, the body, the trailer.              *)
Bytes(r) == <<<<"frame", Size[r]>>>> \o Body(r)
            \o (IF Trailer = 1 THEN <<TrailerOf(r, Body(r))>> ELSE <<>>)

Down == [up |-> FALSE, pc |-> "idle", file |-> 0, offset |-> 0, handle |-> 0,
         unsynced |-> FALSE]

Init == /\ dir = <<>> /\ durable = <<>> /\ entries = {}
        /\ w = Down /\ open = <<>> /\ placed = {} /\ named = {} /\ lost = {}
        /\ faults = 0

-----------------------------------------------------------------------------

(* highest: the largest number in the directory, zero when there is none.  *)
Highest == IF DOMAIN dir = {} THEN 0 ELSE Max(DOMAIN dir)

(* A table with an entry for one more file.                                *)
Adds(table, f, v) ==
    [g \in DOMAIN table \cup {f} |-> IF g \in DOMAIN table THEN table[g] ELSE v]

(* open_with_bound: the cursor goes to the end of the highest file, which  *)
(* is made when it is missing; the directory is not synced.                *)
Open ==
    /\ ~w.up
    /\ LET f == Highest
           old == f \in DOMAIN dir
       IN /\ dir' = IF old THEN dir ELSE Adds(dir, f, <<>>)
          /\ durable' = IF old THEN durable ELSE Adds(durable, f, 0)
          /\ w' = [Down EXCEPT !.up = TRUE, !.file = f, !.handle = f,
                               !.offset = Len(dir'[f])]
    /\ open' = <<>>
    /\ UNCHANGED <<entries, placed, named, lost, faults>>

Idle == w.up /\ w.pc = "idle"
Fits(r) == w.offset = 0 \/ w.offset + Units(r) <= MaxFile

(* write_all succeeds: the cursor moves by the record, wherever the file   *)
(* really ends.                                                            *)
Write(r) ==
    LET at == [rec |-> r, file |-> w.file, offset |-> w.offset + Frame, len |-> Size[r],
               sound |-> w.file = w.handle /\ w.offset = Len(dir[w.handle])]
    IN /\ dir' = [dir EXCEPT ![w.handle] = @ \o Bytes(r)]
       /\ w' = [w EXCEPT !.pc = "idle", !.unsynced = TRUE, !.offset = @ + Units(r)]
       /\ placed' = placed \cup {at}
       /\ UNCHANGED <<durable, entries, open, named, lost, faults>>

(* write_all fails after some of the bytes: append returns the error.      *)
WriteFails(r) ==
    /\ faults < MaxFaults /\ faults' = faults + 1
    /\ \E n \in 0 .. Units(r) - 1 :
           dir' = [dir EXCEPT ![w.handle] = @ \o SubSeq(Bytes(r), 1, n)]
    /\ w' = [w EXCEPT !.pc = "idle"]
    /\ UNCHANGED <<durable, entries, open, placed, named, lost>>

New(r) == \A p \in placed : p.rec # r

AppendRecord(r) == Idle /\ New(r) /\ Fits(r) /\ (Write(r) \/ WriteFails(r))

(* sync: everything in the writer's file is durable, unless nothing was    *)
(* appended since the last one.                                            *)
Synced == IF w.unsynced THEN [durable EXCEPT ![w.handle] = Len(dir[w.handle])] ELSE durable

Sync ==
    /\ Idle /\ placed # named
    /\ durable' = Synced /\ w' = [w EXCEPT !.unsynced = FALSE]
    /\ named' = placed
    /\ UNCHANGED <<dir, entries, open, placed, lost, faults>>

(* Mutant: a roll leaves the file behind without syncing it.               *)
RollUnsynced(r) ==
    /\ Idle /\ New(r) /\ ~Fits(r) /\ w.file + 1 < MaxFiles
    /\ w' = [w EXCEPT !.unsynced = FALSE, !.pc = "create"]
    /\ UNCHANGED <<dir, durable, entries, open, placed, named, lost, faults>>

(* place: the record does not fit, and the file left behind is synced.     *)
Roll(r) ==
    /\ Idle /\ New(r) /\ ~Fits(r) /\ w.file + 1 < MaxFiles
    /\ durable' = Synced
    /\ w' = [w EXCEPT !.unsynced = FALSE, !.pc = "create"]
    /\ UNCHANGED <<dir, entries, open, placed, named, lost, faults>>

(* place: create_new refuses a file that is already there, which a roll    *)
(* that failed at its last call left.                                      *)
RollCreates ==
    /\ w.up /\ w.pc = "create"
    /\ LET next == w.file + 1
       IN IF next \in DOMAIN dir
          THEN w' = [w EXCEPT !.pc = "idle"] /\ UNCHANGED <<dir, durable>>
          ELSE /\ dir' = Adds(dir, next, <<>>) /\ durable' = Adds(durable, next, 0)
               /\ w' = [w EXCEPT !.pc = "entry", !.handle = next]
    /\ UNCHANGED <<entries, open, placed, named, lost, faults>>

(* place: the directory is synced, and only then does the cursor move.     *)
RollSyncsEntry ==
    /\ w.up /\ w.pc = "entry"
    /\ entries' = DOMAIN dir
    /\ w' = [w EXCEPT !.pc = "write", !.file = @ + 1, !.offset = 0]
    /\ UNCHANGED <<dir, durable, open, placed, named, lost, faults>>

RollFails ==
    /\ w.up /\ w.pc = "entry"
    /\ faults < MaxFaults /\ faults' = faults + 1
    /\ w' = [w EXCEPT !.pc = "idle"]
    /\ UNCHANGED <<dir, durable, entries, open, placed, named, lost>>

(* The rest of the append that rolled.                                     *)
AppendRolled(r) == w.up /\ w.pc = "write" /\ New(r) /\ (Write(r) \/ WriteFails(r))

(* The process dies and loses nothing but its own state.  What was placed  *)
(* and not yet named is dead space.                                        *)
Dies ==
    /\ w.up /\ faults < MaxFaults /\ faults' = faults + 1
    /\ w' = Down /\ open' = <<>> /\ placed' = named
    /\ UNCHANGED <<dir, durable, entries, named, lost>>

(* The power fails: every file keeps its durable cells and some of those   *)
(* after them, and a file whose entry was never synced may be gone.  What  *)
(* is there after it is durable.                                           *)
PowerFails ==
    /\ faults < MaxFaults /\ faults' = faults + 1
    /\ \E kept \in SUBSET DOMAIN dir :
         /\ entries \subseteq kept
         /\ \E n \in [kept -> 0 .. Max({Len(dir[f]) : f \in DOMAIN dir} \cup {0})] :
              /\ \A f \in kept : n[f] \in durable[f] .. Len(dir[f])
              /\ dir' = [f \in kept |-> SubSeq(dir[f], 1, n[f])]
              /\ durable' = n
         /\ entries' = kept /\ lost' = lost \cup (DOMAIN dir \ kept)
    /\ w' = Down /\ open' = <<>> /\ placed' = named
    /\ UNCHANGED named

-----------------------------------------------------------------------------

(* An error; no body is empty.                                             *)
Error == <<>>

(* split, and the checksum read_undo compares: the frame must declare the  *)
(* length asked for, and a trailer must cover this body after this         *)
(* record's previous block.                                                *)
Split(cells, p) ==
    LET body == SubSeq(cells, 2, 1 + p.len)
    IN IF \/ cells[1] # <<"frame", p.len>>
          \/ Trailer = 1 /\ cells[2 + p.len] # TrailerOf(p.rec, body)
       THEN Error ELSE body

(* read: one pread of the frame, the body and the trailer.                 *)
ReadAt(p) ==
    LET start == p.offset - Frame
        whole == Frame + p.len + Trailer
    IN IF p.file \notin DOMAIN dir \/ start + whole > Len(dir[p.file])
       THEN Error
       ELSE Split(SubSeq(dir[p.file], start + 1, start + whole), p)

(* Handles::get: a file that is open moves to the front; one that is not   *)
(* is opened, and the one unused for longest makes room for it.            *)
Get(f) ==
    IF f \in Range(open)
    THEN <<f>> \o SelectSeq(open, LAMBDA g : g # f)
    ELSE IF f \notin DOMAIN dir THEN open
    ELSE <<f>> \o (IF Len(open) >= MaxOpen
                  THEN SubSeq(open, 1, Len(open) - 1) ELSE open)

Read(p) ==
    /\ w.up /\ open' = Get(p.file)
    /\ UNCHANGED <<dir, durable, entries, w, placed, named, lost, faults>>

Next == \/ Open \/ Sync \/ RollCreates \/ RollSyncsEntry \/ RollFails \/ Dies \/ PowerFails
        \/ \E r \in Record : AppendRecord(r) \/ Roll(r) \/ AppendRolled(r)
        \/ \E p \in placed : Read(p)

Spec == Init /\ [][Next]_vars

-----------------------------------------------------------------------------

(* What a sync returned for reads back as it was written, after any rolls, *)
(* failed calls, deaths of the process and power failures, as long as the  *)
(* location was right when append returned it and its file was not lost.   *)
SyncedReadsBack ==
    \A p \in named : p.sound /\ p.file \notin lost => ReadAt(p) = Body(p.rec)
=============================================================================
