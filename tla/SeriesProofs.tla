---------------------------- MODULE SeriesProofs ----------------------------
(***************************************************************************)
(* A proof, for every set of records, every bound on a file and any number *)
(* of failed calls, deaths and power failures, that what a sync of a       *)
(* series returned for reads back as it was written.                       *)
(***************************************************************************)
EXTENDS Series, WellFoundedInduction, TLAPS

-----------------------------------------------------------------------------
(* The invariant.                                                          *)

Cell == {<<"frame", Size[r]>> : r \in Record} \cup (Record \X Nat)
        \cup {TrailerOf(r, Body(r)) : r \in Record}

Location == [rec : Record, file : Nat, offset : Nat, len : Nat, sound : BOOLEAN]

(* Where the record at a location begins and ends.                         *)
Start(p) == p.offset - Frame
End(p) == Start(p) + Units(p.rec)

FilesOK ==
    /\ DOMAIN dir \subseteq 0 .. MaxFiles /\ DOMAIN durable = DOMAIN dir
    /\ \A f \in DOMAIN dir : dir[f] \in Seq(Cell) /\ durable[f] \in 0 .. Len(dir[f])

WriterOK ==
    /\ w \in [up : BOOLEAN, pc : {"idle", "create", "entry", "write"}, file : 0 .. MaxFiles,
              offset : Nat, handle : Nat, unsynced : BOOLEAN]
    /\ w.up => w.handle \in DOMAIN dir
    /\ w.pc \in {"create", "entry"} => w.file < MaxFiles
    /\ w.pc = "create" => ~w.unsynced

PlacesOK ==
    /\ placed \subseteq Location /\ named \subseteq placed
    /\ \A p \in placed : p.offset >= Frame /\ p.len = Size[p.rec]

(* A location that was right when it was returned, in a file that was not  *)
(* lost, is where the record is; and it is durable, unless it is in the    *)
(* writer's file, unsynced, and named by no one.                           *)
Sure(p) == p.sound /\ p.file \notin lost

Holds(p) ==
    /\ p.file \in DOMAIN dir
    /\ End(p) <= Len(dir[p.file])
    /\ \A k \in 1 .. Units(p.rec) : dir[p.file][Start(p) + k] = Bytes(p.rec)[k]

Kept(p) == End(p) <= durable[p.file]
Pending(p) == w.up /\ w.unsynced /\ p.file = w.handle /\ p \notin named

SeriesInv ==
    /\ FilesOK /\ WriterOK /\ PlacesOK
    /\ \A p \in placed : Sure(p) => Holds(p) /\ (Kept(p) \/ Pending(p))

-----------------------------------------------------------------------------
(* Numbers, and the cells of a record.                                     *)

(* A bounded set of numbers that is not empty has a greatest, which Max    *)
(* names.                                                                  *)
LEMMA GreatestFile ==
    ASSUME NEW T, T # {}, NEW b \in Nat, T \subseteq 0 .. b
    PROVE  Max(T) \in T
<1> DEFINE D == {b - n : n \in T}
<1>1. D \subseteq Nat /\ D # {}
  <2>1. \A n \in T : b - n \in Nat
    OBVIOUS
  <2> QED
    BY Zenon, <2>1
<1>2. PICK d \in D : \A e \in D : ~(<<e, d>> \in OpToRel(<, Nat))
  BY Zenon, <1>1, NatLessThanWellFounded, WFMin
<1>3. \A e \in D : ~(e < d)
  BY Zenon, <1>1, <1>2 DEF OpToRel
<1>4. PICK n \in T : d = b - n
  BY Zenon, <1>2
<1>5. \A m \in T : n >= m
  <2>1. \A m \in T : b - m \in D
    BY Zenon
  <2> HIDE DEF D
  <2>2. \A m \in T : ~(b - m < b - n)
    BY Zenon, <2>1, <1>3, <1>4
  <2> QED
    BY <2>2
<1> QED
  BY Zenon, <1>5 DEF Max

(* One cell before or after others, and nothing after them.                *)
LEMMA OneCell ==
    ASSUME NEW C, NEW s \in Seq(C), NEW c \in C
    PROVE  /\ <<c>> \o s \in Seq(C) /\ Len(<<c>> \o s) = 1 + Len(s)
           /\ (<<c>> \o s)[1] = c
           /\ \A k \in 1 .. Len(s) : (<<c>> \o s)[1 + k] = s[k]
           /\ s \o <<c>> \in Seq(C) /\ Len(s \o <<c>>) = Len(s) + 1
           /\ (s \o <<c>>)[Len(s) + 1] = c
           /\ \A k \in 1 .. Len(s) : (s \o <<c>>)[k] = s[k]
           /\ s \o <<>> \in Seq(C) /\ Len(s \o <<>>) = Len(s)
           /\ \A k \in 1 .. Len(s) : (s \o <<>>)[k] = s[k]
OBVIOUS

(* The part of a sequence after its first cells.                           *)
LEMMA PartOf ==
    ASSUME NEW C, NEW s \in Seq(C), NEW a \in Nat, NEW u \in Nat, a + u <= Len(s)
    PROVE  /\ SubSeq(s, a + 1, a + u) \in Seq(C) /\ Len(SubSeq(s, a + 1, a + u)) = u
           /\ \A k \in 1 .. u : SubSeq(s, a + 1, a + u)[k] = s[a + k]
<1> DEFINE part == SubSeq(s, a + 1, a + u)
<1>1. part \in Seq(C)
  OBVIOUS
<1>2. Len(part) = u
  OBVIOUS
<1>3. \A k \in 1 .. u : part[k] = s[a + k]
  OBVIOUS
<1> QED
  BY Zenon, <1>1, <1>2, <1>3

(* What append writes for a record: as many cells as place counts, the     *)
(* frame first, then the body, then the trailer of the undo series.        *)
LEMMA BytesFacts ==
    ASSUME NEW r \in Record
    PROVE  /\ Size[r] \in Nat \ {0} /\ Units(r) \in Nat /\ Units(r) = 1 + Size[r] + Trailer
           /\ Body(r) \in Seq(Cell) /\ Len(Body(r)) = Size[r]
           /\ Bytes(r) \in Seq(Cell) /\ Len(Bytes(r)) = Units(r)
           /\ Bytes(r)[1] = <<"frame", Size[r]>>
           /\ \A k \in 1 .. Size[r] : Bytes(r)[1 + k] = Body(r)[k]
           /\ Trailer = 1 => Bytes(r)[2 + Size[r]] = TrailerOf(r, Body(r))
<1>1. Size[r] \in Nat \ {0} /\ Units(r) \in Nat /\ Units(r) = 1 + Size[r] + Trailer
  BY SeriesAssumption DEF Units, Frame
<1>2. Body(r) \in Seq(Cell) /\ Len(Body(r)) = Size[r]
  <2>1. \A k \in 1 .. Size[r] : <<r, k>> \in Cell
    BY <1>1 DEF Cell
  <2> QED
    BY <1>1, <2>1 DEF Body
<1> DEFINE a == <<"frame", Size[r]>>  t == TrailerOf(r, Body(r))  b == Body(r)
<1>3. a \in Cell /\ t \in Cell
  BY Zenon DEF Cell
<1>4. Bytes(r) = <<a>> \o b \o (IF Trailer = 1 THEN <<t>> ELSE <<>>)
  BY Zenon DEF Bytes
<1>5. b \in Seq(Cell) /\ Len(b) = Size[r]
  BY Zenon, <1>2
<1>6. Trailer \in {0, 1}
  BY Zenon, SeriesAssumption
<1> DEFINE ab == <<a>> \o b
<1> HIDE DEF a, t, b
<1>7. /\ ab \in Seq(Cell) /\ Len(ab) = 1 + Size[r] /\ ab[1] = a
      /\ \A k \in 1 .. Size[r] : ab[1 + k] = b[k]
  <2>1. /\ ab \in Seq(Cell) /\ Len(ab) = 1 + Len(b) /\ ab[1] = a
        /\ \A k \in 1 .. Len(b) : ab[1 + k] = b[k]
    BY <1>3, <1>5, OneCell
  <2> HIDE DEF ab
  <2> QED
    BY Zenon, <1>5, <2>1
<1> HIDE DEF ab
<1>8. CASE Trailer = 1
  <2>1. Bytes(r) = ab \o <<t>>
    BY Zenon, <1>4, <1>8 DEF ab
  <2>2. /\ Bytes(r) \in Seq(Cell) /\ Len(Bytes(r)) = Len(ab) + 1
        /\ Bytes(r)[Len(ab) + 1] = t
        /\ \A k \in 1 .. Len(ab) : Bytes(r)[k] = ab[k]
    BY <1>3, <1>7, <2>1, OneCell
  <2> DEFINE bs == Bytes(r)  n == Size[r]
  <2>3. n \in Nat \ {0} /\ Units(r) = 2 + n
    BY <1>1, <1>8
  <2> HIDE DEF bs, n
  <2>4. /\ Len(ab) = 1 + n /\ Len(bs) = Len(ab) + 1 /\ bs[Len(ab) + 1] = t
        /\ \A k \in 1 .. Len(ab) : bs[k] = ab[k]
        /\ \A k \in 1 .. n : ab[1 + k] = b[k]
        /\ ab[1] = a
    BY Zenon, <1>7, <2>2 DEF bs, n
  <2>5. Len(bs) = 2 + n /\ bs[2 + n] = t /\ bs[1] = a
    BY <2>3, <2>4
  <2>6. \A k \in 1 .. n : bs[1 + k] = b[k]
    BY <2>3, <2>4
  <2> QED
    BY Zenon, <1>1, <1>2, <2>2, <2>3, <2>5, <2>6 DEF a, b, t, bs, n
<1>9. CASE Trailer = 0
  <2>1. Bytes(r) = ab \o <<>> /\ Trailer # 1
    BY <1>4, <1>9 DEF ab
  <2>2. /\ Bytes(r) \in Seq(Cell) /\ Len(Bytes(r)) = Len(ab)
        /\ \A k \in 1 .. Len(ab) : Bytes(r)[k] = ab[k]
    BY <1>3, <1>7, <2>1, OneCell
  <2> DEFINE bs == Bytes(r)  n == Size[r]
  <2>3. n \in Nat \ {0} /\ Units(r) = 1 + n
    BY <1>1, <1>9
  <2> HIDE DEF bs, n
  <2>4. /\ Len(ab) = 1 + n /\ Len(bs) = Len(ab)
        /\ \A k \in 1 .. Len(ab) : bs[k] = ab[k]
        /\ \A k \in 1 .. n : ab[1 + k] = b[k]
        /\ ab[1] = a
    BY Zenon, <1>7, <2>2 DEF bs, n
  <2>5. Len(bs) = 1 + n /\ bs[1] = a
    BY <2>3, <2>4
  <2>6. \A k \in 1 .. n : bs[1 + k] = b[k]
    BY <2>3, <2>4
  <2> QED
    BY Zenon, <1>1, <1>2, <2>1, <2>2, <2>3, <2>5, <2>6 DEF a, b, t, bs, n
<1> QED
  BY Zenon, <1>6, <1>8, <1>9

-----------------------------------------------------------------------------
(* A record where its location says it is.                                 *)

(* It reads back as it was written: the frame declares its length, the     *)
(* trailer covers the body and the block before its own.                   *)
LEMMA HeldReadsBack ==
    ASSUME FilesOK, NEW p \in Location, p.offset >= Frame, p.len = Size[p.rec], Holds(p)
    PROVE  ReadAt(p) = Body(p.rec)
<1> DEFINE r == p.rec  n == Size[p.rec]  file == dir[p.file]  at == Start(p)
           cells == SubSeq(file, at + 1, at + Units(r))
           body == SubSeq(cells, 2, 1 + n)
<1>1. r \in Record /\ p.file \in Nat /\ p.offset \in Nat /\ at = p.offset - 1 /\ at \in Nat
  BY DEF Location, Start, Frame
<1>2. n \in Nat \ {0} /\ Units(r) \in Nat /\ Units(r) = 1 + n + Trailer /\ Trailer \in {0, 1}
  BY Zenon, <1>1, BytesFacts, SeriesAssumption
<1>3. p.file \in DOMAIN dir /\ file \in Seq(Cell) /\ at + Units(r) <= Len(file)
  BY Zenon DEF Holds, End, FilesOK
<1>4. \A k \in 1 .. Units(r) : file[at + k] = Bytes(r)[k]
  BY Zenon DEF Holds
<1>5. ReadAt(p) = Split(cells, p)
  <2>1. Frame + p.len + Trailer = Units(r)
    BY Zenon DEF Units
  <2>2. ~(at + Units(r) > Len(file))
    <3> HIDE DEF at, file, r
    <3> QED
      BY SMTT(20), <1>1, <1>2, <1>3
  <2> QED
    BY Zenon, <1>3, <2>1, <2>2 DEF ReadAt, Start
<1> DEFINE u == Units(r)  bytes == Bytes(r)
<1>6. u \in Nat /\ u = 1 + n + Trailer
  BY Zenon, <1>2
<1>7. /\ bytes[1] = <<"frame", n>> /\ \A k \in 1 .. n : bytes[1 + k] = Body(r)[k]
      /\ Trailer = 1 => bytes[2 + n] = TrailerOf(r, Body(r))
      /\ Body(r) \in Seq(Cell) /\ Len(Body(r)) = n
  BY Zenon, <1>1, BytesFacts
<1>8. cells \in Seq(Cell) /\ Len(cells) = u /\ \A k \in 1 .. u : cells[k] = bytes[k]
  <2> HIDE DEF u, bytes, file, at, n, r
  <2>1. \A k \in 1 .. u : file[at + k] = bytes[k]
    BY Zenon, <1>4 DEF u, bytes
  <2>2. file \in Seq(Cell) /\ at \in Nat /\ at + u <= Len(file)
    BY Zenon, <1>1, <1>3 DEF u
  <2>3. cells = SubSeq(file, at + 1, at + u)
    BY Zenon DEF u
  <2> DEFINE part == SubSeq(file, at + 1, at + u)
  <2>4. /\ part \in Seq(Cell) /\ Len(part) = u
        /\ \A k \in 1 .. u : part[k] = file[at + k]
    BY ZenonT(30), <1>6, <2>2, PartOf
  <2> HIDE DEF cells, part
  <2>5. cells = part
    BY Zenon, <2>3 DEF part
  <2> QED
    BY Zenon, <2>1, <2>4, <2>5
<1>9. body = Body(r)
  <2> DEFINE b == Body(r)
  <2>1. b \in Seq(Cell) /\ Len(b) = n /\ \A k \in 1 .. n : bytes[1 + k] = b[k]
    BY Zenon, <1>7
  <2> HIDE DEF cells, bytes, u, n, b
  <2>2. body \in Seq(Cell) /\ Len(body) = n /\ \A k \in 1 .. n : body[k] = cells[1 + k]
    BY <1>2, <1>6, <1>8
  <2>3. \A k \in 1 .. n : cells[1 + k] = bytes[1 + k]
    BY <1>2, <1>6, <1>8
  <2> HIDE DEF body
  <2>4. \A k \in 1 .. n : body[k] = b[k]
    BY Zenon, <2>1, <2>2, <2>3
  <2>5. body = b
    BY <2>1, <2>2, <2>4
  <2> QED
    BY Zenon, <2>5 DEF b
<1>10. cells[1] = <<"frame", p.len>>
  <2>1. 1 \in 1 .. u
    BY <1>2, <1>6
  <2> QED
    BY Zenon, <2>1, <1>7, <1>8
<1>11. Trailer = 1 => cells[2 + p.len] = TrailerOf(p.rec, body)
  <2> SUFFICES ASSUME Trailer = 1 PROVE cells[2 + n] = TrailerOf(r, body)
    BY Zenon
  <2>1. 2 + n \in 1 .. u
    BY <1>2, <1>6
  <2> QED
    BY Zenon, <2>1, <1>7, <1>8, <1>9
<1>12. SubSeq(cells, 2, 1 + p.len) = body
  BY Zenon
<1> HIDE DEF cells, body
<1> QED
  BY Zenon, <1>5, <1>9, <1>10, <1>11, <1>12 DEF Split

(* It stays where it is when its file keeps the cells up to its end.       *)
LEMMA HeldStays ==
    ASSUME FilesOK, NEW p \in Location, p.offset >= Frame, Holds(p),
           p.file \in DOMAIN dir', End(p) <= Len(dir'[p.file]),
           \A k \in 1 .. End(p) : dir'[p.file][k] = dir[p.file][k]
    PROVE  Holds(p)'
<1>1. Start(p) \in Nat /\ Units(p.rec) \in Nat /\ End(p) = Start(p) + Units(p.rec)
  BY BytesFacts DEF Location, Start, End, Frame
<1>2. ASSUME NEW k \in 1 .. Units(p.rec)
      PROVE  dir'[p.file][Start(p) + k] = Bytes(p.rec)[k]
  <2>1. Start(p) + k \in 1 .. End(p)
    BY <1>1, <1>2
  <2> QED
    BY Zenon, <2>1, <1>2 DEF Holds
<1> QED
  BY Zenon, <1>2 DEF Holds, End, Start, Units, Bytes

-----------------------------------------------------------------------------
(* What the steps do to the files.                                         *)

(* The types of the writer's own state.                                    *)
LEMMA WriterFacts ==
    ASSUME SeriesInv
    PROVE  /\ w.up \in BOOLEAN /\ w.unsynced \in BOOLEAN
           /\ w.file \in 0 .. MaxFiles /\ w.offset \in Nat /\ w.handle \in Nat
           /\ w.pc \in {"idle", "create", "entry", "write"}
           /\ MaxFiles \in Nat
BY Zenon, SeriesAssumption DEF SeriesInv, WriterOK

(* The types of a location, and the units it takes.                        *)
LEMMA PlaceFacts ==
    ASSUME SeriesInv, NEW p \in placed
    PROVE  /\ p \in Location /\ p.offset >= Frame /\ p.len = Size[p.rec]
           /\ p.rec \in Record /\ p.file \in Nat /\ p.offset \in Nat
           /\ Start(p) \in Nat /\ Units(p.rec) \in Nat
           /\ End(p) = Start(p) + Units(p.rec) /\ End(p) \in Nat
<1>1. p \in Location /\ p.offset >= Frame /\ p.len = Size[p.rec]
  BY Zenon DEF SeriesInv, PlacesOK
<1>2. p.rec \in Record /\ p.file \in Nat /\ p.offset \in Nat
  BY Zenon, <1>1 DEF Location
<1>3. Units(p.rec) \in Nat
  BY Zenon, <1>2, BytesFacts
<1>4. Start(p) \in Nat
  BY <1>1, <1>2 DEF Start, Frame
<1>5. End(p) = Start(p) + Units(p.rec)
  BY Zenon DEF End
<1>6. End(p) \in Nat
  BY <1>3, <1>4, <1>5
<1> QED
  BY Zenon, <1>1, <1>2, <1>3, <1>4, <1>5, <1>6

(* A record in a file that stays as it is stays where it is.               *)
LEMMA SameFile ==
    ASSUME SeriesInv, NEW p \in placed, Holds(p),
           p.file \in DOMAIN dir', dir'[p.file] = dir[p.file]
    PROVE  Holds(p)'
<1>1. End(p) <= Len(dir'[p.file])
  BY Zenon DEF Holds
<1> QED
  BY Zenon, <1>1, PlaceFacts, HeldStays DEF SeriesInv

(* What is written at the end of the writer's file moves nothing.          *)
LEMMA FileGrows ==
    ASSUME SeriesInv, w.up, NEW c \in Seq(Cell),
           dir' = [dir EXCEPT ![w.handle] = @ \o c], durable' = durable
    PROVE  /\ FilesOK' /\ DOMAIN dir' = DOMAIN dir
           /\ w.handle \in DOMAIN dir /\ dir'[w.handle] = dir[w.handle] \o c
           /\ \A p \in placed : Holds(p) => Holds(p)'
<1> DEFINE h == w.handle
<1>1. h \in DOMAIN dir /\ dir[h] \in Seq(Cell) /\ durable[h] \in 0 .. Len(dir[h])
  BY Zenon DEF SeriesInv, WriterOK, FilesOK
<1>2. DOMAIN dir' = DOMAIN dir /\ dir'[h] = dir[h] \o c
  BY Zenon, <1>1
<1>3. \A f \in DOMAIN dir : f # h => dir'[f] = dir[f]
  BY Zenon, <1>1
<1>4. /\ dir[h] \o c \in Seq(Cell) /\ Len(dir[h] \o c) >= Len(dir[h])
      /\ \A k \in 1 .. Len(dir[h]) : (dir[h] \o c)[k] = dir[h][k]
  BY <1>1
<1>5. durable[h] \in 0 .. Len(dir'[h])
  BY <1>1, <1>2, <1>4
<1>6. FilesOK'
  <2>1. ASSUME NEW f \in DOMAIN dir'
        PROVE  dir'[f] \in Seq(Cell) /\ durable'[f] \in 0 .. Len(dir'[f])
    <3>1. CASE f = h
      BY Zenon, <3>1, <1>2, <1>4, <1>5
    <3>2. CASE f # h
      BY Zenon, <3>2, <2>1, <1>2, <1>3 DEF SeriesInv, FilesOK
    <3> QED
      BY Zenon, <3>1, <3>2
  <2> QED
    BY Zenon, <2>1, <1>2 DEF SeriesInv, FilesOK
<1>7. ASSUME NEW p \in placed, Holds(p)
      PROVE  Holds(p)'
  <2>1. p.file \in DOMAIN dir /\ End(p) <= Len(dir[p.file])
    BY Zenon, <1>7 DEF Holds
  <2>2. CASE p.file # h
    BY Zenon, <2>1, <2>2, <1>2, <1>3, <1>7, SameFile
  <2>3. CASE p.file = h
    <3>1. End(p) <= Len(dir'[p.file])
      BY <1>1, <1>2, <1>4, <2>1, <2>3, PlaceFacts
    <3>2. \A k \in 1 .. End(p) : dir'[p.file][k] = dir[p.file][k]
      <4>1. \A k \in 1 .. End(p) : k \in 1 .. Len(dir[h])
        BY <1>1, <2>1, <2>3, PlaceFacts
      <4> QED
        BY SMTT(20), <4>1, <1>2, <1>4, <2>3
    <3> QED
      BY Zenon, <3>1, <3>2, <2>1, <1>2, <1>7, PlaceFacts, HeldStays DEF SeriesInv
  <2> QED
    BY Zenon, <2>2, <2>3
<1> QED
  BY Zenon, <1>1, <1>2, <1>6, <1>7

(* A file that is made is empty, and the others stay as they are.          *)
LEMMA FileMade ==
    ASSUME SeriesInv, NEW f \in 0 .. MaxFiles, f \notin DOMAIN dir,
           dir' = Adds(dir, f, <<>>), durable' = Adds(durable, f, 0)
    PROVE  /\ FilesOK' /\ DOMAIN dir' = DOMAIN dir \cup {f} /\ dir'[f] = <<>>
           /\ \A g \in DOMAIN dir : dir'[g] = dir[g] /\ durable'[g] = durable[g]
<1>1. DOMAIN durable = DOMAIN dir /\ DOMAIN dir \subseteq 0 .. MaxFiles
  BY Zenon DEF SeriesInv, FilesOK
<1>2. /\ DOMAIN dir' = DOMAIN dir \cup {f} /\ DOMAIN durable' = DOMAIN dir \cup {f}
      /\ dir'[f] = <<>> /\ durable'[f] = 0
      /\ \A g \in DOMAIN dir : dir'[g] = dir[g] /\ durable'[g] = durable[g]
  BY Zenon, <1>1 DEF Adds
<1>3. <<>> \in Seq(Cell) /\ 0 \in 0 .. Len(<<>>)
  OBVIOUS
<1>4. \A g \in DOMAIN dir' : dir'[g] \in Seq(Cell) /\ durable'[g] \in 0 .. Len(dir'[g])
  <2> SUFFICES ASSUME NEW g \in DOMAIN dir'
               PROVE  dir'[g] \in Seq(Cell) /\ durable'[g] \in 0 .. Len(dir'[g])
    BY Zenon
  <2>1. CASE g = f
    BY Zenon, <2>1, <1>2, <1>3
  <2>2. CASE g \in DOMAIN dir
    BY Zenon, <2>2, <1>2 DEF SeriesInv, FilesOK
  <2> QED
    BY Zenon, <2>1, <2>2, <1>2
<1>5. DOMAIN dir' \subseteq 0 .. MaxFiles
  BY Zenon, <1>1, <1>2
<1> QED
  BY Zenon, <1>2, <1>4, <1>5 DEF FilesOK

(* A sync leaves everything that was placed durable: what it does not sync *)
(* was synced before.                                                      *)
LEMMA SyncKeeps ==
    ASSUME SeriesInv, w.up, dir' = dir, durable' = Synced
    PROVE  FilesOK' /\ \A p \in placed : Sure(p) => Kept(p)'
<1> DEFINE h == w.handle
<1>1. h \in DOMAIN dir /\ DOMAIN durable = DOMAIN dir /\ dir[h] \in Seq(Cell)
  BY Zenon DEF SeriesInv, WriterOK, FilesOK
<1>2. \A p \in placed : Sure(p) => Holds(p) /\ (Kept(p) \/ Pending(p))
  BY Zenon DEF SeriesInv
<1>3. CASE ~w.unsynced
  <2>1. durable' = durable
    BY Zenon, <1>3 DEF Synced
  <2>2. \A p \in placed : Sure(p) => Kept(p)
    BY Zenon, <1>2, <1>3 DEF Pending
  <2> QED
    BY Zenon, <2>1, <2>2 DEF Kept, End, Start, Units, SeriesInv, FilesOK
<1>4. CASE w.unsynced
  <2>1. durable' = [durable EXCEPT ![h] = Len(dir[h])]
    BY Zenon, <1>4 DEF Synced
  <2>2. /\ DOMAIN durable' = DOMAIN dir /\ durable'[h] = Len(dir[h])
        /\ \A f \in DOMAIN dir : f # h => durable'[f] = durable[f]
    BY Zenon, <1>1, <2>1
  <2>3. Len(dir[h]) \in 0 .. Len(dir[h])
    BY <1>1
  <2>4. FilesOK'
    BY Zenon, <2>2, <2>3 DEF SeriesInv, FilesOK
  <2>5. ASSUME NEW p \in placed, Sure(p)
        PROVE  End(p) <= durable'[p.file]
    <3>1. p.file \in DOMAIN dir /\ End(p) <= Len(dir[p.file])
      BY Zenon, <1>2, <2>5 DEF Holds
    <3>2. CASE p.file = h
      BY Zenon, <3>1, <3>2, <2>2
    <3>3. CASE p.file # h
      BY Zenon, <3>1, <3>3, <2>2, <2>5, <1>2 DEF Kept, Pending
    <3> QED
      BY Zenon, <3>2, <3>3
  <2> QED
    BY Zenon, <2>4, <2>5 DEF Kept, End, Start, Units
<1> QED
  BY Zenon, <1>3, <1>4

-----------------------------------------------------------------------------
(* The steps.                                                              *)

(* The sure part of the invariant.                                         *)
AllSure == \A p \in placed : Sure(p) => Holds(p) /\ (Kept(p) \/ Pending(p))

(* A step of the writer that leaves the files alone.                       *)
LEMMA FilesLeftAlone ==
    ASSUME SeriesInv, UNCHANGED <<dir, durable, placed, named, lost>>, WriterOK',
           w.up /\ w.unsynced => w'.up /\ w'.unsynced /\ w'.handle = w.handle
    PROVE  SeriesInv'
<1>1. FilesOK'
  BY Zenon DEF SeriesInv, FilesOK
<1>2. PlacesOK'
  BY Zenon DEF SeriesInv, PlacesOK
<1>3. AllSure'
  <2> SUFFICES ASSUME NEW p \in placed', Sure(p)'
               PROVE  Holds(p)' /\ (Kept(p)' \/ Pending(p)')
    BY Zenon DEF AllSure
  <2>1. p \in placed /\ Sure(p)
    BY Zenon DEF Sure
  <2>2. Holds(p) /\ (Kept(p) \/ Pending(p))
    BY Zenon, <2>1 DEF SeriesInv
  <2>3. Holds(p)' /\ (Kept(p) => Kept(p)')
    BY Zenon, <2>2 DEF Holds, Kept, End, Start, Units, Bytes, Body
  <2>4. Pending(p) => Pending(p)'
    BY Zenon DEF Pending
  <2> QED
    BY Zenon, <2>2, <2>3, <2>4
<1> QED
  BY Zenon, <1>1, <1>2, <1>3 DEF SeriesInv, AllSure

(* A start: nothing is pending, and only an empty file is made.            *)
LEMMA OpenInv ==
    ASSUME SeriesInv, Open
    PROVE  SeriesInv'
<1> DEFINE f == Highest
<1>1. ~w.up /\ UNCHANGED <<placed, named, lost>>
  BY Zenon DEF Open
<1>2. \A p \in placed : Sure(p) => Holds(p) /\ Kept(p)
  BY Zenon, <1>1 DEF SeriesInv, Pending
<1>3. MaxFiles \in Nat /\ DOMAIN dir \subseteq 0 .. MaxFiles
  BY Zenon, WriterFacts DEF SeriesInv, FilesOK
<1>4. f \in 0 .. MaxFiles /\ (f \in DOMAIN dir \/ DOMAIN dir = {})
  <2>1. CASE DOMAIN dir = {}
    <3>1. f = 0
      BY Zenon, <2>1 DEF Highest
    <3> QED
      BY <2>1, <3>1, <1>3
  <2>2. CASE DOMAIN dir # {}
    <3>1. f = Max(DOMAIN dir)
      BY Zenon, <2>2 DEF Highest
    <3>2. f \in DOMAIN dir
      BY Zenon, <3>1, <2>2, <1>3, GreatestFile
    <3> QED
      BY Zenon, <3>2, <1>3
  <2> QED
    BY Zenon, <2>1, <2>2
<1> HIDE DEF f
<1>5. /\ dir' = IF f \in DOMAIN dir THEN dir ELSE Adds(dir, f, <<>>)
      /\ durable' = IF f \in DOMAIN dir THEN durable ELSE Adds(durable, f, 0)
      /\ w' = [Down EXCEPT !.up = TRUE, !.file = f, !.handle = f, !.offset = Len(dir'[f])]
  BY Zenon DEF Open, f
<1>6. /\ FilesOK' /\ f \in DOMAIN dir'
      /\ \A g \in DOMAIN dir : g \in DOMAIN dir' /\ dir'[g] = dir[g] /\ durable'[g] = durable[g]
  <2>1. CASE f \in DOMAIN dir
    <3>1. dir' = dir /\ durable' = durable
      BY Zenon, <2>1, <1>5
    <3> QED
      BY Zenon, <2>1, <3>1 DEF SeriesInv, FilesOK
  <2>2. CASE f \notin DOMAIN dir
    <3>1. dir' = Adds(dir, f, <<>>) /\ durable' = Adds(durable, f, 0)
      BY Zenon, <2>2, <1>5
    <3>2. /\ FilesOK' /\ DOMAIN dir' = DOMAIN dir \cup {f}
          /\ \A g \in DOMAIN dir : dir'[g] = dir[g] /\ durable'[g] = durable[g]
      BY Zenon, <2>2, <3>1, <1>4, FileMade
    <3> QED
      BY Zenon, <3>2
  <2> QED
    BY Zenon, <2>1, <2>2
<1>7. WriterOK'
  <2>1. Len(dir'[f]) \in Nat /\ f \in Nat
    <3>1. dir'[f] \in Seq(Cell)
      BY Zenon, <1>6 DEF FilesOK
    <3> QED
      BY <3>1, <1>3, <1>4
  <2> DEFINE n == Len(dir'[f])
  <2>2. /\ w'.up = TRUE /\ w'.pc = "idle" /\ w'.file = f /\ w'.offset = n /\ w'.handle = f
        /\ w'.unsynced = FALSE
        /\ w' = [up |-> TRUE, pc |-> "idle", file |-> f, offset |-> n, handle |-> f,
                 unsynced |-> FALSE]
    BY Zenon, <1>5 DEF Down
  <2> HIDE DEF n
  <2>3. n \in Nat
    BY Zenon, <2>1 DEF n
  <2>4. w' \in [up : BOOLEAN, pc : {"idle", "create", "entry", "write"}, file : 0 .. MaxFiles,
                offset : Nat, handle : Nat, unsynced : BOOLEAN]
    BY Zenon, <1>4, <2>1, <2>2, <2>3
  <2>5. w'.pc \notin {"create", "entry"}
    BY Zenon, <2>2
  <2> QED
    BY Zenon, <2>2, <2>4, <2>5, <1>6 DEF WriterOK
<1>8. PlacesOK'
  BY Zenon, <1>1 DEF SeriesInv, PlacesOK
<1>9. AllSure'
  <2> SUFFICES ASSUME NEW p \in placed', Sure(p)'
               PROVE  Holds(p)' /\ Kept(p)'
    BY Zenon DEF AllSure
  <2>1. p \in placed /\ Sure(p) /\ Holds(p) /\ Kept(p)
    BY Zenon, <1>1, <1>2 DEF Sure
  <2>2. p.file \in DOMAIN dir' /\ dir'[p.file] = dir[p.file] /\ durable'[p.file] = durable[p.file]
    BY Zenon, <2>1, <1>6 DEF Holds
  <2>3. Holds(p)'
    BY Zenon, <2>1, <2>2, SameFile
  <2>4. Kept(p)'
    BY Zenon, <2>1, <2>2 DEF Kept, End, Start, Units
  <2> QED
    BY Zenon, <2>3, <2>4
<1> QED
  BY Zenon, <1>6, <1>7, <1>8, <1>9 DEF SeriesInv, AllSure

(* write_all succeeds: the new location is right if the cursor was, and    *)
(* no one names it yet.                                                    *)
LEMMA WriteInv ==
    ASSUME SeriesInv, NEW r \in Record, w.up, New(r), Write(r)
    PROVE  SeriesInv'
<1> DEFINE h == w.handle
<1>0. PICK at : at = [rec |-> r, file |-> w.file, offset |-> w.offset + Frame, len |-> Size[r],
                      sound |-> w.file = h /\ w.offset = Len(dir[h])]
  BY Zenon
<1>1. /\ dir' = [dir EXCEPT ![h] = @ \o Bytes(r)] /\ durable' = durable
      /\ w' = [w EXCEPT !.pc = "idle", !.unsynced = TRUE, !.offset = @ + Units(r)]
      /\ placed' = placed \cup {at} /\ UNCHANGED <<named, lost>>
  BY Zenon, <1>0 DEF Write
<1>2. Bytes(r) \in Seq(Cell) /\ Len(Bytes(r)) = Units(r) /\ Units(r) \in Nat /\ Size[r] \in Nat
  BY Zenon, BytesFacts
<1>3. /\ FilesOK' /\ DOMAIN dir' = DOMAIN dir /\ h \in DOMAIN dir
      /\ dir'[h] = dir[h] \o Bytes(r)
      /\ \A p \in placed : Holds(p) => Holds(p)'
  BY Zenon, <1>1, <1>2, FileGrows
<1>4. /\ w'.up /\ w'.unsynced /\ w'.pc = "idle" /\ w'.handle = h
      /\ w' \in [up : BOOLEAN, pc : {"idle", "create", "entry", "write"}, file : 0 .. MaxFiles,
                 offset : Nat, handle : Nat, unsynced : BOOLEAN]
  <2> DEFINE o == w.offset + Units(r)
  <2>1. o \in Nat
    BY <1>2, WriterFacts
  <2>2. w' = [w EXCEPT !.pc = "idle", !.unsynced = TRUE, !.offset = o]
    BY Zenon, <1>1
  <2>3. w \in [up : BOOLEAN, pc : {"idle", "create", "entry", "write"}, file : 0 .. MaxFiles,
               offset : Nat, handle : Nat, unsynced : BOOLEAN]
    BY Zenon DEF SeriesInv, WriterOK
  <2> HIDE DEF o
  <2> QED
    BY Zenon, <2>1, <2>2, <2>3
<1>5. WriterOK'
  BY Zenon, <1>3, <1>4 DEF WriterOK
<1>6. /\ at \in Location /\ at.offset >= Frame /\ at.len = Size[at.rec] /\ at.rec = r
      /\ at.file = w.file /\ at.offset = w.offset + 1 /\ Start(at) = w.offset
      /\ at.sound = (w.file = h /\ w.offset = Len(dir[h]))
  BY SMTT(20), <1>0, <1>2, WriterFacts DEF Location, Frame, Start
<1>7. PlacesOK'
  BY Zenon, <1>1, <1>6 DEF SeriesInv, PlacesOK
<1>8. at \notin named
  BY Zenon, <1>6 DEF New, SeriesInv, PlacesOK
<1>9. ASSUME Sure(at)
      PROVE  Holds(at)'
  <2>1. w.file = h /\ w.offset = Len(dir[h])
    BY Zenon, <1>6, <1>9 DEF Sure
  <2>2. dir[h] \in Seq(Cell)
    BY Zenon, <1>3 DEF SeriesInv, FilesOK
  <2> DEFINE s == dir[h]  c == Bytes(r)  n == Units(r)
  <2>3. s \in Seq(Cell) /\ c \in Seq(Cell) /\ Len(c) = n /\ n \in Nat
    BY Zenon, <2>2, <1>2
  <2> HIDE DEF s, c, n
  <2>4. Len(s \o c) = Len(s) + n /\ \A k \in 1 .. n : (s \o c)[Len(s) + k] = c[k]
    BY <2>3
  <2>5. dir'[at.file] = s \o c /\ Start(at) = Len(s) /\ End(at) = Len(s) + n
    BY Zenon, <1>3, <1>6, <2>1 DEF s, c, n, End
  <2>6. End(at) <= Len(dir'[at.file])
    BY <2>3, <2>4, <2>5
  <2>7. \A k \in 1 .. n : dir'[at.file][Start(at) + k] = c[k]
    BY Zenon, <2>4, <2>5
  <2>8. at.file \in DOMAIN dir'
    BY Zenon, <1>3, <1>6, <2>1
  <2>9. \A k \in 1 .. Units(at.rec) : dir'[at.file][Start(at) + k] = Bytes(at.rec)[k]
    BY Zenon, <2>7, <1>6 DEF c, n
  <2> QED
    BY Zenon, <2>6, <2>8, <2>9 DEF Holds, End, Start, Units, Bytes, Body
<1>10. AllSure'
  <2> SUFFICES ASSUME NEW p \in placed', Sure(p)'
               PROVE  Holds(p)' /\ (Kept(p)' \/ Pending(p)')
    BY Zenon DEF AllSure
  <2>1. Sure(p)
    BY Zenon, <1>1 DEF Sure
  <2>2. CASE p = at
    <3>1. Pending(at)'
      BY Zenon, <1>1, <1>4, <1>6, <1>8, <2>1, <2>2 DEF Pending, Sure
    <3> QED
      BY Zenon, <3>1, <2>1, <2>2, <1>9
  <2>3. CASE p \in placed
    <3>1. Holds(p) /\ (Kept(p) \/ Pending(p))
      BY Zenon, <2>1, <2>3 DEF SeriesInv
    <3>2. Kept(p) => Kept(p)'
      BY Zenon, <1>1 DEF Kept, End, Start, Units
    <3>3. Pending(p) => Pending(p)'
      BY Zenon, <1>1, <1>4 DEF Pending
    <3> QED
      BY Zenon, <3>1, <3>2, <3>3, <2>3, <1>3
  <2> QED
    BY Zenon, <2>2, <2>3, <1>1
<1> QED
  BY Zenon, <1>3, <1>5, <1>7, <1>10 DEF SeriesInv, AllSure

(* write_all fails: the file is longer, and no location points into what   *)
(* was added.                                                              *)
LEMMA WriteFailsInv ==
    ASSUME SeriesInv, NEW r \in Record, w.up, WriteFails(r)
    PROVE  SeriesInv'
<1>1. PICK n \in 0 .. Units(r) - 1 :
           dir' = [dir EXCEPT ![w.handle] = @ \o SubSeq(Bytes(r), 1, n)]
  BY Zenon DEF WriteFails
<1>2. w' = [w EXCEPT !.pc = "idle"] /\ UNCHANGED <<durable, placed, named, lost>>
  BY Zenon DEF WriteFails
<1>3. SubSeq(Bytes(r), 1, n) \in Seq(Cell)
  <2>1. Bytes(r) \in Seq(Cell) /\ Len(Bytes(r)) = Units(r) /\ Units(r) \in Nat
    BY Zenon, BytesFacts
  <2>2. 0 + n <= Len(Bytes(r)) /\ n \in Nat /\ 0 \in Nat /\ 0 + 1 = 1 /\ 0 + n = n
    BY <2>1
  <2> QED
    BY <2>1, <2>2, PartOf
<1>4. FilesOK' /\ DOMAIN dir' = DOMAIN dir /\ \A p \in placed : Holds(p) => Holds(p)'
  BY Zenon, <1>1, <1>2, <1>3, FileGrows
<1>5. /\ w'.up = w.up /\ w'.unsynced = w.unsynced /\ w'.handle = w.handle /\ w'.pc = "idle"
      /\ w' \in [up : BOOLEAN, pc : {"idle", "create", "entry", "write"}, file : 0 .. MaxFiles,
                 offset : Nat, handle : Nat, unsynced : BOOLEAN]
  BY Zenon, <1>2 DEF SeriesInv, WriterOK
<1>6. WriterOK'
  <2>1. w'.pc \notin {"create", "entry"}
    BY Zenon, <1>5
  <2> QED
    BY Zenon, <2>1, <1>4, <1>5 DEF SeriesInv, WriterOK
<1>7. PlacesOK'
  BY Zenon, <1>2 DEF SeriesInv, PlacesOK
<1>8. AllSure'
  <2> SUFFICES ASSUME NEW p \in placed', Sure(p)'
               PROVE  Holds(p)' /\ (Kept(p)' \/ Pending(p)')
    BY Zenon DEF AllSure
  <2>1. p \in placed /\ Sure(p)
    BY Zenon, <1>2 DEF Sure
  <2>2. Holds(p) /\ (Kept(p) \/ Pending(p))
    BY Zenon, <2>1 DEF SeriesInv
  <2>3. Kept(p) => Kept(p)'
    BY Zenon, <1>2 DEF Kept, End, Start, Units
  <2>4. Pending(p) => Pending(p)'
    BY Zenon, <1>2, <1>5 DEF Pending
  <2> QED
    BY Zenon, <2>1, <2>2, <2>3, <2>4, <1>4
<1> QED
  BY Zenon, <1>4, <1>6, <1>7, <1>8 DEF SeriesInv, AllSure

(* A sync, by itself or before a roll: nothing is pending after it.        *)
LEMMA SyncStep ==
    ASSUME SeriesInv, w.up, dir' = dir, durable' = Synced, UNCHANGED <<placed, lost>>,
           named' \subseteq placed, WriterOK'
    PROVE  SeriesInv'
<1>1. FilesOK' /\ \A p \in placed : Sure(p) => Kept(p)'
  BY Zenon, SyncKeeps
<1>2. PlacesOK'
  BY Zenon DEF SeriesInv, PlacesOK
<1>3. AllSure'
  <2> SUFFICES ASSUME NEW p \in placed', Sure(p)'
               PROVE  Holds(p)' /\ Kept(p)'
    BY Zenon DEF AllSure
  <2>1. p \in placed /\ Sure(p)
    BY Zenon DEF Sure
  <2>2. Holds(p)
    BY Zenon, <2>1 DEF SeriesInv
  <2>3. Holds(p)'
    BY Zenon, <2>1, <2>2, SameFile DEF Holds
  <2> QED
    BY Zenon, <2>1, <2>3, <1>1
<1> QED
  BY Zenon, <1>1, <1>2, <1>3 DEF SeriesInv, AllSure

(* A sync keeps the invariant.                                             *)
LEMMA SyncInv ==
    ASSUME SeriesInv, Sync
    PROVE  SeriesInv'
<1>1. /\ w.up /\ dir' = dir /\ durable' = Synced /\ UNCHANGED <<placed, lost>>
      /\ named' = placed /\ w.pc = "idle" /\ w' = [w EXCEPT !.unsynced = FALSE]
  BY Zenon DEF Sync, Idle
<1>2. WriterOK'
  BY Zenon, <1>1 DEF SeriesInv, WriterOK
<1> QED
  BY Zenon, <1>1, <1>2, SyncStep

(* The start of a new file keeps the invariant.                            *)
LEMMA RollInv ==
    ASSUME SeriesInv, NEW r \in Record, Roll(r)
    PROVE  SeriesInv'
<1>1. /\ w.up /\ dir' = dir /\ durable' = Synced /\ UNCHANGED <<placed, named, lost>>
      /\ w.file + 1 < MaxFiles /\ w' = [w EXCEPT !.unsynced = FALSE, !.pc = "create"]
  BY Zenon DEF Roll, Idle
<1>2. WriterOK'
  <2>1. w.file < MaxFiles
    BY <1>1, WriterFacts
  <2> QED
    BY Zenon, <1>1, <2>1 DEF SeriesInv, WriterOK
<1>3. named' \subseteq placed
  BY Zenon, <1>1 DEF SeriesInv, PlacesOK
<1> QED
  BY Zenon, <1>1, <1>2, <1>3, SyncStep

(* The new file is where the writer goes on; what it leaves was synced.    *)
LEMMA RollCreatesInv ==
    ASSUME SeriesInv, RollCreates
    PROVE  SeriesInv'
<1> DEFINE next == w.file + 1
<1>1. w.up /\ w.pc = "create" /\ UNCHANGED <<placed, named, lost>>
  BY Zenon DEF RollCreates
<1>2. next \in 0 .. MaxFiles /\ next \in Nat /\ ~w.unsynced
  BY <1>1, WriterFacts DEF SeriesInv, WriterOK
<1>3. CASE next \in DOMAIN dir
  <2>1. w' = [w EXCEPT !.pc = "idle"] /\ UNCHANGED <<dir, durable>>
    BY Zenon, <1>3 DEF RollCreates
  <2>2. WriterOK'
    BY Zenon, <2>1 DEF SeriesInv, WriterOK
  <2> QED
    BY Zenon, <1>1, <1>2, <2>1, <2>2, FilesLeftAlone
<1>4. CASE next \notin DOMAIN dir
  <2>1. /\ dir' = Adds(dir, next, <<>>) /\ durable' = Adds(durable, next, 0)
        /\ w' = [w EXCEPT !.pc = "entry", !.handle = next]
    BY Zenon, <1>4 DEF RollCreates
  <2> HIDE DEF next
  <2>2. /\ FilesOK' /\ DOMAIN dir' = DOMAIN dir \cup {next}
        /\ \A g \in DOMAIN dir : dir'[g] = dir[g] /\ durable'[g] = durable[g]
    BY Zenon, <1>2, <1>4, <2>1, FileMade
  <2>3. /\ w'.pc = "entry" /\ w'.handle = next /\ w'.file = w.file
        /\ w' \in [up : BOOLEAN, pc : {"idle", "create", "entry", "write"}, file : 0 .. MaxFiles,
                   offset : Nat, handle : Nat, unsynced : BOOLEAN]
    BY Zenon, <1>2, <2>1 DEF SeriesInv, WriterOK
  <2>4. WriterOK'
    <3>1. w.file < MaxFiles
      BY Zenon, <1>1 DEF SeriesInv, WriterOK
    <3>2. w'.pc # "create"
      BY Zenon, <2>3
    <3> QED
      BY Zenon, <2>2, <2>3, <3>1, <3>2 DEF WriterOK
  <2>5. PlacesOK'
    BY Zenon, <1>1 DEF SeriesInv, PlacesOK
  <2>6. AllSure'
    <3> SUFFICES ASSUME NEW p \in placed', Sure(p)'
                 PROVE  Holds(p)' /\ Kept(p)'
      BY Zenon DEF AllSure
    <3>1. p \in placed /\ Sure(p)
      BY Zenon, <1>1 DEF Sure
    <3>2. Holds(p) /\ Kept(p)
      BY Zenon, <3>1, <1>2 DEF SeriesInv, Pending
    <3>3. p.file \in DOMAIN dir' /\ dir'[p.file] = dir[p.file] /\ durable'[p.file] = durable[p.file]
      BY Zenon, <3>2, <2>2 DEF Holds
    <3>4. Holds(p)'
      BY Zenon, <3>1, <3>2, <3>3, SameFile
    <3>5. Kept(p)'
      BY Zenon, <3>2, <3>3 DEF Kept, End, Start, Units
    <3> QED
      BY Zenon, <3>4, <3>5
  <2> QED
    BY Zenon, <2>2, <2>4, <2>5, <2>6 DEF SeriesInv, AllSure
<1> QED
  BY Zenon, <1>3, <1>4

(* So do the sync of its directory entry and a failure on the way.         *)
LEMMA RollEndsInv ==
    ASSUME SeriesInv, RollSyncsEntry \/ RollFails
    PROVE  SeriesInv'
<1>1. /\ w.pc = "entry" /\ UNCHANGED <<dir, durable, placed, named, lost>>
      /\ \/ w' = [w EXCEPT !.pc = "write", !.file = @ + 1, !.offset = 0]
         \/ w' = [w EXCEPT !.pc = "idle"]
  BY Zenon DEF RollSyncsEntry, RollFails
<1>2. w.file < MaxFiles /\ w.file + 1 \in 0 .. MaxFiles
  BY <1>1, WriterFacts DEF SeriesInv, WriterOK
<1>3. WriterOK' /\ w'.up = w.up /\ w'.unsynced = w.unsynced /\ w'.handle = w.handle
  <2>1. CASE w' = [w EXCEPT !.pc = "write", !.file = @ + 1, !.offset = 0]
    BY Zenon, <1>1, <1>2, <2>1 DEF SeriesInv, WriterOK
  <2>2. CASE w' = [w EXCEPT !.pc = "idle"]
    BY Zenon, <1>1, <2>2 DEF SeriesInv, WriterOK
  <2> QED
    BY Zenon, <1>1, <2>1, <2>2
<1> QED
  BY Zenon, <1>1, <1>3, FilesLeftAlone

(* A process that is down has no writer.                                   *)
LEMMA DownOK ==
    ASSUME w' = Down
    PROVE  WriterOK'
BY SeriesAssumption DEF Down, WriterOK

(* The process dies: what the index names is durable.                      *)
LEMMA DiesInv ==
    ASSUME SeriesInv, Dies
    PROVE  SeriesInv'
<1>1. w' = Down /\ placed' = named /\ UNCHANGED <<dir, durable, named, lost>>
  BY Zenon DEF Dies
<1>2. FilesOK' /\ PlacesOK'
  BY Zenon, <1>1 DEF SeriesInv, FilesOK, PlacesOK
<1>3. AllSure'
  <2> SUFFICES ASSUME NEW p \in placed', Sure(p)'
               PROVE  Holds(p)' /\ Kept(p)'
    BY Zenon DEF AllSure
  <2>1. p \in placed /\ p \in named /\ Sure(p)
    BY Zenon, <1>1 DEF Sure, SeriesInv, PlacesOK
  <2>2. Holds(p) /\ Kept(p)
    BY Zenon, <2>1 DEF SeriesInv, Pending
  <2>3. Holds(p)'
    BY Zenon, <1>1, <2>1, <2>2, SameFile DEF Holds
  <2>4. Kept(p)'
    BY Zenon, <1>1, <2>2 DEF Kept, End, Start, Units
  <2> QED
    BY Zenon, <2>3, <2>4
<1> QED
  BY Zenon, <1>1, <1>2, <1>3, DownOK DEF SeriesInv, AllSure

(* The power fails: a file that is not lost keeps its durable cells, and   *)
(* the index names nothing after them.                                     *)
LEMMA PowerFailsInv ==
    ASSUME SeriesInv, PowerFails
    PROVE  SeriesInv'
<1>1. PICK kept \in SUBSET DOMAIN dir :
         /\ \E n \in [kept -> 0 .. Max({Len(dir[f]) : f \in DOMAIN dir} \cup {0})] :
              /\ \A f \in kept : n[f] \in durable[f] .. Len(dir[f])
              /\ dir' = [f \in kept |-> SubSeq(dir[f], 1, n[f])]
              /\ durable' = n
         /\ lost' = lost \cup (DOMAIN dir \ kept)
  BY Zenon DEF PowerFails
<1>2. w' = Down /\ placed' = named /\ named' = named
  BY Zenon DEF PowerFails
<1> DEFINE top == 0 .. Max({Len(dir[f]) : f \in DOMAIN dir} \cup {0})
<1> HIDE DEF top
<1>3. PICK n \in [kept -> top] :
              /\ \A f \in kept : n[f] \in durable[f] .. Len(dir[f])
              /\ dir' = [f \in kept |-> SubSeq(dir[f], 1, n[f])]
              /\ durable' = n
  BY Zenon, <1>1 DEF top
<1>4. DOMAIN dir' = kept /\ DOMAIN durable' = kept
  BY Zenon, <1>3
<1>5. ASSUME NEW f \in kept
      PROVE  /\ dir'[f] \in Seq(Cell) /\ Len(dir'[f]) = n[f] /\ durable'[f] = n[f]
             /\ durable[f] <= n[f] /\ n[f] \in Nat /\ durable[f] \in Nat /\ n[f] <= Len(dir[f])
             /\ \A k \in 1 .. n[f] : dir'[f][k] = dir[f][k]
  <2> DEFINE s == dir[f]  m == n[f]  d == durable[f]
  <2>1. s \in Seq(Cell) /\ d \in 0 .. Len(s) /\ m \in d .. Len(s)
    BY Zenon, <1>3, <1>5 DEF SeriesInv, FilesOK
  <2>2. dir'[f] = SubSeq(s, 1, m) /\ durable'[f] = m
    BY Zenon, <1>3, <1>5
  <2> HIDE DEF s, m, d
  <2>3. m \in Nat /\ d \in Nat /\ d <= m /\ m <= Len(s) /\ 0 + m <= Len(s)
    BY <2>1
  <2>4. /\ SubSeq(s, 1, m) \in Seq(Cell) /\ Len(SubSeq(s, 1, m)) = m
        /\ \A k \in 1 .. m : SubSeq(s, 1, m)[k] = s[k]
    BY <2>1, <2>3
  <2> QED
    BY Zenon, <2>2, <2>3, <2>4 DEF s, m, d
<1>6. FilesOK'
  <2>1. \A f \in kept : durable'[f] \in 0 .. Len(dir'[f])
    BY <1>5
  <2>2. \A f \in kept : dir'[f] \in Seq(Cell)
    BY Zenon, <1>5
  <2>3. kept \subseteq 0 .. MaxFiles
    BY Zenon DEF SeriesInv, FilesOK
  <2> QED
    BY Zenon, <1>4, <2>1, <2>2, <2>3 DEF FilesOK
<1>7. PlacesOK'
  BY Zenon, <1>2 DEF SeriesInv, PlacesOK
<1>8. AllSure'
  <2> SUFFICES ASSUME NEW p \in placed', Sure(p)'
               PROVE  Holds(p)' /\ Kept(p)'
    BY Zenon DEF AllSure
  <2>1. p \in placed /\ p \in named /\ Sure(p) /\ p.file \notin DOMAIN dir \ kept
    BY Zenon, <1>1, <1>2 DEF Sure, SeriesInv, PlacesOK
  <2>2. Holds(p) /\ Kept(p)
    BY Zenon, <2>1 DEF SeriesInv, Pending
  <2>3. p.file \in kept
    BY Zenon, <2>1, <2>2 DEF Holds
  <2>4. End(p) <= n[p.file]
    <3>1. End(p) <= durable[p.file] /\ End(p) \in Nat
      BY Zenon, <2>1, <2>2, PlaceFacts DEF Kept
    <3>2. durable[p.file] <= n[p.file] /\ n[p.file] \in Nat /\ durable[p.file] \in Nat
      BY Zenon, <2>3, <1>5
    <3> QED
      BY <3>1, <3>2
  <2>5. \A k \in 1 .. End(p) : dir'[p.file][k] = dir[p.file][k]
    <3>1. n[p.file] \in Nat /\ \A k \in 1 .. n[p.file] : dir'[p.file][k] = dir[p.file][k]
      BY Zenon, <2>3, <1>5
    <3>2. \A k \in 1 .. End(p) : k \in 1 .. n[p.file]
      BY <2>1, <2>4, <3>1, PlaceFacts
    <3> QED
      BY Zenon, <3>1, <3>2
  <2>6. End(p) <= Len(dir'[p.file]) /\ End(p) <= durable'[p.file]
    BY Zenon, <2>3, <2>4, <1>5
  <2>7. Holds(p)'
    BY Zenon, <2>1, <2>2, <2>3, <2>5, <2>6, <1>4, PlaceFacts, HeldStays DEF SeriesInv
  <2>8. Kept(p)'
    BY Zenon, <2>6 DEF Kept, End, Start, Units
  <2> QED
    BY Zenon, <2>7, <2>8
<1> QED
  BY Zenon, <1>2, <1>6, <1>7, <1>8, DownOK DEF SeriesInv, AllSure

-----------------------------------------------------------------------------
(* The theorems.                                                           *)

(* The invariant holds of an empty directory.                              *)
LEMMA SeriesInitInv ==
    ASSUME Init
    PROVE  SeriesInv
<1>1. DOMAIN dir = {} /\ DOMAIN durable = {}
  BY DEF Init
<1>2. FilesOK /\ PlacesOK
  BY Zenon, <1>1 DEF Init, FilesOK, PlacesOK
<1>3. WriterOK
  BY SeriesAssumption DEF Init, Down, WriterOK
<1> QED
  BY Zenon, <1>2, <1>3 DEF Init, SeriesInv

(* Every step keeps the invariant.                                         *)
LEMMA SeriesStepInv ==
    ASSUME SeriesInv, [Next]_vars
    PROVE  SeriesInv'
<1>1. CASE Open
  BY Zenon, <1>1, OpenInv
<1>2. CASE Sync
  BY Zenon, <1>2, SyncInv
<1>3. CASE RollCreates
  BY Zenon, <1>3, RollCreatesInv
<1>4. CASE RollSyncsEntry \/ RollFails
  BY Zenon, <1>4, RollEndsInv
<1>5. CASE Dies
  BY Zenon, <1>5, DiesInv
<1>6. CASE PowerFails
  BY Zenon, <1>6, PowerFailsInv
<1>7. ASSUME NEW r \in Record, AppendRecord(r) \/ Roll(r) \/ AppendRolled(r)
      PROVE  SeriesInv'
  <2>1. CASE Roll(r)
    BY Zenon, <2>1, RollInv
  <2>2. CASE AppendRecord(r)
    BY Zenon, <2>2, WriteInv, WriteFailsInv DEF AppendRecord, Idle
  <2>3. CASE AppendRolled(r)
    BY Zenon, <2>3, WriteInv, WriteFailsInv DEF AppendRolled
  <2> QED
    BY Zenon, <1>7, <2>1, <2>2, <2>3
<1>8. CASE (\E p \in placed : Read(p)) \/ UNCHANGED vars
  <2>1. UNCHANGED <<dir, durable, w, placed, named, lost>>
    BY Zenon, <1>8 DEF Read, vars
  <2>2. WriterOK'
    BY Zenon, <2>1 DEF SeriesInv, WriterOK
  <2> QED
    BY Zenon, <2>1, <2>2, FilesLeftAlone
<1> QED
  BY Zenon, <1>1, <1>2, <1>3, <1>4, <1>5, <1>6, <1>7, <1>8 DEF Next

(* Every location append returned while its cursor was at the end of its   *)
(* file is where the record is, and is durable or still to be synced: for  *)
(* every set of records, every bound on a file, and any number of failed   *)
(* calls, deaths and power failures.                                       *)
THEOREM SeriesInvariant == Spec => []SeriesInv
<1>1. Init => SeriesInv
  BY Zenon, SeriesInitInv
<1>2. SeriesInv /\ [Next]_vars => SeriesInv'
  BY Zenon, SeriesStepInv
<1> QED
  BY <1>1, <1>2, PTL DEF Spec

(* What a sync returned for reads back as it was written.                  *)
THEOREM SyncedReadsBackTheorem == Spec => []SyncedReadsBack
<1>1. SeriesInv => SyncedReadsBack
  <2> SUFFICES ASSUME SeriesInv, NEW p \in named, p.sound, p.file \notin lost
               PROVE  ReadAt(p) = Body(p.rec)
    BY Zenon DEF SyncedReadsBack
  <2>1. p \in placed
    BY Zenon DEF SeriesInv, PlacesOK
  <2>2. Holds(p)
    BY Zenon, <2>1 DEF SeriesInv, Sure
  <2> QED
    BY Zenon, <2>1, <2>2, PlaceFacts, HeldReadsBack DEF SeriesInv
<1> QED
  BY <1>1, SeriesInvariant, PTL
=============================================================================
