--------------------------- MODULE FileStoreProofs ---------------------------
(***************************************************************************)
(* FileStore for any number of runs, files and rotations: a name tells the *)
(* contents of its file, rotation loses nothing, and an AOF reader yields  *)
(* the bytes of the labels it says.  What makes it inductive is where the  *)
(* writer is: at the end of the newest file, which is of this run, with    *)
(* the next label equal to start + written.  A second layer (More) says    *)
(* where the files of this run lie: what is registered is available, what  *)
(* is available is readable.                                               *)
(* A third (Counts) says what gc has still to delete while it runs: what   *)
(* it removes is the oldest it may, and only while too much is left.       *)
(***************************************************************************)
EXTENDS FileStore, FiniteSetTheorems, TLAPS

WriterAt == {"none", "rdb", "rdbUp", "rdbDone", "aof", "aofUp"}

Typed ==
  /\ run \in Nat
  /\ file \in Seq(FileType)
  /\ writer \in [at : WriterAt, id : Nat, start : Nat, written : Nat, next : Nat]
  /\ reader \in [id : Nat, end : Nat, cur : Nat, pos : Int]

Known == entries \subseteq Files /\ again \subseteq entries
         /\ scan.ids \subseteq Files /\ gc.todo \subseteq Files

OldRuns == \A i \in Files : file[i].run <= run

\* Before its first file, this run has none; then the writer is in the newest one.
WriterInv ==
  IF writer.at = "none" THEN \A i \in Files : file[i].run # run
  ELSE /\ writer.id = Len(file) /\ writer.id \in Files
       /\ file[writer.id].run = run
       /\ file[writer.id].start = writer.start
       /\ file[writer.id].kind = IF writer.at \in {"rdb", "rdbUp", "rdbDone"} THEN "rdb" ELSE "aof"
       /\ writer.next = writer.start + writer.written

ReaderInv == reader.id # 0 => reader.id \in Files /\ AofReaderIsFaithful

Inv == Typed /\ Known /\ OldRuns /\ WriterInv /\ NamesTellContents /\ SegmentsTile /\ ReaderInv

-----------------------------------------------------------------------------
(* Sequences.                                                              *)

\* A file at the end of the files: the others keep their numbers.
LEMMA Appended ==
  ASSUME NEW S, NEW f \in Seq(S), NEW e \in S
  PROVE  /\ Append(f, e) \in Seq(S) /\ Len(Append(f, e)) = Len(f) + 1
         /\ DOMAIN Append(f, e) = 1 .. Len(f) + 1 /\ DOMAIN f = 1 .. Len(f) /\ Len(f) \in Nat
         /\ \A i \in 1 .. Len(f) : Append(f, e)[i] = f[i]
         /\ Append(f, e)[Len(f) + 1] = e
  BY SMT

\* One file is replaced.
LEMMA Replaced ==
  ASSUME NEW S, NEW f \in Seq(S), NEW k \in DOMAIN f, NEW e \in S
  PROVE  /\ [f EXCEPT ![k] = e] \in Seq(S)
         /\ Len([f EXCEPT ![k] = e]) = Len(f)
         /\ DOMAIN [f EXCEPT ![k] = e] = DOMAIN f
         /\ \A i \in DOMAIN f : [f EXCEPT ![k] = e][i] = IF i = k THEN e ELSE f[i]
  BY SMT

LEMMA LastOne == ASSUME NEW m \in Nat, NEW i \in 1 .. m + 1, i + 1 = m + 1
                 PROVE  i = m /\ i \in 1 .. m
  BY SMT

LEMMA NotLast == ASSUME NEW m \in Nat, NEW i \in 1 .. m + 1, NEW j \in 1 .. m + 1,
                        j = i + 1, j # m + 1
                 PROVE  i \in 1 .. m /\ j \in 1 .. m /\ i # m
  BY SMT

\* A record, changed in some fields.
LEMMA WriterFields ==
  ASSUME Typed
  PROVE  /\ writer = [at |-> writer.at, id |-> writer.id, start |-> writer.start,
                      written |-> writer.written, next |-> writer.next]
         /\ writer.at \in WriterAt /\ writer.id \in Nat /\ writer.start \in Nat
         /\ writer.written \in Nat /\ writer.next \in Nat
  BY DEF Typed

LEMMA ReaderFields ==
  ASSUME Typed
  PROVE  /\ reader = [id |-> reader.id, end |-> reader.end, cur |-> reader.cur, pos |-> reader.pos]
         /\ reader.id \in Nat /\ reader.end \in Nat /\ reader.cur \in Nat /\ reader.pos \in Int
  BY DEF Typed

LEMMA FilesAreNumbers == ASSUME Typed PROVE Files = 1 .. Len(file) /\ Len(file) \in Nat
  BY DEF Typed, Files

-----------------------------------------------------------------------------
(* What a step does to the files.                                          *)

\* The name and the first byte of a file never change.
Same(f, i) == /\ f[i].run = file[i].run /\ f[i].kind = file[i].kind
              /\ f[i].start = file[i].start /\ f[i].src = file[i].src

\* A file that is not the writer's grows no more.
Kept(f) == \A i \in Files : /\ i \in DOMAIN f /\ Same(f, i) /\ f[i] \in FileType
                            /\ i # Len(file) => f[i].len = file[i].len

\* A step that creates no file and leaves the writer where it is.
LEMMA NoNewFile ==
  ASSUME Inv, file' \in Seq(FileType), DOMAIN file' = DOMAIN file, Len(file') = Len(file),
         Kept(file'), run' = run,
         writer' \in [at : WriterAt, id : Nat, start : Nat, written : Nat, next : Nat],
         writer'.id = writer.id, writer'.start = writer.start,
         (writer'.at = "none") <=> (writer.at = "none"),
         (writer'.at \in {"rdb", "rdbUp", "rdbDone"}) <=> (writer.at \in {"rdb", "rdbUp", "rdbDone"}),
         writer'.next - writer'.written = writer.next - writer.written
  PROVE  OldRuns' /\ WriterInv' /\ NamesTellContents' /\ SegmentsTile'
<1>0. Files = 1 .. Len(file) /\ Len(file) \in Nat /\ Files' = Files
  BY FilesAreNumbers DEF Inv, Files
<1>1. OldRuns'
  BY <1>0 DEF Inv, OldRuns, Kept, Same, Files
<1>2. NamesTellContents'
  BY <1>0 DEF Inv, NamesTellContents, Kept, Same, Files
<1>3. SegmentsTile'
  <2>. SUFFICES ASSUME NEW i \in Files, NEW j \in Files, j = i + 1,
                       file'[i].run = file'[j].run, file'[i].kind = "aof"
                PROVE  file'[i].start + file'[i].len = file'[j].start
    BY <1>0 DEF SegmentsTile
  <2>1. i # Len(file)
    BY <1>0
  <2>. QED BY <2>1, <1>0 DEF Inv, SegmentsTile, Kept, Same
<1>4. WriterInv'
  <2>1. CASE writer.at = "none"
    BY <2>1, <1>0 DEF Inv, WriterInv, Kept, Same, Files
  <2>2. CASE writer.at # "none"
    <3>1. /\ writer.id = Len(file) /\ writer.id \in Files
          /\ file[writer.id].run = run
          /\ file[writer.id].start = writer.start
          /\ file[writer.id].kind = IF writer.at \in {"rdb", "rdbUp", "rdbDone"} THEN "rdb" ELSE "aof"
          /\ writer.next = writer.start + writer.written
      BY <2>2 DEF Inv, WriterInv
    <3>2. writer'.next = writer'.start + writer'.written
      BY <3>1 DEF Inv, Typed
    <3>3. /\ file'[writer.id].run = run /\ file'[writer.id].start = writer.start
          /\ file'[writer.id].kind = file[writer.id].kind
      BY <3>1 DEF Kept, Same
    <3>. QED BY <2>2, <3>1, <3>2, <3>3, <1>0 DEF WriterInv
  <2>. QED BY <2>1, <2>2
<1>. QED BY <1>1, <1>2, <1>3, <1>4

\* A new file e: the writer is at its beginning.  If the file before it is an AOF segment
\* of this run, that segment (with its new length) must reach to the new one.
LEMMA NewFile ==
  ASSUME Inv, NEW f \in Seq(FileType), NEW e \in FileType,
         DOMAIN f = DOMAIN file, Len(f) = Len(file), Kept(f),
         file' = Append(f, e), run' = run,
         writer' \in [at : WriterAt, id : Nat, start : Nat, written : Nat, next : Nat],
         writer'.id = Len(file) + 1, writer'.at # "none", writer'.start = e.start,
         writer'.next = e.start, writer'.written = 0, e.src = e.start, e.run = run,
         e.kind = IF writer'.at \in {"rdb", "rdbUp", "rdbDone"} THEN "rdb" ELSE "aof",
         Len(file) \in Files /\ file[Len(file)].run = run /\ file[Len(file)].kind = "aof"
           => f[Len(file)].start + f[Len(file)].len = e.start
  PROVE  OldRuns' /\ WriterInv' /\ NamesTellContents' /\ SegmentsTile' /\ file' \in Seq(FileType)
         /\ Kept(file') /\ Files \subseteq Files'
<1>0. Files = 1 .. Len(file) /\ Len(file) \in Nat
  BY FilesAreNumbers DEF Inv
<1>1. /\ file' \in Seq(FileType) /\ Len(file') = Len(file) + 1
      /\ Files' = 1 .. Len(file) + 1
      /\ \A i \in 1 .. Len(file) : file'[i] = f[i]
      /\ file'[Len(file) + 1] = e
  BY Appended, <1>0 DEF Files
<1>2. Kept(file')
  BY <1>0, <1>1 DEF Kept, Same, Files
<1>3. \A i \in Files' : i \in Files \/ (i = Len(file) + 1 /\ file'[i] = e)
  BY <1>0, <1>1
<1>4. OldRuns' /\ NamesTellContents'
  <2>. SUFFICES ASSUME NEW i \in Files' PROVE file'[i].run <= run /\ file'[i].src = file'[i].start
    BY DEF OldRuns, NamesTellContents
  <2>1. CASE i \in Files
    BY <2>1, <1>2 DEF Inv, OldRuns, NamesTellContents, Kept, Same
  <2>2. CASE file'[i] = e
    <3>1. run <= run
      BY DEF Inv, Typed
    <3>. QED BY <2>2, <3>1
  <2>. QED BY <2>1, <2>2, <1>3
<1>5. SegmentsTile'
  <2>. SUFFICES ASSUME NEW i \in Files', NEW j \in Files', j = i + 1,
                       file'[i].run = file'[j].run, file'[i].kind = "aof"
                PROVE  file'[i].start + file'[i].len = file'[j].start
    BY DEF SegmentsTile
  <2>1. CASE j = Len(file) + 1
    <3>0. i \in 1 .. Len(file) + 1 /\ Len(file) \in Nat
      BY <1>0, <1>1
    <3>1. i = Len(file) /\ i \in 1 .. Len(file)
      BY <3>0, <2>1, LastOne
    <3>a. i \in Files /\ file'[i] = f[i] /\ file'[j] = e
      BY <3>1, <2>1, <1>0, <1>1
    <3>2. file[i].run = run /\ file[i].kind = "aof"
      BY <3>a DEF Kept, Same
    <3>3. f[Len(file)].start + f[Len(file)].len = e.start
      BY <3>1, <3>a, <3>2
    <3>. QED BY <3>1, <3>a, <3>3
  <2>2. CASE j # Len(file) + 1
    <3>0. /\ i \in 1 .. Len(file) + 1 /\ j \in 1 .. Len(file) + 1 /\ Len(file) \in Nat
          /\ j = i + 1
      BY <1>0, <1>1
    <3>a. i \in 1 .. Len(file) /\ j \in 1 .. Len(file) /\ i # Len(file)
      BY ONLY <3>0, <2>2, NotLast
    <3>1. i \in Files /\ j \in Files /\ i # Len(file)
      BY ONLY <3>a, <1>0
    <3>2. /\ file'[i].start = file[i].start /\ file'[i].len = file[i].len
          /\ file'[i].run = file[i].run /\ file'[i].kind = file[i].kind
          /\ file'[j].start = file[j].start /\ file'[j].run = file[j].run
      BY <3>1, <1>2 DEF Kept, Same
    <3>3. SegmentsTile /\ j = i + 1
      BY DEF Inv
    <3>4. file[i].run = file[j].run /\ file[i].kind = "aof"
      BY <3>2
    <3>5. file[i].start + file[i].len = file[j].start
      BY ONLY <3>1, <3>3, <3>4 DEF SegmentsTile
    <3>. QED BY ONLY <3>2, <3>5
  <2>. QED BY <2>1, <2>2
<1>6. WriterInv'
  <2>1. writer'.id = Len(file') /\ writer'.id \in Files' /\ file'[writer'.id] = e
    BY <1>0, <1>1
  <2>2. writer'.next = writer'.start + writer'.written
    BY DEF FileType
  <2>. QED BY <2>1, <2>2 DEF WriterInv
<1>. QED BY <1>0, <1>1, <1>2, <1>4, <1>5, <1>6

\* The reader and the data set are not disturbed by what happens to the files.
LEMMA Undisturbed ==
  ASSUME Inv, Kept(file'), UNCHANGED reader
  PROVE  ReaderInv' /\ Files \subseteq Files'
<1>1. Files \subseteq Files'
  BY DEF Kept, Files
<1>2. ReaderInv'
  BY <1>1 DEF Inv, ReaderInv, AofReaderIsFaithful, Kept, Same
<1>. QED BY <1>1, <1>2

-----------------------------------------------------------------------------
(* The steps.                                                              *)

LEMMA InvInit == Init => Inv
<1>. SUFFICES ASSUME Init PROVE Inv
  OBVIOUS
<1>1. Files = {}
  BY DEF Init, Files
<1>. QED BY <1>1 DEF Init, Inv, Typed, Known, OldRuns, WriterInv, NamesTellContents, SegmentsTile,
     ReaderInv, NoWriter, NoReader, NoGc, NoScan, WriterAt, Files

LEMMA InvStart == ASSUME Inv, Start PROVE Inv'
<1>1. Typed'
  BY DEF Inv, Typed, Start, NoWriter, NoReader, WriterAt
<1>2. Files' = Files /\ file' = file
  BY DEF Start, Files
<1>3. OldRuns' /\ WriterInv'
  <2>1. \A i \in Files : file[i] \in FileType
    BY DEF Inv, Typed, Files
  <2>2. \A i \in Files : file[i].run \in Nat /\ file[i].run <= run
    BY <2>1 DEF FileType, Inv, OldRuns
  <2>3. run \in Nat /\ run' = run + 1 /\ writer'.at = "none"
    BY DEF Inv, Typed, Start, NoWriter
  <2>. QED BY <1>2, <2>2, <2>3 DEF OldRuns, WriterInv
<1>. QED BY <1>1, <1>2, <1>3 DEF Inv, Known, NamesTellContents, SegmentsTile, ReaderInv, Start,
     NoReader, NoGc, NoScan

LEMMA InvCreateRdb ==
  ASSUME Inv, NEW start \in Nat, NEW size \in Nat, CreateRdb(start, size) PROVE Inv'
<1> DEFINE e == [run |-> run, kind |-> "rdb", start |-> start, size |-> size,
                 src |-> start, len |-> 0, linked |-> TRUE]
<1>0. Files = 1 .. Len(file) /\ Len(file) \in Nat
  BY FilesAreNumbers DEF Inv
<1>1. e \in FileType
  BY DEF FileType, Inv, Typed
<1>2. writer' = [at |-> "rdb", id |-> Len(file) + 1, start |-> start, written |-> 0, next |-> start]
  BY DEF CreateRdb, Create
<1>3. file' = Append(file, e) /\ run' = run
  BY DEF CreateRdb, Create
<1>4. \A i \in Files : file[i].run # run
  BY DEF CreateRdb, Inv, WriterInv
<1>5. Kept(file) /\ file \in Seq(FileType)
  BY <1>0 DEF Kept, Same, Inv, Typed, Files
<1>6. OldRuns' /\ WriterInv' /\ NamesTellContents' /\ SegmentsTile' /\ file' \in Seq(FileType)
      /\ Kept(file') /\ Files \subseteq Files'
  <2>1. writer' \in [at : WriterAt, id : Nat, start : Nat, written : Nat, next : Nat]
    BY <1>0, <1>2 DEF WriterAt
  <2>. HIDE DEF e
  <2>2. e.start = start /\ e.src = start /\ e.run = run /\ e.kind = "rdb"
    BY DEF e
  <2>. QED BY <1>1, <1>2, <1>3, <1>4, <1>5, <2>1, <2>2, NewFile
<1>7. ReaderInv' /\ Known' /\ Typed'
  <2>1. ReaderInv'
    BY <1>6, Undisturbed DEF CreateRdb
  <2>2. Known'
    BY <1>6 DEF Inv, Known, CreateRdb
  <2>3. Typed'
    BY <1>6, <1>2, <1>0 DEF Inv, Typed, CreateRdb, WriterAt
  <2>. QED BY <2>1, <2>2, <2>3
<1>. QED BY <1>6, <1>7 DEF Inv

LEMMA InvCreateAof == ASSUME Inv, NEW start \in Nat, CreateAof(start) PROVE Inv'
<1> DEFINE e == [run |-> run, kind |-> "aof", start |-> start, size |-> 0,
                 src |-> start, len |-> 0, linked |-> TRUE]
<1>0. Files = 1 .. Len(file) /\ Len(file) \in Nat
  BY FilesAreNumbers DEF Inv
<1>1. e \in FileType
  BY DEF FileType, Inv, Typed
<1>2. writer' = [at |-> "aof", id |-> Len(file) + 1, start |-> start, written |-> 0, next |-> start]
  BY DEF CreateAof, Create
<1>3. file' = Append(file, e) /\ run' = run
  BY DEF CreateAof, Create
<1>4. ~(Len(file) \in Files /\ file[Len(file)].run = run /\ file[Len(file)].kind = "aof")
  BY DEF CreateAof, Inv, WriterInv
<1>5. Kept(file) /\ file \in Seq(FileType)
  BY <1>0 DEF Kept, Same, Inv, Typed, Files
<1>6. OldRuns' /\ WriterInv' /\ NamesTellContents' /\ SegmentsTile' /\ file' \in Seq(FileType)
      /\ Kept(file') /\ Files \subseteq Files'
  <2>1. writer' \in [at : WriterAt, id : Nat, start : Nat, written : Nat, next : Nat]
    BY <1>0, <1>2 DEF WriterAt
  <2>. HIDE DEF e
  <2>2. e.start = start /\ e.src = start /\ e.run = run /\ e.kind = "aof"
    BY DEF e
  <2>. QED BY <1>1, <1>2, <1>3, <1>4, <1>5, <2>1, <2>2, NewFile
<1>7. ReaderInv' /\ Known' /\ Typed'
  <2>1. ReaderInv'
    BY <1>6, Undisturbed DEF CreateAof
  <2>2. Known'
    BY <1>6 DEF Inv, Known, CreateAof
  <2>3. Typed'
    BY <1>6, <1>2, <1>0 DEF Inv, Typed, CreateAof, WriterAt
  <2>. QED BY <2>1, <2>2, <2>3
<1>. QED BY <1>6, <1>7 DEF Inv

\* A step that leaves the files alone, and of the writer all but how far it has got.
LEMMA SameFiles ==
  ASSUME Inv, UNCHANGED <<run, file>>,
         writer' \in [at : WriterAt, id : Nat, start : Nat, written : Nat, next : Nat],
         writer'.id = writer.id, writer'.start = writer.start,
         (writer'.at = "none") <=> (writer.at = "none"),
         (writer'.at \in {"rdb", "rdbUp", "rdbDone"}) <=> (writer.at \in {"rdb", "rdbUp", "rdbDone"}),
         writer'.next - writer'.written = writer.next - writer.written
  PROVE  /\ OldRuns' /\ WriterInv' /\ NamesTellContents' /\ SegmentsTile'
         /\ file' \in Seq(FileType) /\ Kept(file') /\ Files' = Files
<1>1. file' \in Seq(FileType) /\ DOMAIN file' = DOMAIN file /\ Len(file') = Len(file)
  BY DEF Inv, Typed
<1>2. Kept(file')
  BY DEF Kept, Same, Inv, Typed, Files
<1>3. Files' = Files
  BY DEF Files
<1>. QED BY <1>1, <1>2, <1>3, NoNewFile

LEMMA InvRegister == ASSUME Inv, Register PROVE Inv'
<1>1. /\ writer' \in [at : WriterAt, id : Nat, start : Nat, written : Nat, next : Nat]
      /\ writer'.id = writer.id /\ writer'.start = writer.start
      /\ writer'.next = writer.next /\ writer'.written = writer.written
      /\ writer.at # "none" /\ writer'.at # "none"
      /\ (writer'.at \in {"rdb", "rdbUp", "rdbDone"}) <=> (writer.at \in {"rdb", "rdbUp", "rdbDone"})
  BY DEF Register, Inv, Typed, WriterAt
<1>2. UNCHANGED <<run, file, reader, gc, scan>>
  BY DEF Register
<1>3. writer'.next - writer'.written = writer.next - writer.written
  BY <1>1
<1>4. /\ OldRuns' /\ WriterInv' /\ NamesTellContents' /\ SegmentsTile'
      /\ file' \in Seq(FileType) /\ Kept(file') /\ Files' = Files
  BY <1>1, <1>2, <1>3, SameFiles
<1>5. ReaderInv'
  BY <1>2, <1>4, Undisturbed
<1>6. Known'
  <2>1. writer.id \in Files
    BY DEF Register, Inv, WriterInv
  <2>. QED BY <2>1, <1>2, <1>4 DEF Register, Inv, Known
<1>7. Typed'
  BY <1>1, <1>2 DEF Inv, Typed
<1>. QED BY <1>4, <1>5, <1>6, <1>7 DEF Inv

\* A step that changes neither the files nor the writer nor the reader.
LEMMA FilesUntouched ==
  ASSUME Inv, UNCHANGED <<run, file, writer, reader>>, Known'
  PROVE  Inv'
<1>1. Files' = Files
  BY DEF Files
<1>2. Typed' /\ OldRuns' /\ WriterInv' /\ NamesTellContents' /\ SegmentsTile'
  BY <1>1 DEF Inv, Typed, OldRuns, WriterInv, NamesTellContents, SegmentsTile
<1>3. ReaderInv'
  BY <1>1 DEF Inv, ReaderInv, AofReaderIsFaithful
<1>. QED BY <1>2, <1>3 DEF Inv

LEMMA InvGcStart == ASSUME Inv, GcStart PROVE Inv'
<1>1. UNCHANGED <<run, file, entries, again, writer, reader, scan>> /\ Files' = Files
  BY DEF GcStart, Files
<1>2. Deletable \subseteq Files
  BY DEF Deletable, Inv, Known
<1>3. gc'.todo \subseteq Files
  <2>1. gc' = [NoGc EXCEPT !.at = "failed"] \/ gc' = NoGc
        \/ gc' = [at |-> "run", todo |-> Deletable, target |-> Total - MaxSize, deleted |-> 0]
    BY DEF GcStart
  <2>. QED BY <2>1, <1>2 DEF NoGc
<1>4. Known'
  BY <1>1, <1>3 DEF Inv, Known
<1>. QED BY <1>1, <1>4, FilesUntouched

LEMMA InvGcEnd == ASSUME Inv, GcEnd PROVE Inv'
<1>1. UNCHANGED <<run, file, entries, again, writer, reader, scan>> /\ Files' = Files
  BY DEF GcEnd, Files
<1>2. Known'
  BY <1>1 DEF GcEnd, NoGc, Inv, Known
<1>. QED BY <1>1, <1>2, FilesUntouched

LEMMA InvGcFails == ASSUME Inv, GcFails PROVE Inv'
<1>1. UNCHANGED <<run, file, entries, again, writer, reader, scan>> /\ Files' = Files
  BY DEF GcFails, Files
<1>2. Known'
  BY <1>1 DEF GcFails, NoGc, Inv, Known
<1>. QED BY <1>1, <1>2, FilesUntouched

LEMMA InvScanDir == ASSUME Inv, ScanDir PROVE Inv'
<1>1. UNCHANGED <<run, file, entries, again, writer, reader, gc>> /\ Files' = Files
  BY DEF ScanDir, Files
<1>2. scan'.ids \subseteq Files
  BY DEF ScanDir
<1>3. Known'
  BY <1>1, <1>2 DEF Inv, Known
<1>. QED BY <1>1, <1>3, FilesUntouched

LEMMA InvScanInstall == ASSUME Inv, ScanInstall PROVE Inv'
<1>1. UNCHANGED <<run, file, writer, reader, gc>> /\ Files' = Files
  BY DEF ScanInstall, Files
<1>2. Known'
  BY <1>1 DEF ScanInstall, NoScan, Inv, Known
<1>. QED BY <1>1, <1>2, FilesUntouched

-----------------------------------------------------------------------------
(* The steps that change the length of a file or remove one.               *)

\* One file gets another length or loses its link.
LEMMA OneFile ==
  ASSUME Inv, NEW k \in Files, NEW e \in FileType, file' = [file EXCEPT ![k] = e],
         e.run = file[k].run, e.kind = file[k].kind, e.start = file[k].start,
         e.src = file[k].src, k # Len(file) => e.len = file[k].len
  PROVE  /\ file' \in Seq(FileType) /\ DOMAIN file' = DOMAIN file /\ Len(file') = Len(file)
         /\ Kept(file') /\ Files' = Files
<1>1. file \in Seq(FileType) /\ k \in DOMAIN file
  BY DEF Inv, Typed, Files
<1>2. /\ file' \in Seq(FileType) /\ Len(file') = Len(file) /\ DOMAIN file' = DOMAIN file
      /\ \A i \in DOMAIN file : file'[i] = IF i = k THEN e ELSE file[i]
  BY <1>1, Replaced
<1>3. \A i \in Files : file[i] \in FileType
  BY <1>1 DEF Files
<1>4. Kept(file')
  BY <1>2, <1>3 DEF Kept, Same, Files
<1>. QED BY <1>2, <1>4 DEF Files

LEMMA InvGcDelete == ASSUME Inv, GcDelete PROVE Inv'
<1>1. PICK k \in GcNext :
        /\ file' = [file EXCEPT ![k].linked = FALSE]
        /\ gc' = [gc EXCEPT !.todo = IF k \in again /\ Early(k) THEN @ ELSE @ \ {k},
                            !.deleted = @ + file[k].len]
  BY DEF GcDelete
<1>2. k \in Files /\ file[k] \in FileType
  BY DEF GcNext, Inv, Known, Typed, Files
<1> DEFINE e == [file[k] EXCEPT !.linked = FALSE]
<1>3. file' = [file EXCEPT ![k] = e]
  BY <1>1
<1>4. /\ e \in FileType /\ e.run = file[k].run /\ e.kind = file[k].kind
      /\ e.start = file[k].start /\ e.src = file[k].src /\ e.len = file[k].len
  BY <1>2 DEF FileType
<1>5. UNCHANGED <<run, entries, again, writer, reader, scan>>
  BY DEF GcDelete
<1>. HIDE DEF e
<1>6. /\ file' \in Seq(FileType) /\ DOMAIN file' = DOMAIN file /\ Len(file') = Len(file)
      /\ Kept(file') /\ Files' = Files
  BY <1>2, <1>3, <1>4, OneFile
<1>7. writer \in [at : WriterAt, id : Nat, start : Nat, written : Nat, next : Nat]
  BY DEF Inv, Typed
<1>8. OldRuns' /\ WriterInv' /\ NamesTellContents' /\ SegmentsTile'
  BY <1>5, <1>6, <1>7, NoNewFile
<1>9. ReaderInv'
  BY <1>5, <1>6, Undisturbed
<1>10. gc'.todo \subseteq gc.todo \/ gc'.todo = gc.todo
  BY <1>1
<1>11. Known'
  BY <1>5, <1>6, <1>10 DEF Inv, Known
<1>12. Typed'
  BY <1>5, <1>6 DEF Inv, Typed
<1>. QED BY <1>8, <1>9, <1>11, <1>12 DEF Inv

\* The file of the writer gets longer.
LEMMA WriterFile ==
  ASSUME Inv, writer.at # "none", NEW l \in Nat, file' = [file EXCEPT ![writer.id].len = l]
  PROVE  /\ file' \in Seq(FileType) /\ DOMAIN file' = DOMAIN file /\ Len(file') = Len(file)
         /\ Kept(file') /\ Files' = Files /\ writer.id = Len(file) /\ file'[writer.id].len = l
<1>1. writer.id = Len(file) /\ writer.id \in Files /\ file[writer.id] \in FileType
  BY DEF Inv, WriterInv, Typed, Files
<1> DEFINE k == writer.id
<1> DEFINE e == [file[k] EXCEPT !.len = l]
<1>2. file' = [file EXCEPT ![k] = e]
  OBVIOUS
<1>3. /\ e \in FileType /\ e.run = file[k].run /\ e.kind = file[k].kind
      /\ e.start = file[k].start /\ e.src = file[k].src /\ e.len = l
  BY <1>1 DEF FileType
<1>4. k \in Files /\ k = Len(file) /\ k \in DOMAIN file
  BY <1>1 DEF Files
<1>. HIDE DEF e, k
<1>5. /\ file' \in Seq(FileType) /\ DOMAIN file' = DOMAIN file /\ Len(file') = Len(file)
      /\ Kept(file') /\ Files' = Files
  BY <1>2, <1>3, <1>4, OneFile
<1>6. file'[k] = e
  BY <1>2, <1>4
<1>. QED BY <1>3, <1>4, <1>5, <1>6 DEF k

LEMMA InvWrite == ASSUME Inv, NEW n \in Nat, Write(n) PROVE Inv'
<1>0. writer.at \in {"rdbUp", "aofUp"}
  BY DEF Write
<1>1. /\ writer' = [writer EXCEPT !.written = @ + n, !.next = @ + n]
      /\ UNCHANGED <<run, entries, again, reader, gc, scan>>
  BY DEF Write
<1>2. /\ writer' \in [at : WriterAt, id : Nat, start : Nat, written : Nat, next : Nat]
      /\ writer'.id = writer.id /\ writer'.start = writer.start /\ writer'.at = writer.at
      /\ writer'.next - writer'.written = writer.next - writer.written
  <2>1. writer' = [at |-> writer.at, id |-> writer.id, start |-> writer.start,
                   written |-> writer.written + n, next |-> writer.next + n]
    BY <1>1, WriterFields DEF Inv
  <2>. QED BY <2>1, WriterFields DEF Inv
<1>3. writer.id \in Files /\ file[writer.id] \in FileType
  BY <1>0 DEF Inv, WriterInv, Typed, Files
<1>4. file[writer.id].len \in Nat /\ writer'.written \in Nat
  BY <1>2, <1>3 DEF FileType
<1>5. PICK l \in file[writer.id].len .. writer'.written : file' = [file EXCEPT ![writer.id].len = l]
  BY DEF Write
<1>6. l \in Nat
  BY <1>4, <1>5
<1>7. /\ file' \in Seq(FileType) /\ DOMAIN file' = DOMAIN file /\ Len(file') = Len(file)
      /\ Kept(file') /\ Files' = Files
  BY <1>0, <1>5, <1>6, WriterFile
<1>8. OldRuns' /\ WriterInv' /\ NamesTellContents' /\ SegmentsTile'
  BY <1>1, <1>2, <1>7, NoNewFile
<1>9. ReaderInv'
  BY <1>1, <1>7, Undisturbed
<1>10. Known' /\ Typed'
  BY <1>1, <1>2, <1>7 DEF Inv, Known, Typed
<1>. QED BY <1>8, <1>9, <1>10 DEF Inv

LEMMA InvFlush == ASSUME Inv, Flush PROVE Inv'
<1>0. writer.at \in {"rdbUp", "aofUp"}
  BY DEF Flush
<1>1. /\ file' = [file EXCEPT ![writer.id].len = writer.written]
      /\ UNCHANGED <<run, entries, again, reader, gc, scan>>
  BY DEF Flush
<1>2. /\ writer' \in [at : WriterAt, id : Nat, start : Nat, written : Nat, next : Nat]
      /\ writer'.id = writer.id /\ writer'.start = writer.start
      /\ writer'.next = writer.next /\ writer'.written = writer.written
      /\ writer'.at # "none"
      /\ (writer'.at \in {"rdb", "rdbUp", "rdbDone"}) <=> (writer.at \in {"rdb", "rdbUp", "rdbDone"})
  BY <1>0 DEF Flush, Inv, Typed, WriterAt
<1>3. writer.written \in Nat
  BY DEF Inv, Typed
<1>4. /\ file' \in Seq(FileType) /\ DOMAIN file' = DOMAIN file /\ Len(file') = Len(file)
      /\ Kept(file') /\ Files' = Files
  BY <1>0, <1>1, <1>3, WriterFile
<1>5. OldRuns' /\ WriterInv' /\ NamesTellContents' /\ SegmentsTile'
  BY <1>0, <1>1, <1>2, <1>4, NoNewFile
<1>6. ReaderInv'
  BY <1>1, <1>4, Undisturbed
<1>7. Known' /\ Typed'
  BY <1>1, <1>2, <1>4 DEF Inv, Known, Typed
<1>. QED BY <1>5, <1>6, <1>7 DEF Inv

LEMMA InvRotate == ASSUME Inv, Rotate PROVE Inv'
<1> DEFINE start == writer.start + writer.written
<1> DEFINE e == [run |-> run, kind |-> "aof", start |-> start, size |-> 0,
                 src |-> writer.next, len |-> 0, linked |-> TRUE]
<1> DEFINE f == [file EXCEPT ![writer.id].len = writer.written]
<1>0. writer.at = "aofUp"
  BY DEF Rotate
<1>1. /\ file' = Append(f, e)
      /\ writer' = [writer EXCEPT !.id = Len(file) + 1, !.start = start, !.written = 0]
      /\ UNCHANGED <<run, entries, again, reader, gc, scan>>
  BY DEF Rotate
<1>2. /\ writer.id = Len(file) /\ writer.id \in Files /\ file[writer.id].run = run
      /\ file[writer.id].start = writer.start /\ file[writer.id].kind = "aof"
      /\ writer.next = start
  BY <1>0 DEF Inv, WriterInv
<1>3. /\ start \in Nat /\ writer.written \in Nat /\ run \in Nat /\ Len(file) \in Nat
      /\ file[writer.id] \in FileType /\ file \in Seq(FileType)
  BY <1>2 DEF Inv, Typed, Files
<1>4. /\ e \in FileType /\ e.start = start /\ e.src = start /\ e.run = run /\ e.kind = "aof"
  BY <1>2, <1>3 DEF FileType
<1> DEFINE g == [file[writer.id] EXCEPT !.len = writer.written]
<1>5. /\ f = [file EXCEPT ![writer.id] = g] /\ g \in FileType /\ g.run = file[writer.id].run
      /\ g.kind = file[writer.id].kind /\ g.start = file[writer.id].start
      /\ g.src = file[writer.id].src /\ g.len = writer.written
  BY <1>3 DEF FileType
<1>. HIDE DEF e, g, f
<1>6. /\ f \in Seq(FileType) /\ DOMAIN f = DOMAIN file /\ Len(f) = Len(file)
      /\ \A i \in DOMAIN file : f[i] = IF i = writer.id THEN g ELSE file[i]
  <2>1. writer.id \in DOMAIN file
    BY <1>2 DEF Files
  <2>. QED BY <2>1, <1>3, <1>5, Replaced
<1>7. \A i \in Files : file[i] \in FileType
  BY <1>3 DEF Files
<1>8. Kept(f)
  BY <1>2, <1>5, <1>6, <1>7 DEF Kept, Same, Files
<1>9. f[Len(file)].start + f[Len(file)].len = e.start
  BY <1>2, <1>4, <1>5, <1>6 DEF Files
<1>10. /\ writer' \in [at : WriterAt, id : Nat, start : Nat, written : Nat, next : Nat]
       /\ writer'.id = Len(file) + 1 /\ writer'.at = "aofUp" /\ writer'.start = start
       /\ writer'.next = start /\ writer'.written = 0
  <2>1. writer' = [at |-> writer.at, id |-> Len(file) + 1, start |-> start,
                   written |-> 0, next |-> writer.next]
    BY <1>1, WriterFields DEF Inv
  <2>2. writer.at \in WriterAt /\ writer.next \in Nat /\ Len(file) + 1 \in Nat
    BY <1>3, WriterFields DEF Inv
  <2>. QED BY <2>1, <2>2, <1>0, <1>2, <1>3
<1>11. e.kind = IF writer'.at \in {"rdb", "rdbUp", "rdbDone"} THEN "rdb" ELSE "aof"
  BY <1>4, <1>10
<1>. HIDE DEF start
<1>12. OldRuns' /\ WriterInv' /\ NamesTellContents' /\ SegmentsTile' /\ file' \in Seq(FileType)
       /\ Kept(file') /\ Files \subseteq Files'
  BY <1>1, <1>4, <1>6, <1>8, <1>9, <1>10, <1>11, NewFile
<1>13. ReaderInv'
  BY <1>1, <1>12, Undisturbed
<1>14. Known' /\ Typed'
  BY <1>1, <1>10, <1>12 DEF Inv, Known, Typed
<1>. QED BY <1>12, <1>13, <1>14 DEF Inv

-----------------------------------------------------------------------------
(* The reader.                                                             *)

\* What get_reader finds is an entry, and has a file.
LEMMA LookupIsEntry == ASSUME NEW o PROVE Lookup(o) \subseteq entries
<1>1. \A r : Hits(r, o) \subseteq entries
  BY DEF Hits, FindRdb, FindAof, OfRun
<1>. QED BY <1>1 DEF Lookup

LEMMA InvOpenReader == ASSUME Inv, NEW o \in Nat, OpenReader(o) PROVE Inv'
<1>1. PICK i \in Lookup(o) :
        reader' = [id |-> i, cur |-> o, pos |-> OpenPos(i, o),
                   end |-> IF file[i].kind = "rdb" THEN file[i].start + file[i].size
                           ELSE MaxLabel]
  BY DEF OpenReader
<1>2. UNCHANGED <<run, file, entries, again, writer, gc, scan>> /\ Files' = Files
  BY DEF OpenReader, Files
<1>3. i \in Files /\ file[i] \in FileType
  BY LookupIsEntry DEF Inv, Known, Typed, Files
<1>4. i \in Nat
  BY <1>3, FilesAreNumbers DEF Inv
<1>5. OpenPos(i, o) \in Int /\ (file[i].kind = "aof" => file[i].src + OpenPos(i, o) = o)
  BY <1>3 DEF OpenPos, FileType, Inv, NamesTellContents
<1>6. reader' \in [id : Nat, end : Nat, cur : Nat, pos : Int]
  <2>1. file[i].start + file[i].size \in Nat /\ MaxLabel \in Nat
    BY <1>3, StoreAssumption DEF FileType
  <2>. QED BY <2>1, <1>1, <1>4, <1>5
<1>7. ReaderInv'
  BY <1>1, <1>2, <1>3, <1>5 DEF ReaderInv, AofReaderIsFaithful
<1>8. Typed' /\ Known' /\ OldRuns' /\ WriterInv' /\ NamesTellContents' /\ SegmentsTile'
  BY SMTT(20), <1>2, <1>6 DEF Inv, Typed, Known, OldRuns, WriterInv, NamesTellContents, SegmentsTile
<1>. QED BY <1>7, <1>8 DEF Inv

LEMMA InvRead == ASSUME Inv, NEW n \in Nat, Read(n) PROVE Inv'
<1>1. /\ reader' = [reader EXCEPT !.pos = @ + n, !.cur = @ + n] /\ reader.id # 0
      /\ UNCHANGED <<run, file, entries, again, writer, gc, scan>> /\ Files' = Files
  BY DEF Read, Files
<1>2. /\ reader' \in [id : Nat, end : Nat, cur : Nat, pos : Int] /\ reader'.id = reader.id
      /\ reader'.pos = reader.pos + n /\ reader'.cur = reader.cur + n
      /\ reader.pos \in Int /\ reader.cur \in Nat
  <2>1. reader' = [id |-> reader.id, end |-> reader.end, cur |-> reader.cur + n,
                   pos |-> reader.pos + n]
    BY <1>1, ReaderFields DEF Inv
  <2>. QED BY <2>1, ReaderFields DEF Inv
<1>3. reader.id \in Files /\ file[reader.id] \in FileType
  BY <1>1 DEF Inv, ReaderInv, Typed, Files
<1>4. ReaderInv'
  BY <1>1, <1>2, <1>3 DEF Inv, ReaderInv, AofReaderIsFaithful, FileType
<1>5. Typed' /\ Known' /\ OldRuns' /\ WriterInv' /\ NamesTellContents' /\ SegmentsTile'
  BY <1>1, <1>2 DEF Inv, Typed, Known, OldRuns, WriterInv, NamesTellContents, SegmentsTile
<1>. QED BY <1>4, <1>5 DEF Inv

-----------------------------------------------------------------------------
(* Every step, and what follows.                                           *)

LEMMA InvNext == Inv /\ [Next]_vars => Inv'
<1>. SUFFICES ASSUME Inv, [Next]_vars PROVE Inv'
  OBVIOUS
<1>0. 1 .. MaxLabel \subseteq Nat /\ 0 .. MaxLabel \subseteq Nat /\ RdbSizes \subseteq Nat
  BY StoreAssumption
<1>1. CASE Start
  BY <1>1, InvStart
<1>2. ASSUME NEW start \in 0 .. MaxLabel, CreateAof(start) PROVE Inv'
  BY <1>0, <1>2, InvCreateAof
<1>3. ASSUME NEW start \in 0 .. MaxLabel, NEW size \in RdbSizes, CreateRdb(start, size) PROVE Inv'
  BY <1>0, <1>3, InvCreateRdb
<1>4. CASE Register
  BY <1>4, InvRegister
<1>5. CASE Flush
  BY <1>5, InvFlush
<1>6. CASE Rotate
  BY <1>6, InvRotate
<1>7. ASSUME NEW n \in 1 .. MaxLabel, Write(n) PROVE Inv'
  BY <1>0, <1>7, InvWrite
<1>8. ASSUME NEW n \in 1 .. MaxLabel, Read(n) PROVE Inv'
  BY <1>0, <1>8, InvRead
<1>9. ASSUME NEW o \in 0 .. MaxLabel, OpenReader(o) PROVE Inv'
  BY <1>0, <1>9, InvOpenReader
<1>10. CASE GcStart
  BY <1>10, InvGcStart
<1>11. CASE GcDelete
  BY <1>11, InvGcDelete
<1>12. CASE GcEnd
  BY <1>12, InvGcEnd
<1>13. CASE ScanDir
  BY <1>13, InvScanDir
<1>16. CASE GcFails
  BY <1>16, InvGcFails
<1>14. CASE ScanInstall
  BY <1>14, InvScanInstall
<1>15. CASE UNCHANGED vars
  <2>1. UNCHANGED <<run, file, entries, again, writer, reader, gc, scan>> /\ Files' = Files
    BY <1>15 DEF vars, Files
  <2>2. Known'
    BY <2>1 DEF Inv, Known
  <2>. QED BY <2>1, <2>2, FilesUntouched
<1>. QED BY <1>1, <1>2, <1>3, <1>4, <1>5, <1>6, <1>7, <1>8, <1>9, <1>10, <1>11, <1>12, <1>13,
            <1>14, <1>15, <1>16 DEF Next

LEMMA InvAlways == Spec => []Inv
<1>. QED BY InvInit, InvNext, PTL DEF Spec

-----------------------------------------------------------------------------
(* What is available: where the files of this run are.                     *)

Streaming == writer.at \in {"aof", "aofUp"}

\* No segment of this run begins after the writer's.
Segments ==
  \A i \in Files : file[i].run = run /\ file[i].kind = "aof" =>
    Streaming /\ file[i].start <= writer.start

\* The one snapshot of this run ends before its segments begin.
Snapshots ==
  /\ \A i \in Files : file[i].run = run /\ file[i].kind = "rdb" =>
       /\ ~Streaming => i = writer.id
       /\ \A j \in Files : file[j].run = run /\ file[j].kind = "aof" =>
            file[i].start + file[i].size <= file[j].start
  /\ writer.at = "rdbDone" => writer.written = file[writer.id].size

Runs == run <= MaxRuns /\ \A i \in Files : file[i].run > 0

More == Runs /\ Segments /\ Snapshots

\* The name of a file stays as it is.
Named(i) == /\ i \in Files' /\ file'[i].run = file[i].run /\ file'[i].kind = file[i].kind
            /\ file'[i].start = file[i].start /\ file'[i].size = file[i].size

LEMMA Typing ==
  ASSUME Inv
  PROVE  /\ run \in Nat /\ MaxRuns \in Nat /\ writer.start \in Nat /\ writer.written \in Nat
         /\ Len(file) \in Nat
         /\ \A i \in Files : file[i] \in FileType /\ file[i].start \in Nat /\ file[i].size \in Nat
                             /\ file[i].run \in Nat /\ file[i].len \in Nat
<1>1. \A i \in Files : file[i] \in FileType
  BY DEF Inv, Typed, Files
<1>2. \A i \in Files : file[i].start \in Nat /\ file[i].size \in Nat
                       /\ file[i].run \in Nat /\ file[i].len \in Nat
  BY <1>1 DEF FileType
<1>3. run \in Nat /\ MaxRuns \in Nat
  BY StoreAssumption DEF Inv, Typed
<1>4. Len(file) \in Nat
  BY DEF Inv, Typed
<1>5. writer.start \in Nat /\ writer.written \in Nat
  BY WriterFields DEF Inv
<1>. QED BY <1>1, <1>2, <1>3, <1>4, <1>5

\* A step that creates no file and leaves the writer in its file.
LEMMA SameSegments ==
  ASSUME Inv, More, UNCHANGED run, Files' = Files, \A i \in Files : Named(i),
         writer'.id = writer.id, writer'.start = writer.start, Streaming' <=> Streaming,
         writer'.at = "rdbDone" => writer.id \in Files /\ writer'.written = file[writer.id].size
  PROVE  Runs' /\ Segments' /\ Snapshots'
<1>1. Runs'
  BY DEF More, Runs, Named
<1>2. Segments'
  BY DEF More, Segments, Named
<1>3. Snapshots'
  BY DEF More, Snapshots, Named
<1>. QED BY <1>1, <1>2, <1>3

\* A step that leaves the files and the writer alone.
LEMMA SameStore ==
  ASSUME Inv, More, UNCHANGED <<run, file, writer>>
  PROVE  More'
<1>1. Files' = Files /\ \A i \in Files : Named(i)
  BY DEF Files, Named
<1>2. writer.at = "rdbDone" => writer.id \in Files /\ writer.written = file[writer.id].size
  BY DEF Inv, WriterInv, More, Snapshots
<1>. QED BY <1>1, <1>2, SameSegments DEF Streaming, More

LEMMA MoreInit == Init => More
<1>. SUFFICES ASSUME Init PROVE More
  OBVIOUS
<1>1. Files = {} /\ run = 0 /\ writer.at = "none" /\ MaxRuns \in Nat
  BY StoreAssumption DEF Init, Files, NoWriter
<1>. QED BY <1>1 DEF More, Runs, Segments, Snapshots, Streaming

LEMMA MoreStart == ASSUME Inv, More, Start PROVE More'
<1>1. run' = run + 1 /\ run < MaxRuns /\ file' = file /\ Files' = Files
  BY DEF Start, Files
<1>2. writer'.at = "none"
  BY DEF Start, NoWriter
<1>3. \A i \in Files : file'[i].run # run'
  BY <1>1, Typing DEF Inv, OldRuns
<1>4. Runs'
  BY <1>1, Typing DEF More, Runs
<1>. QED BY <1>1, <1>2, <1>3, <1>4 DEF More, Segments, Snapshots, Streaming

\* A file with number Len(file) + 1 is added; the others keep their names.
LEMMA NewName ==
  ASSUME NEW f \in Seq(FileType), NEW e \in FileType, file' = Append(f, e), file \in Seq(FileType),
         DOMAIN f = DOMAIN file, Len(f) = Len(file),
         \A i \in Files : /\ f[i].run = file[i].run /\ f[i].kind = file[i].kind
                          /\ f[i].start = file[i].start /\ f[i].size = file[i].size
  PROVE  /\ Files' = Files \union {Len(file) + 1} /\ file'[Len(file) + 1] = e
         /\ \A i \in Files : Named(i) /\ i # Len(file) + 1
<1>1. /\ DOMAIN Append(f, e) = 1 .. Len(f) + 1 /\ DOMAIN f = 1 .. Len(f) /\ Len(f) \in Nat
      /\ \A i \in 1 .. Len(f) : Append(f, e)[i] = f[i]
      /\ Append(f, e)[Len(f) + 1] = e
  BY Appended
<1>2. Files = 1 .. Len(f) /\ Files' = 1 .. Len(f) + 1
  BY <1>1 DEF Files
<1>3. Files' = Files \union {Len(file) + 1} /\ \A i \in Files : i \in Files' /\ i # Len(file) + 1
  BY <1>1, <1>2
<1>4. \A i \in Files : file'[i] = f[i]
  BY <1>1, <1>2
<1>. QED BY <1>1, <1>3, <1>4 DEF Named

LEMMA MoreCreateRdb ==
  ASSUME Inv, More, NEW start \in Nat, NEW size \in Nat, CreateRdb(start, size) PROVE More'
<1> DEFINE e == [run |-> run, kind |-> "rdb", start |-> start, size |-> size,
                 src |-> start, len |-> 0, linked |-> TRUE]
<1>1. /\ file' = Append(file, e) /\ run' = run /\ gc' = gc /\ run > 0
      /\ writer' = [at |-> "rdb", id |-> Len(file) + 1, start |-> start, written |-> 0, next |-> start]
  BY DEF CreateRdb, Create
<1>2. e \in FileType /\ file \in Seq(FileType)
  BY DEF FileType, Inv, Typed
<1>3. e.run = run /\ e.kind = "rdb" /\ e.start = start
  OBVIOUS
<1>. HIDE DEF e
<1>4. /\ Files' = Files \union {Len(file) + 1} /\ file'[Len(file) + 1] = e
      /\ \A i \in Files : Named(i) /\ i # Len(file) + 1
  BY <1>1, <1>2, NewName
<1>5. \A i \in Files : file'[i].run # run
  BY <1>4 DEF CreateRdb, Inv, WriterInv, Named
<1>6. ~Streaming' /\ writer'.at = "rdb" /\ writer'.id = Len(file) + 1
  BY <1>1 DEF Streaming
<1>7. Runs'
  BY <1>1, <1>3, <1>4 DEF More, Runs, Named
<1>8. \A i \in Files' : file'[i].run = run => i = Len(file) + 1 /\ file'[i].kind = "rdb"
  BY <1>3, <1>4, <1>5
<1>11. run' = run
  BY <1>1
<1>12. Segments'
  <2>. SUFFICES ASSUME NEW i \in Files', file'[i].run = run, file'[i].kind = "aof"
                PROVE  FALSE
    BY <1>11 DEF Segments
  <2>. QED BY <1>8
<1>10. Snapshots'
  <2>1. \A i \in Files' : file'[i].run = run' /\ file'[i].kind = "rdb" => i = writer'.id
    BY <1>6, <1>8, <1>11
  <2>2. \A i, j \in Files' : ~(file'[j].run = run' /\ file'[j].kind = "aof")
    BY <1>8, <1>11
  <2>3. writer'.at # "rdbDone"
    BY <1>6
  <2>. QED BY <2>1, <2>2, <2>3 DEF Snapshots
<1>. QED BY <1>7, <1>10, <1>12 DEF More

LEMMA MoreCreateAof == ASSUME Inv, More, NEW start \in Nat, CreateAof(start) PROVE More'
<1> DEFINE e == [run |-> run, kind |-> "aof", start |-> start, size |-> 0,
                 src |-> start, len |-> 0, linked |-> TRUE]
<1>1. /\ file' = Append(file, e) /\ run' = run /\ gc' = gc /\ run > 0
      /\ writer' = [at |-> "aof", id |-> Len(file) + 1, start |-> start, written |-> 0, next |-> start]
      /\ writer.at \in {"none", "rdbDone"} /\ (writer.at = "rdbDone" => start = writer.next)
  BY DEF CreateAof, Create
<1>2. e \in FileType /\ file \in Seq(FileType)
  BY DEF FileType, Inv, Typed
<1>3. e.run = run /\ e.kind = "aof" /\ e.start = start /\ e.linked
  OBVIOUS
<1>. HIDE DEF e
<1>4. /\ Files' = Files \union {Len(file) + 1} /\ file'[Len(file) + 1] = e
      /\ \A i \in Files : Named(i) /\ i # Len(file) + 1
  BY <1>1, <1>2, NewName
<1>5. Streaming' /\ writer'.at = "aof" /\ writer'.start = start /\ writer'.id = Len(file) + 1
      /\ ~Streaming
  BY <1>1 DEF Streaming
<1>6. \A i \in Files : ~(file'[i].run = run /\ file'[i].kind = "aof")
  BY <1>4, <1>5 DEF More, Segments, Named
<1>7. ASSUME NEW i \in Files, file[i].run = run, file[i].kind = "rdb"
      PROVE  file[i].start + file[i].size = start
  <2>1. writer.at = "rdbDone" /\ i = writer.id
    BY <1>1, <1>5, <1>7 DEF Inv, WriterInv, More, Snapshots
  <2>2. writer.written = file[i].size /\ file[i].start = writer.start /\ start = writer.next
        /\ writer.next = writer.start + writer.written
    BY <1>1, <2>1 DEF Inv, WriterInv, More, Snapshots
  <2>. QED BY <2>2
<1>8. Runs'
  BY <1>1, <1>3, <1>4 DEF More, Runs, Named
<1>9. Segments'
  <2>. SUFFICES ASSUME NEW i \in Files', file'[i].run = run, file'[i].kind = "aof"
                PROVE  file'[i].start <= start
    BY <1>1, <1>5 DEF Segments
  <2>1. file'[i].start = start
    BY <1>3, <1>4, <1>6
  <2>. QED BY <2>1
<1>10. Snapshots'
  <2>. SUFFICES ASSUME NEW i \in Files', NEW j \in Files', file'[i].run = run, file'[i].kind = "rdb",
                       file'[j].run = run, file'[j].kind = "aof"
                PROVE  file'[i].start + file'[i].size <= file'[j].start
    BY <1>1, <1>5 DEF Snapshots
  <2>1. j = Len(file) + 1 /\ file'[j].start = start
    BY <1>3, <1>4, <1>6
  <2>2. i \in Files
    BY <1>3, <1>4
  <2>3. file'[i].start + file'[i].size = start
    BY <1>4, <1>7, <2>2 DEF Named
  <2>. QED BY <2>1, <2>3
<1>. QED BY <1>8, <1>9, <1>10 DEF More

LEMMA MoreRotate == ASSUME Inv, More, Rotate PROVE More'
<1> DEFINE start == writer.start + writer.written
<1> DEFINE e == [run |-> run, kind |-> "aof", start |-> start, size |-> 0,
                 src |-> writer.next, len |-> 0, linked |-> TRUE]
<1> DEFINE f == [file EXCEPT ![writer.id].len = writer.written]
<1>1. /\ file' = Append(f, e) /\ writer.at = "aofUp" /\ gc' = gc /\ run' = run
      /\ writer' = [writer EXCEPT !.id = Len(file) + 1, !.start = start, !.written = 0]
  BY DEF Rotate
<1>2. /\ writer.id = Len(file) /\ writer.id \in Files /\ file[writer.id].run = run
      /\ file[writer.id].start = writer.start /\ file[writer.id].kind = "aof"
      /\ writer.next = start
  BY <1>1 DEF Inv, WriterInv
<1>3. /\ file \in Seq(FileType) /\ file[writer.id] \in FileType /\ writer.written \in Nat
      /\ writer.start \in Nat /\ run \in Nat
  BY <1>2, Typing DEF Inv, Typed
<1>4. start \in Nat /\ writer.start <= start
  BY <1>3
<1>5. e \in FileType /\ e.start = start /\ e.run = run /\ e.kind = "aof" /\ e.linked
  BY <1>2, <1>3, <1>4 DEF FileType
<1> DEFINE g == [file[writer.id] EXCEPT !.len = writer.written]
<1>6. /\ f = [file EXCEPT ![writer.id] = g] /\ g \in FileType /\ g.run = file[writer.id].run
      /\ g.kind = file[writer.id].kind /\ g.start = file[writer.id].start
      /\ g.size = file[writer.id].size
  BY <1>3 DEF FileType
<1>7. /\ writer'.at = "aofUp" /\ writer'.id = Len(file) + 1 /\ writer'.start = start
  BY <1>1, WriterFields DEF Inv
<1>. HIDE DEF e, g, f, start
<1>8. /\ f \in Seq(FileType) /\ DOMAIN f = DOMAIN file /\ Len(f) = Len(file)
      /\ \A i \in DOMAIN file : f[i] = IF i = writer.id THEN g ELSE file[i]
  <2>1. writer.id \in DOMAIN file
    BY <1>2 DEF Files
  <2>. QED BY <2>1, <1>3, <1>6, Replaced
<1>9. \A i \in Files : /\ f[i].run = file[i].run /\ f[i].kind = file[i].kind
                       /\ f[i].start = file[i].start /\ f[i].size = file[i].size
  BY <1>6, <1>8 DEF Files
<1>10. /\ Files' = Files \union {Len(file) + 1} /\ file'[Len(file) + 1] = e
       /\ \A i \in Files : Named(i) /\ i # Len(file) + 1
  BY <1>1, <1>3, <1>5, <1>8, <1>9, NewName
<1>11. Streaming /\ Streaming'
  BY <1>1, <1>7 DEF Streaming
<1>12. run > 0 /\ Runs'
  <2>1. run > 0
    BY <1>2 DEF More, Runs
  <2>2. run' <= MaxRuns
    BY <1>1 DEF More, Runs
  <2>3. \A i \in Files' : file'[i].run > 0
    <3>. TAKE i \in Files'
    <3>1. CASE i = Len(file) + 1
      BY <2>1, <3>1, <1>5, <1>10
    <3>2. CASE i \in Files
      BY <3>2, <1>10 DEF More, Runs, Named
    <3>. QED BY <3>1, <3>2, <1>10
  <2>. QED BY <2>1, <2>2, <2>3 DEF Runs
<1>13. Segments'
  <2>. SUFFICES ASSUME NEW i \in Files', file'[i].run = run, file'[i].kind = "aof"
                PROVE  file'[i].start <= start
    BY <1>1, <1>7, <1>11 DEF Segments
  <2>1. CASE i = Len(file) + 1
    BY <2>1, <1>4, <1>5, <1>10
  <2>2. CASE i \in Files
    <3>1. file'[i].start <= writer.start /\ file'[i].start \in Nat
      BY <2>2, <1>10, Typing DEF More, Segments, Named
    <3>. QED BY <3>1, <1>3, <1>4
  <2>. QED BY <2>1, <2>2, <1>10
<1>14. Snapshots'
  <2>. SUFFICES ASSUME NEW i \in Files', NEW j \in Files', file'[i].run = run, file'[i].kind = "rdb",
                       file'[j].run = run, file'[j].kind = "aof"
                PROVE  file'[i].start + file'[i].size <= file'[j].start
    BY <1>1, <1>7, <1>11 DEF Snapshots
  <2>1. i \in Files /\ file[i].run = run /\ file[i].kind = "rdb"
    BY <1>5, <1>10 DEF Named
  <2>2. file'[i].start = file[i].start /\ file'[i].size = file[i].size
        /\ file[i].start \in Nat /\ file[i].size \in Nat
    BY <2>1, <1>10, Typing DEF Named
  <2>3. CASE j \in Files
    BY <2>1, <2>3, <1>10 DEF More, Snapshots, Named
  <2>4. CASE j = Len(file) + 1
    <3>1. file[i].start + file[i].size <= writer.start
      BY <2>1, <1>2 DEF More, Snapshots
    <3>. QED BY <2>2, <2>4, <3>1, <1>3, <1>4, <1>5, <1>10
  <2>. QED BY <2>3, <2>4, <1>10
<1>. QED BY <1>12, <1>13, <1>14 DEF More

\* The file of the writer gets longer.
LEMMA Longer ==
  ASSUME Inv, More, writer.at \in {"rdbUp", "aofUp"}, NEW l \in Nat,
         file' = [file EXCEPT ![writer.id].len = l], UNCHANGED <<run, gc>>,
         writer'.id = writer.id, writer'.start = writer.start, Streaming' <=> Streaming,
         writer'.at = "rdbDone" => writer'.written = file[writer.id].size
  PROVE  More'
<1>1. writer.id \in Files /\ file[writer.id] \in FileType
  BY Typing DEF Inv, WriterInv
<1>2. Files' = Files /\ \A i \in Files : Named(i)
  BY <1>1, Typing DEF Files, Named, FileType
<1>3. Runs' /\ Segments' /\ Snapshots'
  BY <1>1, <1>2, SameSegments
<1>. QED BY <1>3 DEF More

LEMMA MoreWrite == ASSUME Inv, More, NEW n \in Nat, Write(n) PROVE More'
<1>1. /\ writer' = [writer EXCEPT !.written = @ + n, !.next = @ + n]
      /\ writer.at \in {"rdbUp", "aofUp"} /\ UNCHANGED <<run, gc>>
  BY DEF Write
<1>2. /\ writer'.id = writer.id /\ writer'.start = writer.start /\ writer'.at = writer.at
      /\ writer'.written = writer.written + n
  BY <1>1, WriterFields DEF Inv
<1>3. file[writer.id].len \in Nat /\ writer'.written \in Nat
  BY <1>1, <1>2, Typing DEF Inv, WriterInv
<1>4. PICK l \in file[writer.id].len .. writer'.written : file' = [file EXCEPT ![writer.id].len = l]
  BY DEF Write
<1>5. l \in Nat
  BY <1>3, <1>4
<1>6. (Streaming' <=> Streaming) /\ writer'.at # "rdbDone"
  BY <1>1, <1>2 DEF Streaming
<1>. QED BY <1>1, <1>2, <1>4, <1>5, <1>6, Longer

LEMMA MoreFlush == ASSUME Inv, More, Flush PROVE More'
<1>1. /\ file' = [file EXCEPT ![writer.id].len = writer.written]
      /\ writer.at \in {"rdbUp", "aofUp"} /\ UNCHANGED <<run, gc>>
      /\ writer' = [writer EXCEPT
           !.at = IF @ = "rdbUp" /\ writer.written = file[writer.id].size THEN "rdbDone" ELSE @]
  BY DEF Flush
<1>2. /\ writer'.id = writer.id /\ writer'.start = writer.start /\ writer'.written = writer.written
      /\ writer'.at = IF writer.at = "rdbUp" /\ writer.written = file[writer.id].size
                      THEN "rdbDone" ELSE writer.at
  BY <1>1, WriterFields DEF Inv
<1>3. (Streaming' <=> Streaming)
      /\ (writer'.at = "rdbDone" => writer'.written = file[writer.id].size)
  BY <1>1, <1>2 DEF Streaming
<1>4. writer.written \in Nat
  BY Typing
<1>. QED BY <1>1, <1>2, <1>3, <1>4, Longer

LEMMA MoreRegister == ASSUME Inv, More, Register PROVE More'
<1>1. /\ writer.at \in {"rdb", "aof"} /\ UNCHANGED <<run, file, gc>> /\ Files' = Files
      /\ writer' = [writer EXCEPT !.at = IF @ = "rdb" THEN "rdbUp" ELSE "aofUp"]
  BY DEF Register, Files
<1>2. /\ writer'.id = writer.id /\ writer'.start = writer.start
      /\ writer'.at = IF writer.at = "rdb" THEN "rdbUp" ELSE "aofUp"
  BY <1>1, WriterFields DEF Inv
<1>3. (Streaming' <=> Streaming) /\ writer'.at # "rdbDone"
  BY <1>1, <1>2 DEF Streaming
<1>4. \A i \in Files : Named(i)
  BY <1>1 DEF Named
<1>5. Runs' /\ Segments' /\ Snapshots'
  BY <1>1, <1>2, <1>3, <1>4, SameSegments
<1>. QED BY <1>5 DEF More

LEMMA MoreGcDelete == ASSUME Inv, More, GcDelete PROVE More'
<1>1. PICK k \in GcNext : file' = [file EXCEPT ![k].linked = FALSE]
  BY DEF GcDelete
<1>2. UNCHANGED <<run, writer>> /\ k \in Files /\ file[k] \in FileType
  BY Typing DEF GcDelete, GcNext, Inv, Known
<1>3. Files' = Files /\ \A i \in Files : Named(i)
  BY <1>1, <1>2, Typing DEF Files, Named, FileType
<1>4. writer.at = "rdbDone" => writer.id \in Files /\ writer.written = file[writer.id].size
  BY DEF Inv, WriterInv, More, Snapshots
<1>. QED BY <1>2, <1>3, <1>4, SameSegments DEF Streaming, More

LEMMA MoreNext == Inv /\ More /\ [Next]_vars => More'
<1>. SUFFICES ASSUME Inv, More, [Next]_vars PROVE More'
  OBVIOUS
<1>0. 1 .. MaxLabel \subseteq Nat /\ 0 .. MaxLabel \subseteq Nat /\ RdbSizes \subseteq Nat
  BY StoreAssumption
<1>1. CASE Start
  BY <1>1, MoreStart
<1>2. ASSUME NEW start \in 0 .. MaxLabel, CreateAof(start) PROVE More'
  BY <1>0, <1>2, MoreCreateAof
<1>3. ASSUME NEW start \in 0 .. MaxLabel, NEW size \in RdbSizes, CreateRdb(start, size) PROVE More'
  BY <1>0, <1>3, MoreCreateRdb
<1>4. CASE Register
  BY <1>4, MoreRegister
<1>5. CASE Flush
  BY <1>5, MoreFlush
<1>6. CASE Rotate
  BY <1>6, MoreRotate
<1>7. ASSUME NEW n \in 1 .. MaxLabel, Write(n) PROVE More'
  BY <1>0, <1>7, MoreWrite
<1>8. ASSUME NEW n \in 1 .. MaxLabel, Read(n) PROVE More'
  BY <1>8, SameStore DEF Read
<1>9. ASSUME NEW o \in 0 .. MaxLabel, OpenReader(o) PROVE More'
  BY <1>9, SameStore DEF OpenReader
<1>10. CASE GcStart
  BY <1>10, SameStore DEF GcStart
<1>11. CASE GcDelete
  BY <1>11, MoreGcDelete
<1>12. CASE GcEnd
  BY <1>12, SameStore DEF GcEnd
<1>13. CASE ScanDir
  BY <1>13, SameStore DEF ScanDir
<1>16. CASE GcFails
  BY <1>16, SameStore DEF GcFails
<1>14. CASE ScanInstall
  BY <1>14, SameStore DEF ScanInstall
<1>15. CASE UNCHANGED vars
  BY <1>15, SameStore DEF vars
<1>. QED BY <1>1, <1>2, <1>3, <1>4, <1>5, <1>6, <1>7, <1>8, <1>9, <1>10, <1>11, <1>12, <1>13,
            <1>14, <1>15, <1>16 DEF Next

LEMMA MoreAlways == Spec => [](Inv /\ More)
<1>1. Init => Inv /\ More
  BY InvInit, MoreInit
<1>2. (Inv /\ More) /\ [Next]_vars => (Inv /\ More)'
  BY InvNext, MoreNext
<1>. QED BY <1>1, <1>2, PTL DEF Spec

\* get_reader, when only one run has the label.
LEMMA OnlyRun ==
  ASSUME NEW o, NEW r \in 1 .. MaxRuns, MaxRuns \in Nat, Hits(r, o) # {},
         \A s : Hits(s, o) # {} => s = r
  PROVE  Lookup(o) = Hits(r, o)
<1> DEFINE runs == {s \in 1 .. MaxRuns : Hits(s, o) # {}}
<1>1. runs = {r}
  OBVIOUS
<1>2. Min(runs) = r
  BY <1>1 DEF Min
<1>. QED BY <1>1, <1>2 DEF Lookup

\* However often files are rotated, and whatever crashes, gc and scans come between: the
\* start in the name of a file is the label of its first byte.
THEOREM NamesAreTrue == Spec => []NamesTellContents
<1>1. Inv => NamesTellContents
  BY DEF Inv
<1>. QED BY <1>1, InvAlways, PTL

\* check_rotation leaves no gap between a segment and the next one.
THEOREM RotationLosesNothing == Spec => []SegmentsTile
<1>1. Inv => SegmentsTile
  BY DEF Inv
<1>. QED BY <1>1, InvAlways, PTL

\* AofReader is at the byte of the label it counts, for as long as it is open.
THEOREM AofReadersAreFaithful == Spec => []AofReaderIsFaithful
<1>1. Inv => AofReaderIsFaithful
  BY DEF Inv, ReaderInv, AofReaderIsFaithful
<1>. QED BY <1>1, InvAlways, PTL

\* What the writer has flushed is available as soon as its file has an entry, for as long
\* as gc leaves the file there: no other file of the run is found before it.
THEOREM RegisteredFilesAreAvailable == Spec => []RegisteredIsAvailable
<1>1. Inv /\ More => RegisteredIsAvailable
  <2>. SUFFICES ASSUME Inv, More, writer.at = "aofUp", writer.id \in entries,
                       file[writer.id].linked, NEW o \in Flushed
                PROVE  Available(o)
    BY DEF RegisteredIsAvailable
  <2> DEFINE i == writer.id
  <2>1. /\ i \in Files /\ file[i].run = run /\ file[i].kind = "aof" /\ file[i].linked
        /\ file[i].start = writer.start
    BY DEF Inv, WriterInv, More, Streaming
  <2>2. /\ file[i].len \in Nat /\ file[i].start \in Nat /\ run \in Nat /\ MaxRuns \in Nat
        /\ run > 0 /\ run <= MaxRuns
    BY <2>1, Typing DEF More, Runs
  <2>3. o \in Int /\ file[i].start <= o /\ file[i].len - (o - file[i].start) > 0
    BY <2>1, <2>2 DEF Flushed
  <2>4. \A j \in OfRun(run, "aof") : file[i].start >= file[j].start
    <3>. SUFFICES ASSUME NEW j \in OfRun(run, "aof") PROVE file[i].start >= file[j].start
      OBVIOUS
    <3>1. j \in Files /\ file[j].run = run /\ file[j].kind = "aof"
      BY DEF OfRun, Inv, Known
    <3>2. file[j].start <= writer.start /\ file[j].start \in Nat
      BY <3>1, Typing DEF More, Segments
    <3>. QED BY <2>1, <2>2, <3>2
  <2>5. i \in FindAof(run, o)
    BY <2>1, <2>3, <2>4 DEF FindAof, OfRun
  <2>6. AofAvailable(i, o) \in RunAvailable(run, o) /\ AofAvailable(i, o) > 0
    BY <2>1, <2>3, <2>5 DEF RunAvailable, AofAvailable
  <2>. QED BY <2>2, <2>6 DEF Available
<1>. QED BY <1>1, MoreAlways, PTL

\* While the data set has only files of this run, available_bytes counts nothing that
\* get_reader would not open: the snapshot and the segments of a run do not overlap.
THEOREM AvailableFilesAreReadable == Spec => []AvailableIsReadable
<1>1. Inv /\ More => AvailableIsReadable
  <2>. SUFFICES ASSUME Inv, More, \A i \in entries : file[i].run = run, NEW o \in 0 .. MaxLabel,
                       Available(o)
                PROVE  Readable(o)
    BY DEF AvailableIsReadable
  <2>1. PICK r \in 1 .. MaxRuns : \E n \in RunAvailable(r, o) : n > 0
    BY DEF Available
  <2>2. \A s, kind : OfRun(s, kind) # {} => s = run
    BY DEF OfRun
  <2>3. \A s : Hits(s, o) # {} => s = run
    BY <2>2 DEF Hits, FindRdb, FindAof
  <2>4. o \in Nat /\ MaxRuns \in Nat
    BY Typing, StoreAssumption
  <2>5. ASSUME NEW i \in FindRdb(r, o), RdbAvailable(i, o) > 0 PROVE Readable(o)
    <3>1. file[i].linked /\ file[i].start + file[i].size > o /\ file[i].kind = "rdb" /\ i \in Files
      <4>1. i \in Files /\ file[i].kind = "rdb"
        BY <2>5 DEF FindRdb, OfRun, Inv, Known
      <4>2. file[i].linked
        BY <2>5 DEF RdbAvailable
      <4>3. file[i].start \in Nat /\ file[i].size \in Nat
        BY <4>1, Typing
      <4>. QED BY <4>1, <4>2, <4>3, <2>4, <2>5 DEF RdbAvailable
    <3>2. Hits(r, o) = FindRdb(r, o) /\ Hits(r, o) # {} /\ r = run
      BY <2>3, <2>5 DEF Hits
    <3>3. i \in Lookup(o)
      <4>1. (\A s : Hits(s, o) # {} => s = r) /\ Hits(r, o) # {}
        BY <2>3, <3>2
      <4>2. Lookup(o) = Hits(r, o)
        BY <2>4, <4>1, OnlyRun
      <4>. QED BY <4>2, <2>5, <3>2
    <3>. QED BY <2>4, <3>1, <3>3, Typing DEF Readable
  <2>6. ASSUME NEW i \in FindAof(r, o), AofAvailable(i, o) > 0 PROVE Readable(o)
    <3>1. i \in Files /\ file[i].kind = "aof" /\ file[i].run = r /\ file[i].start <= o
      BY <2>6 DEF FindAof, OfRun, Inv, Known
    <3>2. file[i].linked /\ o < file[i].start + file[i].len
      <4>1. file[i].linked
        BY <2>6 DEF AofAvailable
      <4>2. file[i].start \in Nat /\ file[i].len \in Nat
        BY <3>1, Typing
      <4>. QED BY <4>1, <4>2, <2>4, <2>6 DEF AofAvailable
    <3>3. r = run
      BY <2>2, <2>6 DEF FindAof
    <3>4. FindRdb(r, o) = {}
      <4>. SUFFICES ASSUME NEW j \in FindRdb(r, o) PROVE FALSE
        OBVIOUS
      <4>1. j \in Files /\ file[j].kind = "rdb" /\ file[j].run = run
            /\ o < file[j].start + file[j].size
        BY <3>3 DEF FindRdb, OfRun, Inv, Known
      <4>2. file[j].start + file[j].size <= file[i].start
        BY <3>1, <3>3, <4>1 DEF More, Snapshots
      <4>3. file[j].start \in Nat /\ file[j].size \in Nat /\ file[i].start \in Nat
        BY <3>1, <4>1, Typing
      <4>. QED BY <2>4, <3>1, <4>1, <4>2, <4>3
    <3>5. Hits(r, o) = FindAof(r, o) /\ Hits(r, o) # {}
      BY <2>6, <3>4 DEF Hits
    <3>6. i \in Lookup(o)
      <4>1. (\A s : Hits(s, o) # {} => s = r) /\ Hits(r, o) # {}
        BY <2>3, <3>3, <3>5
      <4>2. Lookup(o) = Hits(r, o)
        BY <2>4, <4>1, OnlyRun
      <4>. QED BY <4>2, <2>6, <3>5
    <3>. QED BY <3>1, <3>2, <3>6 DEF Readable
  <2>. QED BY <2>1, <2>5, <2>6 DEF RunAvailable
<1>. QED BY <1>1, MoreAlways, PTL

-----------------------------------------------------------------------------
(* What gc counts.  While it runs, the entries stay as they are and files  *)
(* only grow, so what it has still to delete is no more than what is left  *)
(* above max_size.                                                         *)

\* The bytes of the files of S, each as long as f says.
BytesOf(f, S) == UNION {{i} \X (1 .. f[i].len) : i \in S}

LEMMA BytesAre == ASSUME NEW f, NEW S
                  PROVE  \A b : b \in BytesOf(f, S) <=>
                                \E i \in S : \E k \in 1 .. f[i].len : b = <<i, k>>
  BY DEF BytesOf

LEMMA BytesFinite ==
  ASSUME NEW f, NEW S, IsFiniteSet(S), \A i \in S : f[i].len \in Nat
  PROVE  IsFiniteSet(BytesOf(f, S)) /\ Cardinality(BytesOf(f, S)) \in Nat
<1> DEFINE T == {{i} \X (1 .. f[i].len) : i \in S}
<1> DEFINE g == [i \in S |-> {i} \X (1 .. f[i].len)]
<1>1. g \in Surjection(S, T)
  BY DEF Surjection
<1>2. IsFiniteSet(T)
  BY <1>1, FS_Surjection
<1>3. ASSUME NEW t \in T PROVE IsFiniteSet(t)
  <2>1. PICK i \in S : t = {i} \X (1 .. f[i].len)
    OBVIOUS
  <2>2. IsFiniteSet({i})
    BY FS_Singleton
  <2>3. f[i].len \in Int /\ 1 \in Int
    OBVIOUS
  <2>4. IsFiniteSet(1 .. f[i].len)
    BY <2>3, FS_Interval
  <2>. QED BY <2>1, <2>2, <2>4, FS_Product
<1>4. IsFiniteSet(UNION T)
  BY <1>2, <1>3, FS_UNION
<1>. QED BY <1>4, FS_CardinalityType DEF BytesOf

\* Longer files have more bytes.
LEMMA BytesGrow ==
  ASSUME NEW f, NEW g, NEW S, IsFiniteSet(S),
         \A i \in S : f[i].len \in Nat /\ g[i].len \in Nat /\ f[i].len <= g[i].len
  PROVE  Cardinality(BytesOf(f, S)) <= Cardinality(BytesOf(g, S))
<1>1. IsFiniteSet(BytesOf(g, S))
  BY BytesFinite
<1>2. BytesOf(f, S) \subseteq BytesOf(g, S)
  <2>1. \A i \in S : 1 .. f[i].len \subseteq 1 .. g[i].len
    OBVIOUS
  <2>. QED BY <2>1 DEF BytesOf
<1>. QED BY <1>1, <1>2, FS_Subset

\* Without the file k there are no more than its bytes less.
LEMMA BytesWithout ==
  ASSUME NEW f, NEW S, IsFiniteSet(S), NEW k, \A i \in S : f[i].len \in Nat, f[k].len \in Nat
  PROVE  Cardinality(BytesOf(f, S)) <= Cardinality(BytesOf(f, S \ {k})) + f[k].len
<1> DEFINE A == BytesOf(f, S \ {k})
<1> DEFINE B == {k} \X (1 .. f[k].len)
<1>1. IsFiniteSet(S \ {k})
  BY FS_Subset
<1>2. IsFiniteSet(A) /\ Cardinality(A) \in Nat
  BY <1>1, BytesFinite
<1>3. IsFiniteSet({k}) /\ Cardinality({k}) = 1
  BY FS_Singleton
<1>4. IsFiniteSet(1 .. f[k].len) /\ Cardinality(1 .. f[k].len) = f[k].len
  <2>1. f[k].len \in Nat /\ f[k].len \in Int /\ 1 \in Int
    OBVIOUS
  <2>2. /\ IsFiniteSet(1 .. f[k].len)
        /\ Cardinality(1 .. f[k].len) = IF 1 > f[k].len THEN 0 ELSE f[k].len - 1 + 1
    BY <2>1, FS_Interval
  <2>. QED BY <2>1, <2>2
<1>5. IsFiniteSet(B) /\ Cardinality(B) = Cardinality({k}) * Cardinality(1 .. f[k].len)
  BY <1>3, <1>4, FS_Product
<1>6. Cardinality(B) = f[k].len
  BY <1>3, <1>4, <1>5
<1>7. BytesOf(f, S) \subseteq A \union B
  BY DEF BytesOf
<1>. HIDE DEF A, B
<1>8. /\ IsFiniteSet(A \union B)
      /\ Cardinality(A \union B) = Cardinality(A) + Cardinality(B) - Cardinality(A \cap B)
  BY <1>2, <1>5, FS_Union
<1>9. Cardinality(A \cap B) \in Nat
  BY <1>2, FS_Intersection, FS_CardinalityType
<1>10. Cardinality(BytesOf(f, S)) <= Cardinality(A \union B) /\ IsFiniteSet(BytesOf(f, S))
  BY <1>7, <1>8, FS_Subset
<1>11. Cardinality(BytesOf(f, S)) \in Nat
  BY <1>10, FS_CardinalityType
<1>. QED BY <1>2, <1>6, <1>8, <1>9, <1>10, <1>11 DEF A
-----------------------------------------------------------------------------
(* Every step but a deletion leaves the links alone and shortens no file.  *)

\* The file of the writer has at most what the writer has taken.
Buffered == IF writer.at = "none" THEN writer.id = 0 ELSE file[writer.id].len <= writer.written

Grown == \A i \in Files : /\ Named(i) /\ file'[i].linked = file[i].linked
                          /\ file'[i].len \in Nat /\ file[i].len <= file'[i].len

LEMMA SameGrows == ASSUME Inv, UNCHANGED file PROVE Grown
  BY Typing DEF Grown, Named, Files

\* A step that changes neither the files nor the writer.
LEMMA SameBuffered == ASSUME Buffered, UNCHANGED <<file, writer>> PROVE Buffered'
  BY DEF Buffered

\* A new file, which the writer has moved to.
LEMMA AppendGrows ==
  ASSUME Inv, NEW f \in Seq(FileType), NEW e \in FileType, file' = Append(f, e),
         DOMAIN f = DOMAIN file, Len(f) = Len(file),
         \A i \in Files : /\ f[i].run = file[i].run /\ f[i].kind = file[i].kind
                          /\ f[i].start = file[i].start /\ f[i].size = file[i].size
                          /\ f[i].linked = file[i].linked /\ file[i].len <= f[i].len
                          /\ f[i].len \in Nat,
         e.len = 0, writer'.id = Len(file) + 1, writer'.at # "none", writer'.written = 0
  PROVE  Grown /\ Buffered'
<1>1. file \in Seq(FileType) /\ Files = 1 .. Len(f)
  BY FilesAreNumbers DEF Inv, Typed
<1>2. /\ Files' = Files \union {Len(file) + 1} /\ file'[Len(file) + 1] = e
      /\ \A i \in Files : Named(i)
  BY <1>1, NewName
<1>3. \A i \in Files : file'[i] = f[i]
  BY <1>1, Appended
<1>4. Grown
  BY <1>2, <1>3 DEF Grown
<1>5. Buffered'
  BY <1>2 DEF Buffered
<1>. QED BY <1>4, <1>5

\* The file of the writer gets longer.
LEMMA LongerGrows ==
  ASSUME Inv, writer.at # "none", NEW l \in Nat, file[writer.id].len <= l,
         file' = [file EXCEPT ![writer.id].len = l], writer'.id = writer.id,
         writer'.at # "none", l <= writer'.written
  PROVE  Grown /\ Buffered'
<1>1. writer.id \in Files /\ file[writer.id] \in FileType
  BY Typing DEF Inv, WriterInv
<1>2. Files' = Files /\ \A i \in Files : Named(i) /\ file'[i].linked = file[i].linked
  BY <1>1, Typing DEF Files, Named, FileType
<1>3. \A i \in Files : file'[i].len = IF i = writer.id THEN l ELSE file[i].len
  BY <1>1, Typing DEF Files, FileType
<1>4. Grown
  <2>. SUFFICES ASSUME NEW i \in Files PROVE file'[i].len \in Nat /\ file[i].len <= file'[i].len
    BY <1>2 DEF Grown
  <2>1. file[i].len \in Nat
    BY Typing
  <2>. QED BY <2>1, <1>3
<1>5. Buffered'
  BY <1>1, <1>3 DEF Buffered
<1>. QED BY <1>4, <1>5

LEMMA StartGrows == ASSUME Inv, Start PROVE Grown /\ Buffered'
<1>1. file' = file /\ writer' = NoWriter
  BY DEF Start
<1>2. Buffered'
  BY <1>1 DEF Buffered, NoWriter
<1>. QED BY <1>1, <1>2, SameGrows

LEMMA CreateGrows ==
  ASSUME Inv, NEW kind \in {"rdb", "aof"}, NEW start \in Nat, NEW size \in Nat, NEW next \in Nat,
         Create(kind, start, size, next)
  PROVE  Grown /\ Buffered'
<1> DEFINE e == [run |-> run, kind |-> kind, start |-> start, size |-> size,
                 src |-> next, len |-> 0, linked |-> TRUE]
<1>1. file' = Append(file, e) /\ e.len = 0
  BY DEF Create
<1>2. writer'.id = Len(file) + 1 /\ writer'.at # "none" /\ writer'.written = 0
  BY DEF Create
<1>3. e \in FileType /\ file \in Seq(FileType)
  BY DEF FileType, Inv, Typed
<1>4. \A i \in Files : file[i].len <= file[i].len /\ file[i].len \in Nat
  BY Typing
<1>. HIDE DEF e
<1>. QED BY <1>1, <1>2, <1>3, <1>4, AppendGrows

LEMMA RotateGrows == ASSUME Inv, Buffered, Rotate PROVE Grown /\ Buffered'
<1> DEFINE e == [run |-> run, kind |-> "aof", start |-> writer.start + writer.written, size |-> 0,
                 src |-> writer.next, len |-> 0, linked |-> TRUE]
<1> DEFINE f == [file EXCEPT ![writer.id].len = writer.written]
<1>1. /\ file' = Append(f, e) /\ writer.at = "aofUp"
      /\ writer' = [writer EXCEPT !.id = Len(file) + 1, !.start = writer.start + writer.written,
                                  !.written = 0]
  BY DEF Rotate
<1>2. writer.id \in Files /\ writer.next = writer.start + writer.written
  BY <1>1 DEF Inv, WriterInv
<1>3. /\ file \in Seq(FileType) /\ file[writer.id] \in FileType /\ writer.written \in Nat
      /\ writer.start \in Nat /\ run \in Nat
  BY <1>2, Typing DEF Inv, Typed
<1>4. e \in FileType /\ e.len = 0
  BY SMTT(20), <1>2, <1>3 DEF FileType
<1> DEFINE g == [file[writer.id] EXCEPT !.len = writer.written]
<1>5. /\ f = [file EXCEPT ![writer.id] = g] /\ g \in FileType /\ g.run = file[writer.id].run
      /\ g.kind = file[writer.id].kind /\ g.start = file[writer.id].start
      /\ g.size = file[writer.id].size /\ g.linked = file[writer.id].linked
      /\ g.len = writer.written
  BY <1>3 DEF FileType
<1>6. writer'.id = Len(file) + 1 /\ writer'.at # "none" /\ writer'.written = 0
  <2>1. writer' = [at |-> writer.at, id |-> Len(file) + 1, start |-> writer.start + writer.written,
                   written |-> 0, next |-> writer.next]
    BY <1>1, WriterFields DEF Inv
  <2>. QED BY <2>1, <1>1
<1>. HIDE DEF e, g, f
<1>7. /\ f \in Seq(FileType) /\ DOMAIN f = DOMAIN file /\ Len(f) = Len(file)
      /\ \A i \in DOMAIN file : f[i] = IF i = writer.id THEN g ELSE file[i]
  <2>1. writer.id \in DOMAIN file
    BY <1>2 DEF Files
  <2>. QED BY <2>1, <1>3, <1>5, Replaced
<1>8. file[writer.id].len <= writer.written
  BY <1>1 DEF Buffered
<1>9. \A i \in Files : /\ f[i].run = file[i].run /\ f[i].kind = file[i].kind
                       /\ f[i].start = file[i].start /\ f[i].size = file[i].size
                       /\ f[i].linked = file[i].linked /\ file[i].len <= f[i].len
                       /\ f[i].len \in Nat
  <2>. TAKE i \in Files
  <2>1. file[i].len \in Nat /\ f[i] = IF i = writer.id THEN g ELSE file[i]
    BY <1>7, Typing DEF Files
  <2>. QED BY <2>1, <1>3, <1>5, <1>8
<1>. QED BY <1>1, <1>4, <1>6, <1>7, <1>9, AppendGrows

LEMMA WriteGrows == ASSUME Inv, Buffered, NEW n \in Nat, Write(n) PROVE Grown /\ Buffered'
<1>1. /\ writer' = [writer EXCEPT !.written = @ + n, !.next = @ + n]
      /\ writer.at \in {"rdbUp", "aofUp"}
  BY DEF Write
<1>2. writer'.id = writer.id /\ writer'.at = writer.at /\ writer'.written = writer.written + n
  BY <1>1, WriterFields DEF Inv
<1>3. PICK l \in file[writer.id].len .. writer'.written : file' = [file EXCEPT ![writer.id].len = l]
  BY DEF Write
<1>4. file[writer.id].len \in Nat /\ writer'.written \in Nat
  BY <1>1, <1>2, Typing DEF Inv, WriterInv
<1>5. l \in Nat /\ file[writer.id].len <= l /\ l <= writer'.written
  BY <1>3, <1>4
<1>6. writer.at # "none" /\ writer'.at # "none"
  BY <1>1, <1>2
<1>. QED BY <1>2, <1>3, <1>5, <1>6, LongerGrows

LEMMA FlushGrows == ASSUME Inv, Buffered, Flush PROVE Grown /\ Buffered'
<1>1. /\ file' = [file EXCEPT ![writer.id].len = writer.written]
      /\ writer.at \in {"rdbUp", "aofUp"}
      /\ writer' = [writer EXCEPT
           !.at = IF @ = "rdbUp" /\ writer.written = file[writer.id].size THEN "rdbDone" ELSE @]
  BY DEF Flush
<1>2. /\ writer'.id = writer.id /\ writer'.written = writer.written
      /\ writer'.at = IF writer.at = "rdbUp" /\ writer.written = file[writer.id].size
                      THEN "rdbDone" ELSE writer.at
  BY <1>1, WriterFields DEF Inv
<1>3. writer.at # "none" /\ writer'.at # "none"
  BY <1>1, <1>2
<1>4. file[writer.id].len <= writer.written /\ writer.written \in Nat
  BY <1>3, Typing DEF Buffered
<1>5. writer.written <= writer'.written
  BY <1>2, <1>4
<1>. QED BY <1>1, <1>2, <1>3, <1>4, <1>5, LongerGrows

LEMMA RegisterGrows == ASSUME Inv, Buffered, Register PROVE Grown /\ Buffered'
<1>1. /\ writer' = [writer EXCEPT !.at = IF @ = "rdb" THEN "rdbUp" ELSE "aofUp"] /\ file' = file
      /\ writer.at # "none"
  BY DEF Register
<1>2. writer'.at # "none" /\ writer'.id = writer.id /\ writer'.written = writer.written
  BY <1>1, WriterFields DEF Inv
<1>3. Buffered'
  BY <1>1, <1>2 DEF Buffered
<1>. QED BY <1>1, <1>3, SameGrows
\* No step but GcDelete takes a link away or shortens a file.
LEMMA GrownNext ==
  ASSUME Inv, Buffered, [Next]_vars, ~GcDelete
  PROVE  Grown /\ Buffered'
<1>0. 1 .. MaxLabel \subseteq Nat /\ 0 .. MaxLabel \subseteq Nat /\ RdbSizes \subseteq Nat
  BY StoreAssumption
<1>1. CASE Start
  BY <1>1, StartGrows
<1>2. ASSUME NEW start \in 0 .. MaxLabel, CreateAof(start) PROVE Grown /\ Buffered'
  <2>1. Create("aof", start, 0, start) /\ start \in Nat
    BY <1>0, <1>2 DEF CreateAof
  <2>. QED BY <2>1, CreateGrows
<1>3. ASSUME NEW start \in 0 .. MaxLabel, NEW size \in RdbSizes, CreateRdb(start, size)
      PROVE  Grown /\ Buffered'
  <2>1. Create("rdb", start, size, start) /\ start \in Nat /\ size \in Nat
    BY <1>0, <1>3 DEF CreateRdb
  <2>. QED BY <2>1, CreateGrows
<1>4. CASE Register
  BY <1>4, RegisterGrows
<1>5. CASE Flush
  BY <1>5, FlushGrows
<1>6. CASE Rotate
  BY <1>6, RotateGrows
<1>7. ASSUME NEW n \in 1 .. MaxLabel, Write(n) PROVE Grown /\ Buffered'
  BY <1>0, <1>7, WriteGrows
<1>8. CASE UNCHANGED <<file, writer>>
  BY <1>8, SameGrows, SameBuffered
<1>9. (\E n \in 1 .. MaxLabel : Read(n)) => UNCHANGED <<file, writer>>
  BY DEF Read
<1>10. (\E o \in 0 .. MaxLabel : OpenReader(o)) => UNCHANGED <<file, writer>>
  BY DEF OpenReader
<1>11. GcStart \/ GcFails \/ GcEnd \/ ScanDir \/ ScanInstall \/ UNCHANGED vars => UNCHANGED <<file, writer>>
  BY DEF GcStart, GcFails, GcEnd, ScanDir, ScanInstall, vars
<1>. QED BY <1>1, <1>2, <1>3, <1>4, <1>5, <1>6, <1>7, <1>8, <1>9, <1>10, <1>11 DEF Next

-----------------------------------------------------------------------------
(* What gc has still to delete.                                            *)

Linked == {j \in entries : file[j].linked}

\* What gc may remove and is still there, is on its list; what is left, and once more what
\* is listed twice, is above max_size by no less than what it has still to delete.
Collecting ==
  /\ gc.todo \subseteq Deletable
  /\ \A j \in Deletable : file[j].linked => j \in gc.todo
  /\ gc.target - gc.deleted + MaxSize <= Sizes(Linked) + Sizes(again)

GcType == [at : {"none", "run", "failed"}, todo : SUBSET Files, target : Int, deleted : Nat]

Counts == gc \in GcType /\ (gc.at = "run" => Collecting)

LEMMA EntriesFinite ==
  ASSUME Inv, NEW S \in SUBSET entries
  PROVE  /\ IsFiniteSet(S) /\ \A i \in S : file[i].len \in Nat
         /\ Sizes(S) = Cardinality(BytesOf(file, S)) /\ Sizes(S) \in Nat
<1>1. Files = 1 .. Len(file) /\ Len(file) \in Int /\ 1 \in Int
  BY FilesAreNumbers DEF Inv
<1>2. IsFiniteSet(Files)
  BY <1>1, FS_Interval
<1>3. S \in SUBSET Files
  BY DEF Inv, Known
<1>4. IsFiniteSet(S)
  BY <1>2, <1>3, FS_Subset
<1>5. \A i \in S : file[i].len \in Nat
  BY <1>3, Typing
<1>6. Sizes(S) = Cardinality(BytesOf(file, S))
  BY DEF Sizes, Bytes, BytesOf
<1>7. Cardinality(BytesOf(file, S)) \in Nat
  BY <1>4, <1>5, BytesFinite
<1>. QED BY <1>4, <1>5, <1>6, <1>7

\* The names of the entries tell which files gc may remove.
LEMMA SameDeletable ==
  ASSUME Inv, UNCHANGED <<entries, again>>, \A i \in Files : Named(i)
  PROVE  Deletable' = Deletable
  BY DEF Deletable, Early, OfRun, Named, Inv, Known

\* Sizes only grow while nothing is removed.
LEMMA SizesGrow ==
  ASSUME Inv, Grown, NEW S \in SUBSET entries, NEW T, T = S,
         NEW n, n = Cardinality(BytesOf(file', T))
  PROVE  Sizes(S) <= n /\ n \in Nat /\ Sizes(S) \in Nat
<1>1. /\ IsFiniteSet(S) /\ \A i \in S : file[i].len \in Nat
      /\ Sizes(S) = Cardinality(BytesOf(file, S)) /\ Sizes(S) \in Nat
  BY EntriesFinite
<1>2. \A i \in S : file[i].len \in Nat /\ file'[i].len \in Nat /\ file[i].len <= file'[i].len
  BY <1>1 DEF Grown, Inv, Known
<1>3. Cardinality(BytesOf(file, S)) <= Cardinality(BytesOf(file', S))
  BY <1>1, <1>2, BytesGrow
<1>4. Cardinality(BytesOf(file', S)) \in Nat
  BY <1>1, <1>2, BytesFinite
<1>. QED BY <1>1, <1>3, <1>4

LEMMA CountsGrown ==
  ASSUME Inv, Counts, Grown, UNCHANGED <<entries, again, gc>>
  PROVE  Counts'
<1>0. Files \subseteq Files'
  BY DEF Grown, Named
<1>1. gc' \in GcType'
  BY <1>0 DEF Counts, GcType
<1>. SUFFICES ASSUME gc.at = "run" PROVE Collecting'
  BY <1>1 DEF Counts
<1>2. Collecting
  BY DEF Counts
<1>3. Deletable' = Deletable /\ Deletable \subseteq Files
  BY SameDeletable DEF Grown, Deletable, Inv, Known
<1>4. Linked' = Linked /\ Linked \in SUBSET entries /\ again \in SUBSET entries
  BY DEF Linked, Grown, Inv, Known
<1>5. Sizes(Linked)' = Cardinality(BytesOf(file', Linked))
  BY <1>4 DEF Sizes, Bytes, BytesOf
<1>6. Sizes(again)' = Cardinality(BytesOf(file', again))
  BY DEF Sizes, Bytes, BytesOf
<1>7. Sizes(Linked) <= Sizes(Linked)' /\ Sizes(Linked)' \in Nat /\ Sizes(Linked) \in Nat
  BY <1>4, <1>5, SizesGrow
<1>8. Sizes(again) <= Sizes(again)' /\ Sizes(again)' \in Nat /\ Sizes(again) \in Nat
  BY <1>4, <1>6, SizesGrow
<1>9. gc.target - gc.deleted + MaxSize \in Int /\ gc' = gc
  BY StoreAssumption DEF Counts, GcType
<1>10. (gc.target - gc.deleted + MaxSize)' <= (Sizes(Linked) + Sizes(again))'
  BY <1>2, <1>7, <1>8, <1>9 DEF Collecting
<1>11. \A j \in Deletable' : file'[j].linked => j \in gc'.todo
  BY <1>2, <1>3 DEF Collecting, Grown
<1>12. gc'.todo \subseteq Deletable'
  BY <1>2, <1>3 DEF Collecting
<1>. QED BY <1>10, <1>11, <1>12 DEF Collecting

LEMMA CountsGcStart == ASSUME Inv, Counts, GcStart PROVE Counts'
<1>1. UNCHANGED <<file, entries, again>> /\ Files' = Files
  BY DEF GcStart, Files
<1>2. Sizes(entries) \in Nat /\ Sizes(again) \in Nat /\ MaxSize \in Nat
  BY EntriesFinite, StoreAssumption DEF Inv, Known
<1>3. Deletable \subseteq Files /\ Deletable' = Deletable
  BY <1>1 DEF Deletable, Early, OfRun, Inv, Known
<1>4. CASE gc' = [NoGc EXCEPT !.at = "failed"] \/ gc' = NoGc
  BY <1>1, <1>4 DEF Counts, GcType, NoGc
<1>5. CASE /\ gc' = [at |-> "run", todo |-> Deletable, target |-> Total - MaxSize, deleted |-> 0]
           /\ \A i \in entries : file[i].linked
  <2>1. /\ Linked = entries /\ Sizes(Linked)' = Sizes(entries)
        /\ Sizes(again)' = Sizes(again)
    BY <1>1, <1>5 DEF Linked, Sizes, Bytes
  <2>2. gc'.target - gc'.deleted + MaxSize = Sizes(entries) + Sizes(again)
    BY <1>2, <1>5 DEF Total
  <2>3. gc'.target - gc'.deleted + MaxSize <= (Sizes(Linked) + Sizes(again))'
    BY <1>2, <2>1, <2>2
  <2>4. gc' \in GcType'
    BY <1>1, <1>2, <1>3, <1>5 DEF GcType, Total
  <2>5. gc'.todo = Deletable'
    BY <1>3, <1>5
  <2>. QED BY <2>3, <2>4, <2>5 DEF Counts, Collecting
<1>. QED BY <1>4, <1>5 DEF GcStart

LEMMA CountsGcDelete == ASSUME Inv, Counts, GcDelete PROVE Counts'
<1> DEFINE rest(k) == IF k \in again /\ Early(k) THEN gc.todo ELSE gc.todo \ {k}
<1>1. PICK k \in GcNext :
        /\ file' = [file EXCEPT ![k].linked = FALSE]
        /\ gc' = [gc EXCEPT !.todo = rest(k), !.deleted = @ + file[k].len]
  BY DEF GcDelete
<1>2. UNCHANGED <<entries, again>> /\ gc.at = "run" /\ Collecting /\ gc \in GcType /\ k \in gc.todo
  BY DEF GcDelete, GcNext, Counts
<1>3. k \in Files /\ file[k] \in FileType /\ file[k].len \in Nat
  BY <1>2, Typing DEF Inv, Known
<1>4. /\ Files' = Files /\ \A i \in Files : Named(i) /\ file'[i].len = file[i].len
      /\ \A i \in Files : file'[i].linked <=> (i # k /\ file[i].linked)
  BY <1>1, <1>3, Typing DEF Files, Named, FileType
<1>r. rest(k) \subseteq gc.todo /\ gc.todo \ {k} \subseteq rest(k)
  OBVIOUS
<1>. HIDE DEF rest
<1>5. /\ gc'.todo = rest(k) /\ gc'.target = gc.target /\ gc'.at = gc.at
      /\ gc'.deleted = gc.deleted + file[k].len /\ gc' \in GcType'
  <2>1. gc' = [at |-> gc.at, todo |-> rest(k), target |-> gc.target,
               deleted |-> gc.deleted + file[k].len]
    BY <1>1, <1>2 DEF GcType
  <2>. QED BY <2>1, <1>2, <1>3, <1>4, <1>r DEF GcType
<1>6. Deletable' = Deletable /\ Deletable \subseteq Files
  BY <1>2, <1>4, SameDeletable DEF Deletable, Inv, Known
<1>7. /\ Linked' = Linked \ {k} /\ Linked \in SUBSET entries /\ Linked \subseteq Files
      /\ again \in SUBSET entries /\ again \subseteq Files
  BY <1>2, <1>4 DEF Linked, Inv, Known
<1>8. Sizes(Linked)' = Cardinality(BytesOf(file, Linked \ {k}))
  BY <1>2, <1>4, <1>7 DEF Sizes, Bytes, BytesOf
<1>a. Sizes(again)' = Sizes(again) /\ Sizes(again) \in Nat
  <2>1. Sizes(again)' = Sizes(again)
    BY <1>2, <1>4, <1>7 DEF Sizes, Bytes
  <2>. QED BY <2>1, <1>7, EntriesFinite
<1>9. Cardinality(BytesOf(file, Linked)) <= Cardinality(BytesOf(file, Linked \ {k})) + file[k].len
  <2>1. IsFiniteSet(Linked) /\ \A i \in Linked : file[i].len \in Nat
    BY <1>7, EntriesFinite
  <2>. QED BY <1>3, <2>1, BytesWithout
<1>10. Sizes(Linked) = Cardinality(BytesOf(file, Linked)) /\ Sizes(Linked) \in Nat
  BY <1>7, EntriesFinite
<1>11. Cardinality(BytesOf(file, Linked \ {k})) \in Nat
  BY <1>7, EntriesFinite
<1>12. /\ gc.target \in Int /\ gc.deleted \in Nat /\ MaxSize \in Nat
       /\ gc.target - gc.deleted + MaxSize <= Sizes(Linked) + Sizes(again)
  BY <1>2, StoreAssumption DEF GcType, Collecting
<1>13. gc'.target - gc'.deleted + MaxSize <= Sizes(Linked)' + Sizes(again)'
  BY <1>3, <1>5, <1>8, <1>9, <1>10, <1>11, <1>12, <1>a
<1>14. \A j \in Deletable' : file'[j].linked => j \in gc'.todo
  BY <1>2, <1>4, <1>5, <1>6, <1>r DEF Collecting
<1>15. gc'.todo \subseteq Deletable'
  BY <1>2, <1>5, <1>6, <1>r DEF Collecting
<1>. QED BY <1>5, <1>13, <1>14, <1>15 DEF Counts, Collecting

\* No gc is running after the step, or none was and none is begun.
LEMMA CountsIdle ==
  ASSUME Counts, Files \subseteq Files', gc' = NoGc \/ gc' = [NoGc EXCEPT !.at = "failed"]
           \/ (gc' = gc /\ gc.at # "run")
  PROVE  Counts'
<1>1. gc' \in GcType' /\ gc'.at # "run"
  BY DEF Counts, GcType, NoGc
<1>. QED BY <1>1 DEF Counts

LEMMA CountsNext == ASSUME Inv, Buffered, Counts, [Next]_vars PROVE Counts'
<1>1. CASE GcDelete
  BY <1>1, CountsGcDelete
<1>2. CASE GcStart
  BY <1>2, CountsGcStart
<1>3. CASE ~GcDelete /\ UNCHANGED <<entries, again, gc>>
  BY <1>3, GrownNext, CountsGrown
<1>4. ASSUME Start \/ GcFails \/ GcEnd \/ Register \/ ScanInstall PROVE Counts'
  <2>1. Files' = Files
    BY <1>4 DEF Start, GcFails, GcEnd, Register, ScanInstall, Files
  <2>2. gc' = NoGc \/ gc' = [NoGc EXCEPT !.at = "failed"] \/ (gc' = gc /\ gc.at # "run")
    BY <1>4 DEF Start, GcFails, GcEnd, Register, ScanInstall
  <2>. QED BY <2>1, <2>2, CountsIdle
<1>5. (\E start \in 0 .. MaxLabel : CreateAof(start) \/ \E size \in RdbSizes : CreateRdb(start, size))
        => UNCHANGED <<entries, again, gc>>
  BY DEF CreateAof, CreateRdb
<1>6. (\E n \in 1 .. MaxLabel : Write(n) \/ Read(n)) => UNCHANGED <<entries, again, gc>>
  BY DEF Write, Read
<1>7. (\E o \in 0 .. MaxLabel : OpenReader(o)) => UNCHANGED <<entries, again, gc>>
  BY DEF OpenReader
<1>8. Flush \/ Rotate \/ ScanDir \/ UNCHANGED vars => UNCHANGED <<entries, again, gc>>
  BY DEF Flush, Rotate, ScanDir, vars
<1>. QED BY <1>1, <1>2, <1>3, <1>4, <1>5, <1>6, <1>7, <1>8 DEF Next

\* The reader does not stand before the beginning of its file.
Shape == reader.pos \in Nat /\ scan \in [on : BOOLEAN, ids : SUBSET Files]

LEMMA ShapeNext == ASSUME Inv, Buffered, Shape, [Next]_vars PROVE Shape'
<1>1. Files \subseteq Files'
  <2>1. CASE GcDelete
    <3>1. PICK k \in GcNext : file' = [file EXCEPT ![k].linked = FALSE]
      BY <2>1 DEF GcDelete
    <3>. QED BY <3>1 DEF Files
  <2>2. CASE ~GcDelete
    BY <2>2, GrownNext DEF Grown, Named
  <2>. QED BY <2>1, <2>2
<1>2. scan' \in [on : BOOLEAN, ids : SUBSET Files']
  <2>1. CASE UNCHANGED scan
    BY <2>1, <1>1 DEF Shape
  <2>2. CASE Start \/ ScanInstall
    <3>1. scan' = [on |-> FALSE, ids |-> {}]
      BY <2>2 DEF Start, ScanInstall, NoScan
    <3>. QED BY <3>1
  <2>3. CASE ScanDir
    BY <2>3, <1>1 DEF ScanDir
  <2>. QED BY <2>1, <2>2, <2>3 DEF Next, vars, CreateAof, CreateRdb, Register, Flush, Rotate, Write,
       Read, OpenReader, GcStart, GcDelete, GcFails, GcEnd
<1>3. reader'.pos \in Nat
  <2>1. CASE UNCHANGED reader
    BY <2>1 DEF Shape
  <2>2. CASE Start
    BY <2>2 DEF Start, NoReader
  <2>3. ASSUME NEW n \in 1 .. MaxLabel, Read(n) PROVE reader'.pos \in Nat
    <3>1. reader'.pos = reader.pos + n
      BY <2>3, ReaderFields DEF Read, Inv
    <3>2. n \in Nat /\ reader.pos \in Nat
      BY StoreAssumption DEF Shape
    <3>. QED BY <3>1, <3>2
  <2>4. ASSUME NEW o \in 0 .. MaxLabel, OpenReader(o) PROVE reader'.pos \in Nat
    <3>1. PICK i \in Lookup(o) : reader'.pos = OpenPos(i, o)
      BY <2>4 DEF OpenReader
    <3>2. i \in Files /\ file[i].start \in Nat /\ o \in Nat
      BY LookupIsEntry, Typing, StoreAssumption DEF Inv, Known
    <3>3. file[i].kind # "rdb" => file[i].start <= o
      BY <3>1 DEF Lookup, Hits, FindRdb, FindAof, OfRun
    <3>. QED BY <3>1, <3>2, <3>3 DEF OpenPos
  <2>. QED BY <2>1, <2>2, <2>3, <2>4 DEF Next, vars, CreateAof, CreateRdb, Register, Flush, Rotate,
       Write, GcStart, GcDelete, GcFails, GcEnd, ScanDir, ScanInstall
<1>. QED BY <1>2, <1>3 DEF Shape

LEMMA BufferedNext == ASSUME Inv, Buffered, [Next]_vars PROVE Buffered'
<1>1. CASE GcDelete
  <2>1. PICK k \in GcNext : file' = [file EXCEPT ![k].linked = FALSE]
    BY <1>1 DEF GcDelete
  <2>2. UNCHANGED writer
    BY <1>1 DEF GcDelete
  <2>3. CASE writer.at = "none"
    BY <2>2, <2>3 DEF Buffered
  <2>4. CASE writer.at # "none"
    <3>1. writer.id \in Files /\ file[writer.id] \in FileType
      BY <2>4, Typing DEF Inv, WriterInv
    <3>2. file'[writer.id].len = file[writer.id].len
      BY <2>1, <3>1 DEF Files, FileType
    <3>. QED BY <2>2, <2>4, <3>2 DEF Buffered
  <2>. QED BY <2>3, <2>4
<1>2. CASE ~GcDelete
  BY <1>2, GrownNext
<1>. QED BY <1>1, <1>2

LEMMA CountsAlways == Spec => [](Inv /\ Buffered /\ Counts /\ Shape)
<1>1. Init => Inv /\ Buffered /\ Counts /\ Shape
  <2>. SUFFICES ASSUME Init PROVE Buffered /\ Counts /\ Shape
    BY InvInit
  <2>. QED BY DEF Init, Buffered, Counts, GcType, Shape, NoWriter, NoReader, NoGc, NoScan
<1>2. (Inv /\ Buffered /\ Counts /\ Shape) /\ [Next]_vars => (Inv /\ Buffered /\ Counts /\ Shape)'
  BY InvNext, BufferedNext, CountsNext, ShapeNext
<1>. QED BY <1>1, <1>2, PTL DEF Spec

\* The type of every variable, as the run checks it.
THEOREM FileStoreTypeCorrect == Spec => []TypeOK
<1>1. Inv /\ Buffered /\ Counts /\ Shape => TypeOK
  <2>. SUFFICES ASSUME Inv, Buffered, Counts, Shape PROVE TypeOK
    OBVIOUS
  <2>1. run \in Nat /\ file \in Seq(FileType) /\ entries \subseteq Files /\ again \subseteq entries
    BY DEF Inv, Typed, Known
  <2>2. writer.id \in Files \union {0}
    BY DEF Inv, WriterInv, Buffered
  <2>3. writer \in [at : {"none", "rdb", "rdbUp", "rdbDone", "aof", "aofUp"},
                    id : Files \union {0}, start : Nat, written : Nat, next : Nat]
    BY <2>2, WriterFields DEF Inv, WriterAt
  <2>4. reader \in [id : Files \union {0}, end : Nat, cur : Nat, pos : Nat]
    <3>1. reader.id \in Files \union {0} /\ reader.pos \in Nat
      BY DEF Inv, ReaderInv, Shape
    <3>. QED BY <3>1, ReaderFields DEF Inv
  <2>. QED BY <2>1, <2>3, <2>4 DEF TypeOK, Counts, GcType, Shape
<1>. QED BY <1>1, CountsAlways, PTL

\* do_gc removes a file only while what it has left, as it counts, is above max_size; the
\* oldest it may remove first; and the newest segment it knows of a run only if that is
\* listed twice: however the files grow, are rotated and read while it runs.
THEOREM GcRemovesOldestFirst == Spec => GcOldestFirst
<1> DEFINE Step == \A i \in Files : file[i].linked /\ ~file'[i].linked =>
      /\ Sizes({j \in entries : file[j].linked}) + Sizes(again) > MaxSize
      /\ \A j \in Deletable : file[j].linked => i <= j
      /\ Early(i) \/ i \in again
<1>1. (Inv /\ Buffered /\ Counts /\ Shape) /\ [Next]_vars => [Step]_vars
  <2>. SUFFICES ASSUME Inv, Buffered, Counts, [Next]_vars,
                       NEW i \in Files, file[i].linked, ~file'[i].linked
                PROVE  /\ Sizes(Linked) + Sizes(again) > MaxSize
                       /\ \A j \in Deletable : file[j].linked => i <= j
                       /\ Early(i) \/ i \in again
    BY DEF Linked
  <2>1. GcDelete
    BY GrownNext DEF Grown
  <2>2. PICK k \in GcNext : file' = [file EXCEPT ![k].linked = FALSE]
    BY <2>1 DEF GcDelete
  <2>3. i = k
    BY <2>2, Typing DEF Files, FileType
  <2>4. Collecting /\ gc \in GcType /\ gc.deleted < gc.target
    BY <2>1 DEF GcDelete, Counts
  <2>5. Sizes(Linked) + Sizes(again) > MaxSize
    <3>1. Linked \in SUBSET entries /\ again \in SUBSET entries
      BY DEF Linked, Inv, Known
    <3>2. Sizes(Linked) \in Nat /\ Sizes(again) \in Nat
      BY <3>1, EntriesFinite
    <3>3. gc.target \in Int /\ gc.deleted \in Nat /\ MaxSize \in Nat
      BY <2>4, StoreAssumption DEF GcType
    <3>. QED BY <2>4, <3>2, <3>3 DEF Collecting
  <2>6. \A j \in Deletable : file[j].linked => i <= j
    BY <2>2, <2>3, <2>4 DEF GcNext, Collecting
  <2>7. i \in Deletable
    BY <2>2, <2>3, <2>4 DEF GcNext, Collecting
  <2>. QED BY <2>5, <2>6, <2>7 DEF Deletable
<1>2. Spec => [][Step]_vars
  BY <1>1, CountsAlways, PTL DEF Spec
<1>. QED BY <1>2 DEF GcOldestFirst
=============================================================================
