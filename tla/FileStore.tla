------------------------------ MODULE FileStore ------------------------------
(***************************************************************************)
(* FileStorer and its data set (store/): the RDB and AOF files of all runs *)
(* of the process, the entries in memory that name them, the writer of the *)
(* Input task, a reader of the forwarding task, garbage collection and the *)
(* scan of the directory.  Rotation, gc and the scan are operations of the *)
(* interface that main() does not call; Ops says which ones are.           *)
(*                                                                         *)
(* A byte is the label (global offset) it was received under.  A file is a *)
(* number, in the order of creation, which is also its time of creation;   *)
(* its name tells run, kind, start and, of an RDB file, the declared size; *)
(* its contents are the len labels from src on.                            *)
(***************************************************************************)
EXTENDS Integers, FiniteSets, Sequences, FiniteSetsExt

CONSTANTS
  MaxRuns,     \* bound: starts of the process, each with a run id of its own
  MaxLabel,    \* bound: labels given out
  RdbSizes,    \* sizes of RDB files
  LogSize,     \* config.log_size
  MaxSize,     \* config.max_size
  Ops          \* the operations called beside writing and reading

ASSUME StoreAssumption ==
  /\ MaxRuns \in Nat /\ MaxLabel \in Nat /\ MaxSize \in Nat
  /\ LogSize \in Nat \ {0} /\ RdbSizes \subseteq Nat \ {0}
  /\ Ops \subseteq {"rdb", "rotate", "scan", "gc"}

VARIABLES
  run,      \* the run id of this process
  file,     \* the files ever created; linked while a directory names them
  entries,  \* the data set: the files it has an entry for
  again,    \* those of them it lists twice: a Vec that nobody searches before a push
  writer,   \* the writer of the Input task
  reader,   \* the reader of the forwarding task
  gc,       \* do_gc, which holds the read lock of the data set
  scan      \* scan_from_dir: what it has listed, before it replaces the data set

vars == <<run, file, entries, again, writer, reader, gc, scan>>

Files == DOMAIN file
NoWriter == [at |-> "none", id |-> 0, start |-> 0, written |-> 0, next |-> 0]
NoReader == [id |-> 0, end |-> 0, cur |-> 0, pos |-> 0]
NoGc     == [at |-> "none", todo |-> {}, target |-> 0, deleted |-> 0]
NoScan   == [on |-> FALSE, ids |-> {}]

OfRun(r, kind) == {i \in entries : file[i].run = r /\ file[i].kind = kind}

-----------------------------------------------------------------------------
(* Finding a label.                                                        *)

\* DataSet::find_rdb: the first entry whose range has the label.
FindRdb(r, o) ==
  LET hit == {i \in OfRun(r, "rdb") : file[i].start <= o /\ o < file[i].start + file[i].size}
  IN  {i \in hit : \A j \in hit : file[i].start <= file[j].start}

\* Mutant of FindAof: the label a segment begins with is not found in it.
FindAofStrict(r, o) ==
  LET hit == {i \in OfRun(r, "aof") : file[i].start < o}
  IN  {i \in hit : \A j \in hit : file[i].start >= file[j].start}

\* DataSet::find_aof: the last segment that does not begin after the label.
FindAof(r, o) ==
  LET hit == {i \in OfRun(r, "aof") : file[i].start <= o}
  IN  {i \in hit : \A j \in hit : file[i].start >= file[j].start}

\* get_reader: the first run, in the order of the ids, that has an entry; RDB first.
Hits(r, o) == IF FindRdb(r, o) # {} THEN FindRdb(r, o) ELSE FindAof(r, o)
Lookup(o) ==
  LET runs == {r \in 1 .. MaxRuns : Hits(r, o) # {}}
  IN  IF runs = {} THEN {} ELSE Hits(Min(runs), o)

\* Mutant of AofAvailable: the position in the file is forgotten.
AofAvailableWhole(i, o) == IF file[i].linked THEN file[i].len ELSE 0

\* available_bytes of an entry: an RDB file counts with its declared size, an AOF file
\* with what is in it; a file that is not there counts for nothing.
RdbAvailable(i, o) == IF file[i].linked THEN file[i].start + file[i].size - o ELSE 0
AofAvailable(i, o) == IF file[i].linked THEN file[i].len - (o - file[i].start) ELSE 0

\* available_bytes: the first run with anything available.
RunAvailable(r, o) ==
  {RdbAvailable(i, o) : i \in FindRdb(r, o)} \union {AofAvailable(i, o) : i \in FindAof(r, o)}
Available(o) == \E r \in 1 .. MaxRuns : \E n \in RunAvailable(r, o) : n > 0

-----------------------------------------------------------------------------
Init ==
  /\ run = 0
  /\ file = <<>> /\ entries = {} /\ again = {}
  /\ writer = NoWriter /\ reader = NoReader /\ gc = NoGc /\ scan = NoScan

\* A process starts; the one before it is dead, what its writer had buffered is lost.
Start ==
  /\ run < MaxRuns
  /\ run' = run + 1
  /\ entries' = {} /\ again' = {}
  /\ writer' = NoWriter /\ reader' = NoReader /\ gc' = NoGc /\ scan' = NoScan
  /\ UNCHANGED file

-----------------------------------------------------------------------------
(* The writers.                                                            *)

Create(kind, start, size, next) ==
  /\ file' = Append(file, [run |-> run, kind |-> kind, start |-> start, size |-> size,
                           src |-> next, len |-> 0, linked |-> TRUE])
  /\ writer' = [at |-> kind, id |-> Len(file) + 1, start |-> start, written |-> 0,
                next |-> next]

\* get_rdb_writer up to File::create; the Input task receives an RDB before the stream.
CreateRdb(start, size) ==
  /\ "rdb" \in Ops /\ run > 0 /\ writer.at = "none"
  /\ start + size <= MaxLabel
  /\ Create("rdb", start, size, start)
  /\ UNCHANGED <<run, entries, again, reader, gc, scan>>

\* get_aof_writer up to File::create, once per process.
CreateAof(start) ==
  /\ run > 0 /\ writer.at \in {"none", "rdbDone"}
  /\ writer.at = "rdbDone" => start = writer.next
  /\ Create("aof", start, 0, start)
  /\ UNCHANGED <<run, entries, again, reader, gc, scan>>

\* ... and add_rdb or add_aof under the write lock, which do_gc's read lock excludes.  An
\* entry that a scan has put there since the file was created stays beside the new one.
Register ==
  /\ writer.at \in {"rdb", "aof"} /\ gc.at # "run"
  /\ writer' = [writer EXCEPT !.at = IF @ = "rdb" THEN "rdbUp" ELSE "aofUp"]
  /\ entries' = entries \union {writer.id}
  /\ again' = again \union ({writer.id} \intersect entries)
  /\ UNCHANGED <<run, file, reader, gc, scan>>

\* poll_write: n bytes are taken; the BufWriter passes some of what it has to the file.
Write(n) ==
  /\ \/ writer.at = "rdbUp" /\ writer.written + n <= file[writer.id].size
     \/ writer.at = "aofUp" /\ writer.next + n <= MaxLabel
  /\ writer' = [writer EXCEPT !.written = @ + n, !.next = @ + n]
  /\ \E l \in file[writer.id].len .. writer'.written :
       file' = [file EXCEPT ![writer.id].len = l]
  /\ UNCHANGED <<run, entries, again, reader, gc, scan>>

\* poll_flush.
Flush ==
  /\ writer.at \in {"rdbUp", "aofUp"}
  /\ file' = [file EXCEPT ![writer.id].len = writer.written]
  /\ writer' = [writer EXCEPT
       !.at = IF @ = "rdbUp" /\ writer.written = file[writer.id].size THEN "rdbDone" ELSE @]
  /\ UNCHANGED <<run, entries, again, reader, gc, scan>>

\* Mutants of Rotate: the count of the bytes written is not reset; what is buffered is not
\* flushed first.
RotateKeepsWritten ==
  /\ "rotate" \in Ops
  /\ writer.at = "aofUp" /\ writer.written >= LogSize
  /\ LET start == writer.start + writer.written IN
     /\ file' = Append([file EXCEPT ![writer.id].len = writer.written],
                       [run |-> run, kind |-> "aof", start |-> start, size |-> 0,
                        src |-> writer.next, len |-> 0, linked |-> TRUE])
     /\ writer' = [writer EXCEPT !.id = Len(file) + 1, !.start = start]
  /\ UNCHANGED <<run, entries, again, reader, gc, scan>>

RotateUnflushed ==
  /\ "rotate" \in Ops
  /\ writer.at = "aofUp" /\ writer.written >= LogSize
  /\ LET start == writer.start + writer.written IN
     /\ file' = Append(file, [run |-> run, kind |-> "aof", start |-> start, size |-> 0,
                              src |-> writer.next, len |-> 0, linked |-> TRUE])
     /\ writer' = [writer EXCEPT !.id = Len(file) + 1, !.start = start, !.written = 0]
  /\ UNCHANGED <<run, entries, again, reader, gc, scan>>

\* check_rotation: flush, then a new file, which gets no entry in the data set; the
\* writer goes on at once.
Rotate ==
  /\ "rotate" \in Ops
  /\ writer.at = "aofUp" /\ writer.written >= LogSize
  /\ LET start == writer.start + writer.written IN
     /\ file' = Append([file EXCEPT ![writer.id].len = writer.written],
                       [run |-> run, kind |-> "aof", start |-> start, size |-> 0,
                        src |-> writer.next, len |-> 0, linked |-> TRUE])
     /\ writer' = [writer EXCEPT !.id = Len(file) + 1, !.start = start, !.written = 0]
  /\ UNCHANGED <<run, entries, again, reader, gc, scan>>

-----------------------------------------------------------------------------
(* The readers.                                                            *)

\* Mutants of OpenPos: AofReader::open does not seek; it subtracts the wrong way round.
OpenPosNoSeek(i, o) == 0
OpenPosSwapped(i, o) == IF file[i].kind = "rdb" THEN 0 ELSE file[i].start - o

\* RdbReader::open begins with the first byte of the file, AofReader::open seeks.
OpenPos(i, o) == IF file[i].kind = "rdb" THEN 0 ELSE o - file[i].start

\* get_reader; it fails, without a trace, when there is no entry or no file.
OpenReader(o) ==
  /\ \E i \in Lookup(o) :
       /\ file[i].linked
       /\ reader' = [id |-> i, cur |-> o, pos |-> OpenPos(i, o),
                     end |-> IF file[i].kind = "rdb" THEN file[i].start + file[i].size
                             ELSE MaxLabel]
  /\ UNCHANGED <<run, file, entries, again, writer, gc, scan>>

\* poll_read: what is there, an RDB reader no more than its size; a file that is
\* removed can still be read by whoever has it open.  The code counts all that is in the
\* buffer it is given, which is what it has read: its callers give it an empty one.
Read(n) ==
  /\ reader.id # 0 /\ reader.cur + n <= reader.end
  /\ reader.pos + n <= file[reader.id].len
  /\ reader' = [reader EXCEPT !.pos = @ + n, !.cur = @ + n]
  /\ UNCHANGED <<run, file, entries, again, writer, gc, scan>>

-----------------------------------------------------------------------------
(* do_gc, under the read lock from beginning to end.                       *)

\* The sizes of the files of S, summed up: every byte in one of them counts once.
Bytes(S) == UNION {{i} \X (1 .. file[i].len) : i \in S}
Sizes(S) == Cardinality(Bytes(S))

\* Every RDB file, and of each run the AOF segments but the last of its list: one that is
\* listed twice is the last only once.
Early(i)  == \/ file[i].kind = "rdb"
             \/ \E j \in OfRun(file[i].run, "aof") : file[j].start > file[i].start
Deletable == {i \in entries : Early(i) \/ i \in again}

\* total_rdb_size and total_aof_size: of every entry the size of its file.
Total == Sizes(entries) + Sizes(again)

\* The sizes are summed up, an error if a file is missing; above max_size the files to
\* delete are listed.
GcStart ==
  /\ "gc" \in Ops /\ run > 0 /\ gc.at # "run"
  /\ gc' = IF \E i \in entries : ~file[i].linked THEN [NoGc EXCEPT !.at = "failed"]
           ELSE IF Total <= MaxSize THEN NoGc
           ELSE [at |-> "run", todo |-> Deletable, target |-> Total - MaxSize, deleted |-> 0]
  /\ UNCHANGED <<run, file, entries, again, writer, reader, scan>>

\* Mutant of GcNext: the newest first.
GcNextNewest == {i \in gc.todo : \A j \in gc.todo : i >= j}

\* The files are sorted by their time of creation.
GcNext == {i \in gc.todo : \A j \in gc.todo : i <= j}

\* The next file is removed; its entry stays.  If both entries of a file are to be
\* deleted, the second comes next: they are of one age.
GcDelete ==
  /\ gc.at = "run" /\ gc.deleted < gc.target
  /\ \E i \in GcNext :
       /\ file[i].linked
       /\ file' = [file EXCEPT ![i].linked = FALSE]
       /\ gc' = [gc EXCEPT !.todo = IF i \in again /\ Early(i) THEN @ ELSE @ \ {i},
                           !.deleted = @ + file[i].len]
  /\ UNCHANGED <<run, entries, again, writer, reader, scan>>

\* The second entry of a file that the first has had removed: its size is an error.
GcFails ==
  /\ gc.at = "run" /\ gc.deleted < gc.target
  /\ \E i \in GcNext : ~file[i].linked
  /\ gc' = [NoGc EXCEPT !.at = "failed"]
  /\ UNCHANGED <<run, file, entries, again, writer, reader, scan>>

GcEnd ==
  /\ gc.at = "run" /\ (gc.deleted >= gc.target \/ gc.todo = {})
  /\ gc' = NoGc
  /\ UNCHANGED <<run, file, entries, again, writer, reader, scan>>

-----------------------------------------------------------------------------
(* init_data_set.                                                          *)

\* scan_from_dir lists the directories without a lock ...
ScanDir ==
  /\ "scan" \in Ops /\ run > 0 /\ ~scan.on
  /\ scan' = [on |-> TRUE, ids |-> {i \in Files : file[i].linked}]
  /\ UNCHANGED <<run, file, entries, again, writer, reader, gc>>

\* ... then the data set is replaced, under the write lock.
ScanInstall ==
  /\ scan.on /\ gc.at # "run"
  /\ entries' = scan.ids /\ again' = {} /\ scan' = NoScan
  /\ UNCHANGED <<run, file, writer, reader, gc>>

Next ==
  \/ Start
  \/ \E start \in 0 .. MaxLabel : CreateAof(start) \/ \E size \in RdbSizes : CreateRdb(start, size)
  \/ Register \/ Flush \/ Rotate
  \/ \E n \in 1 .. MaxLabel : Write(n) \/ Read(n)
  \/ \E o \in 0 .. MaxLabel : OpenReader(o)
  \/ GcStart \/ GcDelete \/ GcFails \/ GcEnd
  \/ ScanDir \/ ScanInstall

Spec == Init /\ [][Next]_vars

-----------------------------------------------------------------------------
(* Properties.                                                             *)

FileType == [run : Nat, kind : {"rdb", "aof"}, start : Nat, size : Nat, src : Nat, len : Nat,
             linked : BOOLEAN]

\* Every variable has its type.
TypeOK ==
  /\ run \in Nat
  /\ file \in Seq(FileType) /\ entries \subseteq Files /\ again \subseteq entries
  /\ writer \in [at : {"none", "rdb", "rdbUp", "rdbDone", "aof", "aofUp"},
                 id : Files \union {0}, start : Nat, written : Nat, next : Nat]
  /\ reader \in [id : Files \union {0}, end : Nat, cur : Nat, pos : Nat]
  /\ gc \in [at : {"none", "run", "failed"}, todo : SUBSET Files, target : Int, deleted : Nat]
  /\ scan \in [on : BOOLEAN, ids : SUBSET Files]

\* The name of a file tells its contents, after any number of rotations: what is at place
\* k of a file named s is the byte of label s + k.
NamesTellContents == \A i \in Files : file[i].src = file[i].start

\* Rotation loses nothing: when the writer has gone on to another segment, the one before
\* it is complete up to where the next begins.
SegmentsTile ==
  \A i, j \in Files :
    /\ j = i + 1 /\ file[i].run = file[j].run /\ file[i].kind = "aof"
    => file[i].start + file[i].len = file[j].start

\* An AOF reader yields the byte of the label it says it is at, also while the file grows,
\* is rotated away from or removed.
AofReaderIsFaithful ==
  reader.id # 0 /\ file[reader.id].kind = "aof"
    => file[reader.id].src + reader.pos = reader.cur

\* As long as the data set has only files of this run: what available_bytes counts,
\* get_reader can open, and at least one byte of it is, or is going to be, in the file the
\* reader gets.
Readable(o) == \E i \in Lookup(o) : file[i].linked /\ o < file[i].start
                                     + IF file[i].kind = "rdb" THEN file[i].size ELSE file[i].len
AvailableIsReadable ==
  (\A i \in entries : file[i].run = run) => \A o \in 0 .. MaxLabel : Available(o) => Readable(o)

\* A label that was received and flushed is available once the file has an entry, for as
\* long as gc has not removed the file.
Flushed == writer.start .. writer.start + file[writer.id].len - 1
RegisteredIsAvailable ==
  /\ writer.at = "aofUp" /\ writer.id \in entries
  /\ file[writer.id].linked
  => \A o \in Flushed : Available(o)

\* Garbage collection removes a file only when what is left is too much, counting a file
\* that is listed twice twice; no older file it may remove is left; and the newest AOF
\* segment it knows of a run it removes only if that is listed twice.
GcOldestFirst ==
  [][\A i \in Files : file[i].linked /\ ~file'[i].linked =>
       /\ Sizes({j \in entries : file[j].linked}) + Sizes(again) > MaxSize
       /\ \A j \in Deletable : file[j].linked => i <= j
       /\ Early(i) \/ i \in again
    ]_vars

(* What comments of store/ say, and this code does not do.                 *)

\* "How much data is available from the offset on": the reader of that offset gets it, with
\* older runs in the data set too.
ScannedIsReadable == \A o \in 0 .. MaxLabel : Available(o) => Readable(o)

\* writer.rs "supports rotation": what is received and flushed is available.
FlushedIsAvailable == writer.at = "aofUp" => \A o \in Flushed : Available(o)

\* reader.rs: an RDB reader "can seek to a position to read": it yields the byte of the
\* label it was opened at.
RdbReaderIsFaithful ==
  reader.id # 0 => file[reader.id].src + reader.pos = reader.cur

\* do_gc "does not delete the newest AOF file".
GcSparesNewest == [][\A i \in Files : file[i].linked /\ ~file'[i].linked => Early(i)]_vars

\* do_gc "deletes files until the total size is below max_size", no further.
GcOnlyAboveLimit ==
  [][\A i \in Files : file[i].linked /\ ~file'[i].linked =>
       Sizes({j \in entries : file[j].linked}) > MaxSize]_vars

\* gc_data_set "cleans up old files beyond the limit", every time it is called.
GcCanRunAgain == gc.at # "failed"
=============================================================================
