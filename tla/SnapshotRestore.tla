--------------------------- MODULE SnapshotRestore ---------------------------
(***************************************************************************)
(* The full synchronisation of the output: RedisOutput::send on an RDB     *)
(* reader reads what is in the file, parses all of it (RdbParser), then    *)
(* sends one RESTORE per entry and waits for each reply; the forwarding    *)
(* task calls it again, on a fresh connection, as long as it fails.        *)
(*                                                                         *)
(* A snapshot is a sequence of records, not of bytes: an opcode or a type  *)
(* byte together with what the parser reads after it.  The raw bytes of a  *)
(* value are the value; NoRaw is the empty sequence of bytes, Garbage the  *)
(* bytes of a value that was not read to its end.  There are layouts the   *)
(* parser has wrong.  One of them leaves it out of step with the records:  *)
(* it takes the bytes that follow for whatever they look like.             *)
(***************************************************************************)
EXTENDS Integers, Sequences

CONSTANTS
  Key, Value, Db,
  Time,         \* times of expiry in snapshots
  EmptyName,    \* the key of no characters
  NoRaw,        \* no bytes of a value
  Garbage,      \* bytes that are not a value
  Old,          \* what the target holds from before
  Files,        \* the snapshots the source may have sent
  Leftovers,    \* what may be in the target before
  TargetDb,     \* the databases the target has
  PerMs,        \* ticks of the clock in a millisecond
  MaxTime,      \* bound: the clock
  MaxFailures   \* bound: calls of the network or the target that fail

NoExpire == -1

\* Opcodes that set nothing: the header, AUX, ResizeDB, Idle, Freq, ModuleAux.
SkippedOps == {"header", "aux", "resizedb", "idle", "freq", "moduleaux"}

\* "list2" is Quicklist2; "plain" is a type read_value reads as it is laid out.
KeyTypes == {"plain", "stream", "list2", "module"}

\* "unknown" is a record that begins with a byte the parser does not know: functions, newer
\* types, the type byte of today's module values.
Record ==
  [op : SkippedOps \union {"eof", "unknown"}] \union [op : {"select"}, db : Db]
  \union [op : {"expire"}, at : Time]
  \union [op : {"key"}, type : KeyTypes, key : Key, lzf : BOOLEAN, val : Value]

BinEntry == [db : Db, key : Key, raw : Value \union {NoRaw, Garbage},
             expire : Time \union {NoExpire}]

\* An entry of the target: expires at exp.
Item == [db : Db, key : Key, val : Value \union {Old}, exp : Nat \union {NoExpire}]

ASSUME SnapshotAssumption ==
  /\ Files \subseteq Seq(Record)
  /\ Leftovers \subseteq SUBSET [db : Db, key : Key, val : {Old}, exp : {NoExpire}]
  /\ Db \subseteq Nat /\ 0 \in Db /\ Time \subseteq Nat /\ TargetDb \subseteq Db
  /\ EmptyName \in Key /\ NoRaw \notin Value /\ Garbage \notin Value /\ NoRaw # Garbage
  /\ Old \notin Value
  /\ PerMs \in Nat \ {0} /\ MaxTime \in Nat /\ MaxFailures \in Nat

VARIABLES
  file,            \* the snapshot as the source sent it
  got,             \* rdb_data: the records this call has read of it
  pos,             \* the next record the parser reads
  current_db,      \* of the parser
  current_expire,  \* of the parser
  astray,          \* the parser is out of step with the records
  entries,         \* what the parser has called back with
  pc,              \* where send is
  next,            \* the entry it is at
  selected,        \* current_db of send_rdb_data
  ttl,             \* of the RESTORE under way, in milliseconds
  conn,            \* the database the connection is in, at the target
  target,          \* what is in the target
  now,             \* the clock of both machines
  failures

parser == <<pos, current_db, current_expire, astray, entries>>
sender == <<next, selected, ttl, conn>>
world  == <<file, now, failures>>
vars   == <<file, got, pos, current_db, current_expire, astray, entries, pc, next, selected,
            ttl, conn, target, now, failures>>

-----------------------------------------------------------------------------
Init ==
  /\ file \in Files /\ target \in Leftovers
  /\ got = 0 /\ pos = 1 /\ current_db = 0 /\ current_expire = NoExpire /\ astray = FALSE
  /\ entries = <<>>
  /\ pc = "connect" /\ next = 1 /\ selected = 0 /\ ttl = 0 /\ conn = 0
  /\ now = 0 /\ failures = 0

-----------------------------------------------------------------------------
(* One call of send.  It begins with a connection of its own.              *)

Fail == failures < MaxFailures /\ failures' = failures + 1

\* new_stream: a connection starts in database 0; every local of the call is new.
Connect ==
  /\ pc = "connect"
  /\ pc' = "read" /\ conn' = 0
  /\ got' = 0 /\ pos' = 1 /\ current_db' = 0 /\ current_expire' = NoExpire
  /\ astray' = FALSE /\ entries' = <<>> /\ next' = 1 /\ selected' = 0 /\ ttl' = 0
  /\ UNCHANGED <<target, world>>

\* connect_redis, authenticate or the reader fails.
ConnectFails ==
  /\ pc \in {"connect", "read"} /\ Fail
  /\ pc' = "failed"
  /\ UNCHANGED <<got, parser, sender, target, file, now>>

\* Reads to the end of the file, which the Input task may still be writing.
ReadAll(n) ==
  /\ pc = "read"
  /\ got' = n
  /\ pc' = IF n = 0 THEN "done" ELSE "parse"
  /\ UNCHANGED <<parser, sender, target, world>>

-----------------------------------------------------------------------------
(* RdbParser::parse, a record at a time.                                   *)

Read(op) ==
  /\ pc = "parse" /\ ~ astray /\ pos <= got
  /\ file[pos].op = op
  /\ pos' = pos + 1
  /\ UNCHANGED <<got, astray, sender, target, world>>

Skip ==
  /\ \E op \in SkippedOps : Read(op)
  /\ UNCHANGED <<current_db, current_expire, entries, pc>>

Expire ==
  /\ Read("expire")
  /\ current_expire' = file[pos].at
  /\ UNCHANGED <<current_db, entries, pc>>

SelectDb ==
  /\ Read("select")
  /\ current_db' = file[pos].db
  /\ current_expire' = NoExpire
  /\ UNCHANGED <<entries, pc>>

\* read_string: a name compressed with LZF is read over and replaced by the empty string.
KeyName(r) == IF r.lzf THEN EmptyName ELSE r.key

\* read_string_with_raw_bytes, and the sequences of such strings: the bytes as they stand.
RawBytes(r) == r.val

\* read_key_value, with the bytes read_value has returned.
EntryOf(r, raw, db, expire) == [db |-> db, key |-> KeyName(r), raw |-> raw, expire |-> expire]

\* Mutant of ReadKeyValue: the expiry of a key stays for the keys after it.
ReadKeyValueKeepsExpiry ==
  /\ Read("key") /\ file[pos].type = "plain"
  /\ entries' =
       Append(entries, EntryOf(file[pos], RawBytes(file[pos]), current_db, current_expire))
  /\ UNCHANGED <<current_db, current_expire, pc>>

ReadKeyValue ==
  /\ Read("key") /\ file[pos].type = "plain"
  /\ entries' =
       Append(entries, EntryOf(file[pos], RawBytes(file[pos]), current_db, current_expire))
  /\ current_expire' = NoExpire
  /\ UNCHANGED <<current_db, pc>>

Eof ==
  /\ Read("eof")
  /\ pc' = "send"
  /\ UNCHANGED <<current_db, current_expire, entries>>

\* The parser has left a record in the middle, or gone on into those after it.  Bound: it
\* reads one thing in each record it is out of step in.
LoseStep ==
  /\ pc = "parse" /\ pos <= got
  /\ pos' \in pos + 1 .. got + 1
  /\ astray' = TRUE
  /\ UNCHANGED <<got, sender, target, world>>

\* read_stream_value looks for no field of the stream's length, takes the fields after it for
\* the wrong ones, and returns no bytes, from the middle too when it meets an error.
MisreadStream ==
  /\ ~ astray /\ LoseStep
  /\ file[pos].op = "key" /\ file[pos].type = "stream"
  /\ entries' = Append(entries, EntryOf(file[pos], NoRaw, current_db, current_expire))
  /\ current_expire' = NoExpire
  /\ UNCHANGED <<current_db, pc>>

\* read_quicklist_raw_value takes the container field of each Quicklist2 node for a string.
MisreadQuicklist2 ==
  /\ ~ astray /\ LoseStep
  /\ file[pos].op = "key" /\ file[pos].type = "list2"
  /\ entries' = Append(entries, EntryOf(file[pos], Garbage, current_db, current_expire))
  /\ current_expire' = NoExpire
  /\ UNCHANGED <<current_db, pc>>

\* A module value is taken for eight bytes and a string; no entry.
MisreadModule ==
  /\ ~ astray /\ LoseStep
  /\ file[pos].op = "key" /\ file[pos].type = "module"
  /\ current_expire' = NoExpire
  /\ UNCHANGED <<current_db, entries, pc>>

\* Of a record it does not know the parser reads the first byte.
UnknownOpcode ==
  /\ ~ astray /\ LoseStep
  /\ file[pos].op = "unknown"
  /\ UNCHANGED <<current_db, current_expire, entries, pc>>

StrayEntries ==
  [db : {current_db}, key : Key, raw : Value \union {NoRaw, Garbage}, expire : {current_expire}]

\* Out of step: bytes that look like a record that sets nothing, an expiry, a SELECTDB, a key
\* or the end.  That the parser falls into step again is one of the choices.
ReadAstray ==
  /\ astray /\ LoseStep
  /\ \/ UNCHANGED <<current_db, current_expire, entries, pc>>
     \/ current_expire' \in Time \union {NoExpire} /\ UNCHANGED <<current_db, entries, pc>>
     \/ current_db' \in Db /\ current_expire' = NoExpire /\ UNCHANGED <<entries, pc>>
     \/ /\ \E e \in StrayEntries : entries' = Append(entries, e)
        /\ current_expire' = NoExpire
        /\ UNCHANGED <<current_db, pc>>
     \/ pc' = "send" /\ UNCHANGED <<current_db, current_expire, entries>>

\* A layout the code has wrong, or no layout at all.
IsCorrupt ==
  \/ astray
  \/ pos <= got /\ file[pos].op = "key" /\ file[pos].type \in {"list2", "module"}

\* The bytes end before an EOF record, or make no sense: nothing is sent, and send returns
\* Ok(rdb_size).
ParseError ==
  /\ pc = "parse"
  /\ pos > got \/ IsCorrupt
  /\ pc' = "unparsed"
  /\ UNCHANGED <<got, parser, sender, target, world>>

-----------------------------------------------------------------------------
(* The loop over the entries.                                              *)

Entry == entries[next]

\* generate_dump_payload: type, bytes, version and checksum, if there are bytes.
HasPayload == Entry.raw # NoRaw

\* SELECT, when the entry is in another database than the one before.
SendSelect ==
  /\ pc = "send" /\ next <= Len(entries)
  /\ Entry.db # selected
  /\ selected' = Entry.db
  /\ pc' = "select"
  /\ UNCHANGED <<got, parser, next, ttl, conn, target, world>>

\* The target selects the database, if it has it, and its answer arrives.
SelectOk ==
  /\ pc = "select" /\ selected \in TargetDb
  /\ conn' = selected
  /\ pc' = "send"
  /\ UNCHANGED <<got, parser, next, selected, ttl, target, world>>

\* The answer is an error, or none comes.
SelectFails ==
  /\ pc = "select"
  /\ \/ selected \notin TargetDb /\ UNCHANGED failures
     \/ Fail
  /\ pc' = "failed"
  /\ UNCHANGED <<got, parser, sender, target, file, now>>

\* Nothing to restore the key from: a warning, and on to the next entry.
SkipEntry ==
  /\ pc = "send" /\ next <= Len(entries)
  /\ Entry.db = selected /\ ~ HasPayload
  /\ next' = next + 1
  /\ UNCHANGED <<got, parser, pc, selected, ttl, conn, target, world>>

\* Mutant of TtlMs: without the comparison with now.
TtlMsUnchecked(expire) == (expire - now) \div PerMs

\* as_millis() of the time that is left; 0 is "no expiry" to RESTORE.
TtlMs(expire) == IF expire > now THEN (expire - now) \div PerMs ELSE 0

SendRestore ==
  /\ pc = "send" /\ next <= Len(entries)
  /\ Entry.db = selected /\ HasPayload
  /\ ttl' = TtlMs(Entry.expire)
  /\ pc' = "restore"
  /\ UNCHANGED <<got, parser, next, selected, conn, target, world>>

\* A payload with Garbage in it is refused, each time.
Refused == Entry.raw = Garbage

\* RESTORE key ttl payload REPLACE at the target, in the database of the connection.
Restored ==
  {e \in target : ~ (e.db = conn /\ e.key = Entry.key)}
  \union {[db |-> conn, key |-> Entry.key, val |-> Entry.raw,
           exp |-> IF ttl = 0 THEN NoExpire ELSE now + ttl * PerMs]}

\* Mutant of RestoreOk: without REPLACE a key that is there is an error.
RestoreOkBusy ==
  /\ pc = "restore" /\ ~ Refused
  /\ IF \E e \in target : e.db = conn /\ e.key = Entry.key
     THEN pc' = "failed" /\ UNCHANGED <<target, next>>
     ELSE pc' = "send" /\ target' = Restored /\ next' = next + 1
  /\ UNCHANGED <<got, parser, selected, ttl, conn, world>>

RestoreOk ==
  /\ pc = "restore" /\ ~ Refused
  /\ target' = Restored
  /\ next' = next + 1
  /\ pc' = "send"
  /\ UNCHANGED <<got, parser, selected, ttl, conn, world>>

\* Mutant of RestoreFails: the key is logged and left out.
RestoreFailsSkips ==
  /\ pc = "restore"
  /\ \/ Refused /\ UNCHANGED <<target, failures>>
     \/ ~ Refused /\ Fail /\ target' \in {target, Restored}
  /\ next' = next + 1
  /\ pc' = "send"
  /\ UNCHANGED <<got, parser, selected, ttl, conn, file, now>>

\* The target refuses, or it restores and the answer does not arrive whole.
RestoreFails ==
  /\ pc = "restore"
  /\ \/ Refused /\ UNCHANGED <<target, failures>>
     \/ ~ Refused /\ Fail /\ target' \in {target, Restored}
  /\ pc' = "failed"
  /\ UNCHANGED <<got, parser, sender, file, now>>

AllSent ==
  /\ pc = "send" /\ next > Len(entries)
  /\ pc' = "done"
  /\ UNCHANGED <<got, parser, sender, target, world>>

\* Mutant of Retry: the call goes on where the failed one stopped, in database 0.
RetryGoesOn ==
  /\ pc = "failed"
  /\ pc' = "send" /\ conn' = 0
  /\ UNCHANGED <<got, parser, next, selected, ttl, target, world>>

\* The forwarding task sleeps 100 ms and sends the snapshot again from its beginning.
Retry ==
  /\ pc = "failed"
  /\ pc' = "connect"
  /\ UNCHANGED <<got, parser, sender, target, world>>

\* Time passes; the target drops what has expired.
Tick ==
  /\ now < MaxTime
  /\ now' = now + 1
  /\ target' = {e \in target : e.exp = NoExpire \/ e.exp > now'}
  /\ UNCHANGED <<file, got, parser, pc, sender, failures>>

Misread == MisreadStream \/ MisreadQuicklist2 \/ MisreadModule \/ UnknownOpcode \/ ReadAstray
Parse == Skip \/ Expire \/ SelectDb \/ ReadKeyValue \/ Eof \/ Misread \/ ParseError
SendEntries ==
  \/ SendSelect \/ SelectOk \/ SelectFails \/ SkipEntry
  \/ SendRestore \/ RestoreOk \/ RestoreFails \/ AllSent

Send ==
  \/ Connect \/ ConnectFails \/ (\E n \in 0 .. Len(file) : ReadAll(n))
  \/ Parse \/ SendEntries \/ Retry

Next == Send \/ Tick

Spec == Init /\ [][Next]_vars

\* The forwarding task keeps running, and an answer comes or the connection breaks.
FairSpec == Spec /\ WF_vars(Send)

-----------------------------------------------------------------------------
(* What a snapshot means, independently of how it is parsed.               *)

\* The database of record i: that of the last SELECTDB before it, or 0.
Selects(f, i) == {j \in 1 .. i - 1 : f[j].op = "select"}
IsDbAt(f, i, d) ==
  \/ Selects(f, i) = {} /\ d = 0
  \/ \E j \in Selects(f, i) : d = f[j].db /\ \A k \in Selects(f, i) : k <= j

\* The expiry of record i: one that stands before it and after every other key or SELECTDB.
Since(f, i) == {j \in 1 .. i - 1 : f[j].op \in {"expire", "select", "key"}}
IsExpiryAt(f, i, t) ==
  \/ t = NoExpire /\ \A j \in Since(f, i) : f[j].op = "expire" => \E k \in Since(f, i) : k > j
  \/ \E j \in Since(f, i) : f[j].op = "expire" /\ t = f[j].at /\ \A k \in Since(f, i) : k <= j

\* Record i is key k of database d, expiring at t, and value v is what it holds.
IsKeyAt(f, i, d, k, v, t) ==
  /\ f[i].op = "key" /\ f[i].type = "plain"
  /\ IsDbAt(f, i, d) /\ k = KeyName(f[i]) /\ v = f[i].val /\ IsExpiryAt(f, i, t)

\* A time of expiry that was passed, or less than a millisecond away, by now.
Passed(t) == t # NoExpire /\ t < now + PerMs

\* The snapshot has only records that the parser reads as they are laid out.
Readable ==
  \A i \in 1 .. Len(file) :
    file[i].op # "unknown" /\ (file[i].op = "key" => file[i].type = "plain")

\* Every variable has its type, for readable snapshots and others.
TypeOK ==
  /\ file \in Files /\ got \in 0 .. Len(file)
  /\ pos \in 1 .. got + 1 /\ current_db \in Db
  /\ current_expire \in Time \union {NoExpire} /\ astray \in BOOLEAN /\ entries \in Seq(BinEntry)
  /\ pc \in {"connect", "read", "parse", "send", "select", "restore", "failed", "done", "unparsed"}
  /\ next \in 1 .. Len(entries) + 1 /\ selected \in Db /\ ttl \in Nat /\ conn \in Db
  /\ target \in SUBSET Item
  /\ now \in 0 .. MaxTime /\ failures \in 0 .. MaxFailures

\* Of a snapshot the parser can read: whatever is in the target, through failures and
\* retries, is what was there before or a key of the snapshot in the database it has at the
\* source, with its value; and its expiry is not earlier (within the millisecond RESTORE
\* counts in), is there only if the source has one, and is missing only if it had passed
\* (send_restore_command).
RestoredRight ==
  Readable =>
    \A e \in target :
      \/ e.val = Old
      \/ \E i \in 1 .. Len(file), t \in Time \union {NoExpire} :
           /\ IsKeyAt(file, i, e.db, e.key, e.val, t)
           /\ IF e.exp = NoExpire THEN t = NoExpire \/ Passed(t)
                                  ELSE t # NoExpire /\ e.exp > t - PerMs

\* The parser came to what it takes for the EOF record, and all entries were sent.
SentWhole == pc = "done" /\ got > 0

\* Record i is the only one that is read as key k of database d.
IsOnlyKeyAt(i, d, k, v, t) ==
  /\ IsKeyAt(file, i, d, k, v, t)
  /\ \A m \in 1 .. Len(file), w \in Value, u \in Time \union {NoExpire} :
       IsKeyAt(file, m, d, k, w, u) => m = i

\* Of a snapshot the parser can read: when send has returned Ok after parsing all of it,
\* every key is in the target with its value, in the place of what was there before, unless
\* it has expired (send_rdb_data returns an error for every RESTORE without +OK).
OkMeansRestored ==
  Readable /\ SentWhole =>
    \A i \in 1 .. pos - 1, d \in Db, k \in Key, v \in Value, t \in Time \union {NoExpire} :
      IsOnlyKeyAt(i, d, k, v, t) =>
        Passed(t) \/ \E e \in target : e.db = d /\ e.key = k /\ e.val = v

\* send has returned Ok, the snapshot sent or not.
Returned == pc \in {"done", "unparsed"}

\* Every database of the snapshot is at the target.
HasDbs == \A i \in 1 .. Len(file) : file[i].op = "select" => file[i].db \in TargetDb

\* With a snapshot the parser can read, every database of it at the target, and failures that
\* end, send returns Ok in the end, however often it was called again.
Completes == Readable /\ HasDbs => <>Returned

\* What follows is written somewhere and does not hold.

\* parser.rs:919-920: a stream is read conservatively, and on an error the data that remains
\* of it is skipped; so the parser is in step after it.
StaysInStep == ~ astray

\* tests/test_full_sync.rs:8: after a full sync the data of the target is that of the source;
\* so nothing is there but what was, and keys of the snapshot.
OnlySourceKeys ==
  \A e \in target : e.val = Old \/
    \E i \in 1 .. Len(file), t \in Time \union {NoExpire} : IsKeyAt(file, i, e.db, e.key, e.val, t)

\* tests/test_full_sync.rs:8: when send has returned Ok after a whole file, no key of a type
\* the parser does know is missing, whatever else the snapshot holds.
OkMeansAllRestored ==
  SentWhole /\ got = Len(file) =>
    \A i \in 1 .. Len(file), d \in Db, k \in Key, v \in Value, t \in Time \union {NoExpire} :
      IsOnlyKeyAt(i, d, k, v, t) =>
        Passed(t) \/ \E e \in target : e.db = d /\ e.key = k /\ e.val = v

\* output.rs:143: RESTORE is for all types of data, lists and streams too.
AllTypesRestored ==
  SentWhole =>
    \A i \in 1 .. Len(file), d \in Db, t \in Time \union {NoExpire} :
      file[i].op = "key" /\ file[i].type # "module" /\ IsDbAt(file, i, d) /\ IsExpiryAt(file, i, t) =>
        Passed(t) \/ \E e \in target : e.db = d /\ e.key = KeyName(file[i]) /\ e.val # Old

\* tests/test_full_sync.rs:56: the full sync comes to its end; so a payload the target refuses,
\* or a database it has not, does not have the same snapshot sent for ever.
CompletesAlways == <>Returned

\* tests/test_full_sync.rs:56: after a full sync the data of the target is that of the
\* source; so every key is there under its own name.
KeysKeepTheirNames ==
  Readable /\ SentWhole =>
    \A i \in 1 .. pos - 1, d \in Db, t \in Time \union {NoExpire} :
      IsKeyAt(file, i, d, KeyName(file[i]), file[i].val, t) =>
        Passed(t) \/ \E e \in target : e.db = d /\ e.key = file[i].key

\* tests/test_full_sync.rs:56, of times of expiry: a key of the source that expires does not
\* live for ever in the target.
ExpiringKeysExpire ==
  Readable =>
    \A e \in target : e.val # Old /\ e.exp = NoExpire =>
      \E i \in 1 .. Len(file) : IsKeyAt(file, i, e.db, e.key, e.val, NoExpire)
=============================================================================
