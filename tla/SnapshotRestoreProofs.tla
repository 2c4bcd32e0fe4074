------------------------ MODULE SnapshotRestoreProofs ------------------------
(***************************************************************************)
(* Theorems about SnapshotRestore, for all snapshots, databases, clocks    *)
(* and numbers of failures.  Of a snapshot that is Readable the parser's   *)
(* registers hold at every record what it means there (ParserInv); so an   *)
(* entry is a key of the snapshot in its place, and stays one through      *)
(* RESTORE and all retries.  Types and the sender's own state are right    *)
(* whatever the parser makes of the bytes.                                 *)
(***************************************************************************)
EXTENDS SnapshotRestore, SequenceTheorems, TLAPS

Expiry == Time \union {NoExpire}

\* An entry that was made of record i.
IsEntryOf(i, e) ==
  /\ file[i].op = "key" /\ file[i].type = "plain"
  /\ IsDbAt(file, i, e.db) /\ e.key = KeyName(file[i])
  /\ e.raw = file[i].val /\ IsExpiryAt(file, i, e.expire)

\* What the parser holds is what stands before record pos; the entries are the keys so far.
RegistersRight == IsDbAt(file, pos, current_db) /\ IsExpiryAt(file, pos, current_expire)
EntriesFromKeys == \A j \in 1 .. Len(entries) : \E i \in 1 .. pos - 1 : IsEntryOf(i, entries[j])
KeysHaveEntries ==
  \A i \in 1 .. pos - 1 : file[i].op = "key" /\ file[i].type = "plain" =>
    \E j \in 1 .. Len(entries) : IsEntryOf(i, entries[j])
ParserInv ==
  ~ astray /\ RegistersRight /\ EntriesFromKeys /\ KeysHaveEntries

\* The ttl under way puts the expiry at t, or later by what time it takes.
TtlRight(t) ==
  IF ttl = 0 THEN t = NoExpire \/ Passed(t) ELSE t # NoExpire /\ now + ttl * PerMs > t - PerMs

\* The connection is in the database the sender believes.
SenderInv ==
  /\ pc = "read" => pos = 1
  /\ pc \in {"read", "parse"} => next = 1 /\ selected = 0 /\ conn = 0
  /\ pc \in {"send", "restore"} => conn = selected
  /\ pc \in {"select", "restore"} => next <= Len(entries)
  /\ pc = "restore" => /\ Entry.db = selected /\ Entry.raw # NoRaw
                       /\ TtlRight(Entry.expire)
  /\ SentWhole => next > Len(entries)

\* Every key of which the only record was sent is in the target, or has expired.
SentIsThere ==
  \A i \in 1 .. Len(file), d \in Db, k \in Key, v \in Value, t \in Expiry :
    /\ IsOnlyKeyAt(i, d, k, v, t)
    /\ \E j \in 1 .. next - 1 : entries[j] = [db |-> d, key |-> k, raw |-> v, expire |-> t]
    => Passed(t) \/ \E e \in target : e.db = d /\ e.key = k /\ e.val # Old

Inv ==
  /\ TypeOK /\ SenderInv /\ RestoredRight
  /\ Readable => ParserInv /\ SentIsThere

-----------------------------------------------------------------------------
(* Records, and what they mean.                                            *)

LEMMA RecordFields ==
  ASSUME NEW r \in Record
  PROVE  /\ r.op \in SkippedOps \union {"eof", "unknown", "select", "expire", "key"}
         /\ r.op = "select" => r.db \in Db
         /\ r.op = "expire" => r.at \in Time
         /\ r.op = "key" => /\ r.type \in KeyTypes /\ r.key \in Key
                            /\ r.lzf \in BOOLEAN /\ r.val \in Value
  BY DEF Record, SkippedOps

LEMMA FileRecords ==
  ASSUME TypeOK, NEW i \in 1 .. Len(file)
  PROVE  file \in Seq(Record) /\ file[i] \in Record
  BY SnapshotAssumption, ElementOfSeq DEF TypeOK

LEMMA DbUnique ==
  ASSUME NEW f, NEW i, NEW d1, NEW d2, IsDbAt(f, i, d1), IsDbAt(f, i, d2),
         i \in Int
  PROVE  d1 = d2
  <1>1. ASSUME NEW j \in Selects(f, i), NEW k \in Selects(f, i), k <= j, j <= k
        PROVE  j = k
    BY <1>1 DEF Selects
  <1> QED BY <1>1 DEF IsDbAt

LEMMA ExpiryUnique ==
  ASSUME NEW f, NEW i \in Int, NEW t1, NEW t2, IsExpiryAt(f, i, t1), IsExpiryAt(f, i, t2)
  PROVE  t1 = t2
  <1>1. \A j, k \in Since(f, i) : j \in Int /\ k \in Int /\ (k <= j /\ j <= k => j = k)
    BY DEF Since
  <1>2. \A j, k \in Since(f, i) : ~ (k <= j /\ k > j)
    BY <1>1
  <1> QED BY <1>1, <1>2 DEF IsExpiryAt

\* Past a SELECTDB its database holds, past anything else the one before.
LEMMA DbAfter ==
  ASSUME NEW f, NEW p \in Nat \ {0}, NEW d, IsDbAt(f, p, d)
  PROVE  /\ f[p].op = "select" => IsDbAt(f, p + 1, f[p].db)
         /\ f[p].op # "select" => IsDbAt(f, p + 1, d)
  <1>1. Selects(f, p + 1) = Selects(f, p) \union (IF f[p].op = "select" THEN {p} ELSE {})
    BY DEF Selects
  <1>2. \A k \in Selects(f, p) : k <= p
    BY DEF Selects
  <1>3. CASE f[p].op = "select"
    <2>1. p \in Selects(f, p + 1) /\ \A k \in Selects(f, p + 1) : k <= p
      BY <1>1, <1>2, <1>3
    <2> QED BY <2>1, <1>3 DEF IsDbAt
  <1>4. CASE f[p].op # "select"
    BY <1>1, <1>4 DEF IsDbAt
  <1> QED BY <1>3, <1>4

\* Past an expiry it holds, past a key or a SELECTDB none does, past the others the same.
LEMMA ExpiryAfter ==
  ASSUME NEW f, NEW p \in Nat \ {0}, NEW t, IsExpiryAt(f, p, t)
  PROVE  /\ f[p].op = "expire" => IsExpiryAt(f, p + 1, f[p].at)
         /\ f[p].op \in {"key", "select"} => IsExpiryAt(f, p + 1, NoExpire)
         /\ f[p].op \notin {"expire", "key", "select"} => IsExpiryAt(f, p + 1, t)
  <1>1. Since(f, p + 1) =
          Since(f, p) \union (IF f[p].op \in {"expire", "select", "key"} THEN {p} ELSE {})
    BY DEF Since
  <1>2. \A k \in Since(f, p) : k < p /\ k <= p
    BY DEF Since
  <1>3. CASE f[p].op = "expire"
    <2>1. p \in Since(f, p + 1) /\ \A k \in Since(f, p + 1) : k <= p
      BY <1>1, <1>2, <1>3
    <2> QED BY <2>1, <1>3 DEF IsExpiryAt
  <1>4. CASE f[p].op \in {"key", "select"}
    <2>1. p \in Since(f, p + 1)
      BY <1>1, <1>4
    <2>2. \A j \in Since(f, p + 1) : f[j].op = "expire" => p > j
      BY <1>1, <1>2, <1>4
    <2> QED BY <2>1, <2>2, <1>4 DEF IsExpiryAt
  <1>5. CASE f[p].op \notin {"expire", "key", "select"}
    BY <1>1, <1>5 DEF IsExpiryAt
  <1> QED BY <1>3, <1>4, <1>5

LEMMA MeaningAtStart ==
  ASSUME NEW f
  PROVE  IsDbAt(f, 1, 0) /\ IsExpiryAt(f, 1, NoExpire)
  <1>1. Selects(f, 1) = {} /\ Since(f, 1) = {}
    BY DEF Selects, Since
  <1> QED BY <1>1 DEF IsDbAt, IsExpiryAt

\* The whole milliseconds that are left end less than a millisecond before the expiry.
LEMMA Division ==
  ASSUME NEW a \in Nat, NEW b \in Nat \ {0}
  PROVE  /\ a \div b \in Nat /\ (a \div b) * b <= a
         /\ a < (a \div b) * b + b
  BY SMT

-----------------------------------------------------------------------------
(* Types.                                                                  *)

LEMMA TtlTypes ==
  ASSUME TypeOK, NEW t \in Expiry
  PROVE  TtlMs(t) \in Nat
  <1>1. now \in Nat /\ t \in Int /\ PerMs \in Nat \ {0}
    BY SnapshotAssumption DEF TypeOK, Expiry, NoExpire
  <1>2. CASE t > now
    BY <1>1, <1>2, Division DEF TtlMs
  <1>3. CASE ~ (t > now)
    BY <1>3 DEF TtlMs
  <1> QED BY <1>2, <1>3

LEMMA FailTypes ==
  ASSUME TypeOK, Fail
  PROVE  failures' \in 0 .. MaxFailures
  BY SnapshotAssumption DEF TypeOK, Fail

LEMMA EntryTypes ==
  ASSUME TypeOK, next <= Len(entries)
  PROVE  /\ Entry \in BinEntry /\ next \in 1 .. Len(entries)
         /\ Entry.db \in Db /\ Entry.key \in Key /\ Entry.expire \in Expiry
         /\ Entry.raw \notin {NoRaw, Garbage} => Entry.raw \in Value
  <1>1. next \in 1 .. Len(entries) /\ entries \in Seq(BinEntry)
    BY LenProperties DEF TypeOK
  <1>2. Entry \in BinEntry
    BY <1>1, ElementOfSeq DEF Entry
  <1> QED BY <1>1, <1>2 DEF BinEntry, Expiry

LEMMA NewEntryTypes ==
  ASSUME TypeOK, NEW i \in 1 .. Len(file), file[i].op = "key",
         NEW raw \in Value \union {NoRaw, Garbage}
  PROVE  EntryOf(file[i], raw, current_db, current_expire) \in BinEntry
  <1>1. file[i].type \in KeyTypes /\ file[i].key \in Key /\ file[i].val \in Value
    BY FileRecords, RecordFields
  <1>2. current_db \in Db /\ current_expire \in Time \union {NoExpire} /\ EmptyName \in Key
    BY SnapshotAssumption DEF TypeOK
  <1> QED BY <1>1, <1>2 DEF EntryOf, BinEntry, KeyName

LEMMA AppendTypes ==
  ASSUME TypeOK, NEW e \in BinEntry, entries' = Append(entries, e)
  PROVE  entries' \in Seq(BinEntry) /\ next \in 1 .. Len(entries') + 1
  <1>1. entries' \in Seq(BinEntry) /\ Len(entries') = Len(entries) + 1
    BY AppendProperties DEF TypeOK
  <1> QED BY <1>1, LenProperties DEF TypeOK

LEMMA RestoredTypes ==
  ASSUME TypeOK, SenderInv, pc = "restore", ~ Refused
  PROVE  Restored \in SUBSET Item
  <1>1. /\ conn \in Db /\ ttl \in Nat /\ now \in Nat /\ PerMs \in Nat /\ target \in SUBSET Item
    BY SnapshotAssumption DEF TypeOK
  <1>2. Entry.key \in Key /\ Entry.raw \in Value
    BY EntryTypes DEF SenderInv, Refused
  <1>3. now + ttl * PerMs \in Nat
    BY <1>1
  <1> QED BY <1>1, <1>2, <1>3 DEF Restored, Item

\* What a step that reads record pos leaves as it was.
LEMMA ReadEffect ==
  ASSUME TypeOK, NEW op, Read(op)
  PROVE  /\ pos \in 1 .. Len(file) /\ pos <= got /\ file[pos].op = op /\ pos' = pos + 1
         /\ pos \in Nat \ {0} /\ pos' \in 1 .. got + 1 /\ got \in Nat
         /\ pc = "parse" /\ file' = file /\ got' = got /\ target' = target /\ now' = now
         /\ failures' = failures /\ next' = next /\ selected' = selected
         /\ ttl' = ttl /\ conn' = conn /\ ~ astray /\ astray' = astray
  BY DEF TypeOK, Read, sender, world

\* The same of a step that is, or goes, out of step.
LEMMA LoseEffect ==
  ASSUME TypeOK, LoseStep
  PROVE  /\ pos \in 1 .. Len(file) /\ pos <= got /\ pos' \in 1 .. got + 1 /\ astray' = TRUE
         /\ pc = "parse" /\ file' = file /\ got' = got /\ target' = target /\ now' = now
         /\ failures' = failures /\ next' = next /\ selected' = selected
         /\ ttl' = ttl /\ conn' = conn
  BY DEF TypeOK, LoseStep, sender, world

\* A readable snapshot never brings the parser out of step.
LEMMA NoMisread ==
  ASSUME TypeOK, Readable, ~ astray
  PROVE  ~ Misread
  <1>1. LoseStep => pos \in 1 .. Len(file)
    BY LoseEffect
  <1> QED BY <1>1 DEF Readable, Misread, MisreadStream, MisreadQuicklist2, MisreadModule,
             UnknownOpcode, ReadAstray

LEMMA MisreadTypes ==
  ASSUME TypeOK, Misread
  PROVE  /\ LoseStep
         /\ current_db' \in Db /\ current_expire' \in Time \union {NoExpire}
         /\ pc' \in {"parse", "send"}
         /\ entries' \in Seq(BinEntry) /\ next \in 1 .. Len(entries') + 1
  <1> USE DEF TypeOK
  <1>1. CASE MisreadStream
    <2>1. EntryOf(file[pos], NoRaw, current_db, current_expire) \in BinEntry
      BY <1>1, LoseEffect, NewEntryTypes DEF MisreadStream
    <2>2. entries' \in Seq(BinEntry) /\ next \in 1 .. Len(entries') + 1
      BY <1>1, <2>1, AppendTypes DEF MisreadStream
    <2> QED BY <1>1, <2>2, LoseEffect DEF MisreadStream
  <1>2. CASE MisreadQuicklist2
    <2>1. EntryOf(file[pos], Garbage, current_db, current_expire) \in BinEntry
      BY <1>2, LoseEffect, NewEntryTypes DEF MisreadQuicklist2
    <2>2. entries' \in Seq(BinEntry) /\ next \in 1 .. Len(entries') + 1
      BY <1>2, <2>1, AppendTypes DEF MisreadQuicklist2
    <2> QED BY <1>2, <2>2, LoseEffect DEF MisreadQuicklist2
  <1>3. CASE MisreadModule
    BY <1>3, LoseEffect DEF MisreadModule
  <1>4. CASE UnknownOpcode
    BY <1>4, LoseEffect DEF UnknownOpcode
  <1>5. CASE ReadAstray
    <2>1. LoseStep /\ pc = "parse"
      BY <1>5, LoseEffect DEF ReadAstray
    <2>2. CASE \E e \in StrayEntries : entries' = Append(entries, e)
      <3>1. PICK e \in BinEntry : entries' = Append(entries, e)
        BY <2>2 DEF StrayEntries, BinEntry
      <3>2. entries' \in Seq(BinEntry) /\ next \in 1 .. Len(entries') + 1
        BY <3>1, AppendTypes
      <3>3. CASE /\ current_expire' = NoExpire
                 /\ UNCHANGED <<current_db, pc>>
        BY <2>1, <3>2, <3>3
      <3>4. CASE entries' = entries
        BY <1>5, <2>1, <3>4 DEF ReadAstray
      <3> QED BY <1>5, <3>3, <3>4 DEF ReadAstray
    <2>3. CASE entries' = entries
      BY <1>5, <2>1, <2>3 DEF ReadAstray
    <2> QED BY <1>5, <2>2, <2>3 DEF ReadAstray
  <1> QED BY <1>1, <1>2, <1>3, <1>4, <1>5 DEF Misread

LEMMA TypeParse ==
  ASSUME TypeOK, Parse
  PROVE  TypeOK'
  <1>1. CASE Skip
    <2>1. PICK op \in SkippedOps : Read(op)
      BY <1>1 DEF Skip
    <2> QED BY <1>1, <2>1, ReadEffect DEF Skip, TypeOK
  <1>2. CASE Expire
    <2>1. Read("expire") /\ current_expire' = file[pos].at
      BY <1>2 DEF Expire
    <2>2. file[pos].at \in Time
      BY <2>1, ReadEffect, FileRecords, RecordFields
    <2> QED BY <1>2, <2>1, <2>2, ReadEffect DEF Expire, TypeOK
  <1>3. CASE SelectDb
    <2>1. Read("select") /\ current_db' = file[pos].db
      BY <1>3 DEF SelectDb
    <2>2. file[pos].db \in Db
      BY <2>1, ReadEffect, FileRecords, RecordFields
    <2> QED BY <1>3, <2>1, <2>2, ReadEffect DEF SelectDb, TypeOK
  <1>4. CASE ReadKeyValue
    <2>1. Read("key")
      BY <1>4 DEF ReadKeyValue
    <2>2. file[pos].val \in Value
      BY <2>1, ReadEffect, FileRecords, RecordFields
    <2>3. EntryOf(file[pos], RawBytes(file[pos]), current_db, current_expire) \in BinEntry
      BY <2>1, <2>2, ReadEffect, NewEntryTypes DEF RawBytes
    <2>4. entries' \in Seq(BinEntry) /\ next \in 1 .. Len(entries') + 1
      BY <1>4, <2>3, AppendTypes DEF ReadKeyValue
    <2> QED BY <1>4, <2>1, <2>4, ReadEffect DEF ReadKeyValue, TypeOK
  <1>5. CASE Eof
    <2>1. Read("eof")
      BY <1>5 DEF Eof
    <2> QED BY <1>5, <2>1, ReadEffect DEF Eof, TypeOK
  <1>6. CASE ParseError
    BY <1>6 DEF ParseError, parser, sender, world, TypeOK
  <1>7. CASE Misread
    BY <1>7, MisreadTypes, LoseEffect DEF TypeOK
  <1> QED BY <1>1, <1>2, <1>3, <1>4, <1>5, <1>6, <1>7 DEF Parse

LEMMA TypeSend ==
  ASSUME TypeOK, SenderInv, SendEntries
  PROVE  TypeOK'
  <1> USE DEF parser, sender, world
  <1>1. CASE SendSelect
    BY <1>1, EntryTypes DEF SendSelect, TypeOK
  <1>2. CASE SelectOk
    BY <1>2 DEF SelectOk, TypeOK
  <1>3. CASE SelectFails
    BY <1>3, FailTypes DEF SelectFails, TypeOK
  <1>4. CASE SkipEntry
    BY <1>4, EntryTypes, LenProperties DEF SkipEntry, TypeOK
  <1>5. CASE SendRestore
    BY <1>5, EntryTypes, TtlTypes DEF SendRestore, TypeOK
  <1>6. CASE RestoreOk
    <2>1. next <= Len(entries) /\ Restored \in SUBSET Item
      BY <1>6, RestoredTypes DEF RestoreOk, SenderInv
    <2> QED BY <1>6, <2>1, EntryTypes, LenProperties DEF RestoreOk, TypeOK
  <1>7. CASE RestoreFails
    BY <1>7, RestoredTypes, FailTypes DEF RestoreFails, TypeOK
  <1>8. CASE AllSent
    BY <1>8 DEF AllSent, TypeOK
  <1> QED BY <1>1, <1>2, <1>3, <1>4, <1>5, <1>6, <1>7, <1>8 DEF SendEntries

LEMMA TypeStep ==
  ASSUME TypeOK, SenderInv, [Next]_vars
  PROVE  TypeOK'
  <1>1. CASE Connect
    <2>1. Len(<<>>) = 0 /\ <<>> \in Seq(BinEntry) /\ 0 \in Db
      BY SnapshotAssumption
    <2>2. astray' \in BOOLEAN
      BY <1>1, Zenon DEF Connect
    <2>3. /\ got' = 0 /\ pos' = 1 /\ current_db' = 0 /\ current_expire' = NoExpire
          /\ entries' = <<>> /\ next' = 1 /\ selected' = 0 /\ ttl' = 0 /\ conn' = 0
          /\ pc' = "read" /\ UNCHANGED <<file, target, now, failures>>
      BY <1>1 DEF Connect, world
    <2> QED BY <2>1, <2>2, <2>3 DEF TypeOK
  <1>2. CASE ConnectFails
    BY <1>2, FailTypes DEF ConnectFails, parser, sender, TypeOK
  <1>3. CASE \E n \in 0 .. Len(file) : ReadAll(n)
    BY <1>3 DEF ReadAll, parser, sender, world, TypeOK, SenderInv
  <1>4. CASE Parse
    BY <1>4, TypeParse
  <1>5. CASE SendEntries
    BY <1>5, TypeSend
  <1>6. CASE Retry
    BY <1>6 DEF Retry, parser, sender, world, TypeOK
  <1>7. CASE Tick
    BY <1>7, SnapshotAssumption DEF Tick, parser, sender, TypeOK
  <1>8. CASE UNCHANGED vars
    BY <1>8 DEF vars, TypeOK
  <1> QED BY <1>1, <1>2, <1>3, <1>4, <1>5, <1>6, <1>7, <1>8 DEF Next, Send

-----------------------------------------------------------------------------
(* The parser.                                                             *)

\* IsEntryOf speaks of the snapshot alone.
LEMMA EntryOfSame ==
  ASSUME file' = file, NEW i, NEW e
  PROVE  IsEntryOf(i, e)' <=> IsEntryOf(i, e)
  BY DEF IsEntryOf

\* A step that leaves the snapshot, the entries and the parser's registers.
LEMMA ParserSame ==
  ASSUME ParserInv, file' = file, pos' = pos, current_db' = current_db,
         current_expire' = current_expire, astray' = astray, entries' = entries
  PROVE  ParserInv'
  <1>1. RegistersRight'
    BY DEF ParserInv, RegistersRight
  <1>2. EntriesFromKeys' /\ KeysHaveEntries'
    BY EntryOfSame DEF ParserInv, EntriesFromKeys, KeysHaveEntries
  <1> QED BY <1>1, <1>2 DEF ParserInv

\* A record that is no key: no entry, and none is due.
LEMMA ReadOther ==
  ASSUME TypeOK, ParserInv, NEW op, Read(op), op # "key", entries' = entries
  PROVE  EntriesFromKeys' /\ KeysHaveEntries'
  <1>1. file' = file /\ pos' = pos + 1 /\ file[pos].op # "key" /\ pos \in Nat \ {0}
    BY ReadEffect
  <1>2. EntriesFromKeys'
    <2>1. SUFFICES ASSUME NEW j \in 1 .. Len(entries)
                   PROVE  \E i \in 1 .. pos : IsEntryOf(i, entries[j])'
      BY <1>1 DEF EntriesFromKeys
    <2>2. PICK i \in 1 .. pos - 1 : IsEntryOf(i, entries[j])
      BY DEF ParserInv, EntriesFromKeys
    <2> QED BY <2>2, <1>1, EntryOfSame
  <1>3. KeysHaveEntries'
    <2>1. SUFFICES ASSUME NEW i \in 1 .. pos, file[i].op = "key", file[i].type = "plain"
                   PROVE  \E j \in 1 .. Len(entries) : IsEntryOf(i, entries[j])'
      BY <1>1 DEF KeysHaveEntries
    <2>2. i \in 1 .. pos - 1
      BY <2>1, <1>1
    <2>3. PICK j \in 1 .. Len(entries) : IsEntryOf(i, entries[j])
      BY <2>1, <2>2 DEF ParserInv, KeysHaveEntries
    <2> QED BY <2>3, <1>1, EntryOfSame
  <1> QED BY <1>2, <1>3

\* A key: its entry is added at the end.
LEMMA ReadKey ==
  ASSUME TypeOK, ParserInv, ReadKeyValue
  PROVE  EntriesFromKeys' /\ KeysHaveEntries'
  <1>1. Read("key")
    BY DEF ReadKeyValue
  <1>2. /\ file' = file /\ pos' = pos + 1 /\ file[pos].op = "key" /\ pos \in Nat \ {0}
        /\ pos \in 1 .. Len(file) /\ file[pos].type = "plain"
    BY <1>1, ReadEffect DEF ReadKeyValue
  <1> DEFINE e == EntryOf(file[pos], RawBytes(file[pos]), current_db, current_expire)
  <1>3. entries' = Append(entries, e)
    BY DEF ReadKeyValue
  <1>4. IsEntryOf(pos, e)
    BY <1>2 DEF IsEntryOf, EntryOf, RawBytes, ParserInv, RegistersRight
  <1>5. e \in BinEntry /\ entries \in Seq(BinEntry)
    BY <1>2, FileRecords, RecordFields, NewEntryTypes DEF RawBytes, TypeOK
  <1> HIDE DEF e
  <1>6. /\ Len(entries') = Len(entries) + 1 /\ Len(entries) \in Nat
        /\ entries'[Len(entries) + 1] = e
        /\ \A j \in 1 .. Len(entries) : entries'[j] = entries[j]
    BY <1>3, <1>5, AppendProperties, LenProperties
  <1>7. EntriesFromKeys'
    <2>1. SUFFICES ASSUME NEW j \in 1 .. Len(entries) + 1
                   PROVE  \E i \in 1 .. pos : IsEntryOf(i, entries[j])'
      BY <1>2, <1>6 DEF EntriesFromKeys
    <2>2. CASE j = Len(entries) + 1
      BY <2>2, <1>4, <1>6, <1>2 DEF IsEntryOf
    <2>3. CASE j \in 1 .. Len(entries)
      <3>1. PICK i \in 1 .. pos - 1 : IsEntryOf(i, entries[j])
        BY <2>3 DEF ParserInv, EntriesFromKeys
      <3> QED BY <3>1, <2>3, <1>6, <1>2 DEF IsEntryOf
    <2> QED BY <2>2, <2>3, <1>6
  <1>8. KeysHaveEntries'
    <2>1. SUFFICES ASSUME NEW i \in 1 .. pos, file[i].op = "key", file[i].type = "plain"
                   PROVE  \E j \in 1 .. Len(entries) + 1 : IsEntryOf(i, entries[j])'
      BY <1>2, <1>6 DEF KeysHaveEntries
    <2>2. CASE i = pos
      BY <2>2, <1>4, <1>6, <1>2 DEF IsEntryOf
    <2>3. CASE i \in 1 .. pos - 1
      <3>1. PICK j \in 1 .. Len(entries) : IsEntryOf(i, entries[j])
        BY <2>1, <2>3 DEF ParserInv, KeysHaveEntries
      <3> QED BY <3>1, <1>6, <1>2 DEF IsEntryOf
    <2> QED BY <2>2, <2>3, <1>2
  <1> QED BY <1>7, <1>8

LEMMA RegistersStep ==
  ASSUME TypeOK, ParserInv, Skip \/ Expire \/ SelectDb \/ ReadKeyValue \/ Eof
  PROVE  RegistersRight'
  <1>1. PICK op : Read(op)
    BY DEF Skip, Expire, SelectDb, ReadKeyValue, Eof
  <1>2. file' = file /\ pos' = pos + 1 /\ pos \in Nat \ {0}
    BY <1>1, ReadEffect
  <1>3. IsDbAt(file, pos, current_db) /\ IsExpiryAt(file, pos, current_expire)
    BY DEF ParserInv, RegistersRight
  <1>4. IsDbAt(file, pos + 1, current_db')
    <2>1. CASE SelectDb
      BY <2>1, <1>2, <1>3, DbAfter DEF SelectDb, Read
    <2>2. CASE Skip \/ Expire \/ ReadKeyValue \/ Eof
      <3>1. current_db' = current_db /\ file[pos].op # "select"
        BY <2>2 DEF Skip, Expire, ReadKeyValue, Eof, Read, SkippedOps
      <3> QED BY <3>1, <1>2, <1>3, DbAfter
    <2> QED BY <2>1, <2>2
  <1>5. IsExpiryAt(file, pos + 1, current_expire')
    <2>1. CASE Expire
      BY <2>1, <1>2, <1>3, ExpiryAfter DEF Expire, Read
    <2>2. CASE SelectDb \/ ReadKeyValue
      <3>1. current_expire' = NoExpire /\ file[pos].op \in {"key", "select"}
        BY <2>2 DEF SelectDb, ReadKeyValue, Read
      <3> QED BY <3>1, <1>2, <1>3, ExpiryAfter
    <2>3. CASE Skip \/ Eof
      <3>1. current_expire' = current_expire /\ file[pos].op \notin {"expire", "key", "select"}
        BY <2>3 DEF Skip, Eof, Read, SkippedOps
      <3> QED BY <3>1, <1>2, <1>3, ExpiryAfter
    <2> QED BY <2>1, <2>2, <2>3
  <1> QED BY <1>2, <1>4, <1>5 DEF RegistersRight

LEMMA ParserParse ==
  ASSUME TypeOK, Readable, ParserInv, Parse
  PROVE  ParserInv'
  <1>1. CASE Skip \/ Expire \/ SelectDb \/ ReadKeyValue \/ Eof
    <2>1. PICK op : Read(op)
      BY <1>1 DEF Skip, Expire, SelectDb, ReadKeyValue, Eof
    <2>2. EntriesFromKeys' /\ KeysHaveEntries'
      <3>1. CASE ReadKeyValue
        BY <3>1, ReadKey
      <3>2. CASE Skip \/ Expire \/ SelectDb \/ Eof
        <4>1. entries' = entries /\ file[pos].op # "key"
          BY <3>2 DEF Skip, Expire, SelectDb, Eof, Read, SkippedOps
        <4> QED BY <4>1, <2>1, ReadEffect, ReadOther
      <3> QED BY <1>1, <3>1, <3>2
    <2> QED BY <1>1, <2>1, <2>2, ReadEffect, RegistersStep DEF ParserInv
  <1>2. CASE ParseError
    BY <1>2, ParserSame DEF ParseError, parser, world, ParserInv
  <1>3. CASE Misread
    BY <1>3, NoMisread DEF ParserInv
  <1> QED BY <1>1, <1>2, <1>3 DEF Parse

LEMMA ParserStep ==
  ASSUME TypeOK, Readable, ParserInv, [Next]_vars
  PROVE  ParserInv'
  <1>1. CASE Connect
    <2>1. /\ pos' = 1 /\ current_db' = 0 /\ current_expire' = NoExpire /\ astray' = FALSE
          /\ entries' = <<>> /\ file' = file
      BY <1>1 DEF Connect, world
    <2> QED BY <2>1, MeaningAtStart
            DEF ParserInv, RegistersRight, EntriesFromKeys, KeysHaveEntries
  <1>2. CASE Parse
    BY <1>2, ParserParse
  <1>3. CASE \/ ConnectFails \/ (\E n \in 0 .. Len(file) : ReadAll(n)) \/ SendEntries \/ Retry
             \/ Tick \/ UNCHANGED vars
    <2>1. file' = file /\ UNCHANGED parser
      BY <1>3 DEF ConnectFails, ReadAll, SendEntries, Retry, SendSelect, SelectOk, SelectFails,
         SkipEntry, SendRestore, RestoreOk, RestoreFails, AllSent, Tick, vars, parser, world
    <2> QED BY <2>1, ParserSame DEF parser, ParserInv
  <1> QED BY <1>1, <1>2, <1>3 DEF Next, Send

-----------------------------------------------------------------------------
(* The sender.                                                             *)

LEMMA TtlComputed ==
  ASSUME TypeOK, NEW t \in Expiry, NEW q, q = TtlMs(t)
  PROVE  IF q = 0 THEN t = NoExpire \/ Passed(t)
                  ELSE t # NoExpire /\ now + q * PerMs > t - PerMs
  <1>1. now \in Nat /\ t \in Int /\ PerMs \in Nat \ {0} /\ (t = NoExpire \/ t \in Nat)
    BY SnapshotAssumption DEF TypeOK, Expiry, NoExpire
  <1>2. CASE t > now
    <2>1. q = (t - now) \div PerMs /\ t - now \in Nat
      BY <1>1, <1>2 DEF TtlMs
    <2>2. PICK m : m = q * PerMs
      OBVIOUS
    <2>3. q \in Nat /\ m \in Nat /\ t - now < m + PerMs
      BY <2>1, <2>2, <1>1, Division
    <2>4. q = 0 => m = 0
      BY <2>2, <1>1
    <2>5. t # NoExpire
      BY <1>1, <1>2 DEF NoExpire
    <2>6. now + m > t - PerMs
      BY <2>3, <1>1
    <2>7. q = 0 => Passed(t)
      BY <2>3, <2>4, <2>5, <1>1 DEF Passed
    <2> QED BY <2>2, <2>5, <2>6, <2>7
  <1>3. CASE ~ (t > now)
    <2>1. q = 0
      BY <1>3 DEF TtlMs
    <2>2. t # NoExpire => Passed(t)
      BY <1>1, <1>3 DEF Passed
    <2> QED BY <2>1, <2>2
  <1> QED BY <1>2, <1>3

\* As time passes nothing becomes less passed, and a ttl under way ends later.
LEMMA LaterPassed ==
  ASSUME TypeOK, NEW t \in Expiry, now' = now \/ now' = now + 1, Passed(t)
  PROVE  Passed(t)'
  <1>1. now \in Nat /\ PerMs \in Nat /\ t \in Int
    BY SnapshotAssumption DEF TypeOK, Expiry, NoExpire
  <1> QED BY <1>1 DEF Passed

LEMMA LaterTtl ==
  ASSUME TypeOK, NEW t \in Expiry, now' = now \/ now' = now + 1, ttl' = ttl, TtlRight(t)
  PROVE  TtlRight(t)'
  <1>1. now \in Nat /\ PerMs \in Nat /\ t \in Int /\ ttl \in Nat
    BY SnapshotAssumption DEF TypeOK, Expiry, NoExpire
  <1>2. CASE ttl = 0
    BY <1>2, LaterPassed DEF TtlRight
  <1>3. CASE ttl # 0
    <2>1. PICK m \in Nat : m = ttl * PerMs
      BY <1>1
    <2>2. t # NoExpire /\ now + m > t - PerMs
      BY <1>3, <2>1 DEF TtlRight
    <2>3. now' + m > t - PerMs
      BY <2>2, <1>1
    <2> QED BY <2>1, <2>2, <2>3, <1>3 DEF TtlRight
  <1> QED BY <1>2, <1>3

LEMMA SenderSend ==
  ASSUME TypeOK, SenderInv, SendEntries
  PROVE  SenderInv'
  <1> USE DEF SenderInv, SentWhole, parser, sender, world
  <1>1. CASE SendSelect
    BY <1>1 DEF SendSelect
  <1>2. CASE SelectOk
    BY <1>2 DEF SelectOk
  <1>3. CASE SelectFails
    BY <1>3 DEF SelectFails
  <1>4. CASE SkipEntry
    BY <1>4 DEF SkipEntry
  <1>5. CASE SendRestore
    <2>1. next <= Len(entries) /\ Entry.db = selected /\ Entry.raw # NoRaw
      BY <1>5 DEF SendRestore, HasPayload
    <2>2. /\ ttl' = TtlMs(Entry.expire) /\ pc' = "restore" /\ pc = "send"
          /\ next' = next /\ entries' = entries /\ selected' = selected /\ conn' = conn
          /\ now' = now
      BY <1>5 DEF SendRestore
    <2>3. Entry' = Entry
      BY <2>2 DEF Entry
    <2>4. TtlRight(Entry.expire)'
      <3>1. Entry.expire \in Expiry
        BY <2>1, EntryTypes
      <3> QED BY <3>1, <2>2, <2>3, TtlComputed DEF TtlRight, Passed
    <2> QED BY <2>1, <2>2, <2>3, <2>4
  <1>6. CASE RestoreOk
    BY <1>6 DEF RestoreOk
  <1>7. CASE RestoreFails
    BY <1>7 DEF RestoreFails
  <1>8. CASE AllSent
    BY <1>8 DEF AllSent
  <1> QED BY <1>1, <1>2, <1>3, <1>4, <1>5, <1>6, <1>7, <1>8 DEF SendEntries

LEMMA SenderStep ==
  ASSUME TypeOK, SenderInv, [Next]_vars
  PROVE  SenderInv'
  <1>1. CASE Connect
    BY <1>1 DEF Connect, SenderInv, SentWhole
  <1>2. CASE ConnectFails
    BY <1>2 DEF ConnectFails, SenderInv, SentWhole
  <1>3. CASE \E n \in 0 .. Len(file) : ReadAll(n)
    BY <1>3 DEF ReadAll, SenderInv, SentWhole, parser, sender, world
  <1>4. CASE Skip \/ Expire \/ SelectDb \/ ReadKeyValue \/ Eof
    <2>1. PICK op : Read(op)
      BY <1>4 DEF Skip, Expire, SelectDb, ReadKeyValue, Eof
    <2>2. /\ pc = "parse" /\ next' = next /\ selected' = selected /\ conn' = conn
      BY <2>1, ReadEffect
    <2>3. pc' \in {"parse", "send"}
      BY <1>4, <2>2 DEF Skip, Expire, SelectDb, ReadKeyValue, Eof
    <2> QED BY <2>2, <2>3 DEF SenderInv, SentWhole
  <1>5. CASE ParseError \/ Misread
    <2>1. CASE ParseError
      BY <2>1 DEF ParseError, SenderInv, SentWhole, sender
    <2>2. CASE Misread
      <3>1. /\ pc = "parse" /\ next' = next /\ selected' = selected /\ conn' = conn
            /\ pc' \in {"parse", "send"}
        BY <2>2, MisreadTypes, LoseEffect
      <3> QED BY <3>1 DEF SenderInv, SentWhole
    <2> QED BY <1>5, <2>1, <2>2
  <1>6. CASE SendEntries
    BY <1>6, SenderSend
  <1>7. CASE Retry
    BY <1>7 DEF Retry, SenderInv, SentWhole
  <1>8. CASE Tick \/ UNCHANGED vars
    <2>1. /\ UNCHANGED <<file, got, pos, entries, pc, next, selected, ttl, conn>>
          /\ now' = now \/ now' = now + 1
      BY <1>8 DEF Tick, vars, parser, sender
    <2>2. Entry' = Entry
      BY <2>1 DEF Entry
    <2>3. pc = "restore" => TtlRight(Entry.expire)'
      <3>1. SUFFICES ASSUME pc = "restore" PROVE TtlRight(Entry.expire)'
        OBVIOUS
      <3>2. Entry.expire \in Expiry /\ TtlRight(Entry.expire)
        BY <3>1, EntryTypes DEF SenderInv
      <3>3. PICK t : t = Entry.expire
        OBVIOUS
      <3>4. TtlRight(t)'
        BY <2>1, <3>2, <3>3, LaterTtl
      <3> QED BY <3>3, <3>4, <2>2
    <2> QED BY <2>1, <2>2, <2>3 DEF SenderInv, SentWhole
  <1> QED BY <1>1, <1>2, <1>3, <1>4, <1>5, <1>6, <1>7, <1>8 DEF Next, Send, Parse

-----------------------------------------------------------------------------
(* The target.                                                             *)

\* What RestoredRight says of one entry of the target.
IsRight(e) ==
  \/ e.val = Old
  \/ \E i \in 1 .. Len(file), t \in Time \union {NoExpire} :
       /\ IsKeyAt(file, i, e.db, e.key, e.val, t)
       /\ IF e.exp = NoExpire THEN t = NoExpire \/ Passed(t)
                              ELSE t # NoExpire /\ e.exp > t - PerMs

LEMMA RightEach ==
  RestoredRight <=> (Readable => \A e \in target : IsRight(e))
  BY DEF RestoredRight, IsRight

LEMMA LaterRight ==
  ASSUME TypeOK, file' = file, now' = now \/ now' = now + 1, NEW e, IsRight(e)
  PROVE  IsRight(e)'
  BY LaterPassed DEF IsRight, Expiry

\* The entry RESTORE makes is right.
LEMMA NewRight ==
  ASSUME TypeOK, ParserInv, SenderInv, pc = "restore"
  PROVE  \A e \in Restored : e \in target \/ IsRight(e)
  <1> DEFINE n == [db |-> conn, key |-> Entry.key, val |-> Entry.raw,
                   exp |-> IF ttl = 0 THEN NoExpire ELSE now + ttl * PerMs]
  <1>1. SUFFICES IsRight(n)
    BY DEF Restored
  <1>2. /\ next \in 1 .. Len(entries) /\ Entry.db = conn /\ Entry.raw # NoRaw
        /\ TtlRight(Entry.expire) /\ Entry.expire \in Expiry
    BY EntryTypes DEF SenderInv
  <1>3. PICK i \in 1 .. pos - 1 : IsEntryOf(i, Entry)
    BY <1>2 DEF ParserInv, EntriesFromKeys, Entry
  <1>4. i \in 1 .. Len(file)
    BY DEF TypeOK
  <1>5. IsKeyAt(file, i, conn, Entry.key, Entry.raw, Entry.expire)
    BY <1>2, <1>3 DEF IsEntryOf, IsKeyAt
  <1>6. CASE ttl = 0
    BY <1>2, <1>4, <1>5, <1>6 DEF IsRight, TtlRight, Expiry
  <1>7. CASE ttl # 0
    <2>1. PICK m \in Nat : m = ttl * PerMs
      BY SnapshotAssumption DEF TypeOK
    <2>2. now + m > Entry.expire - PerMs /\ Entry.expire # NoExpire
      BY <1>2, <1>7, <2>1 DEF TtlRight
    <2>3. n.exp = now + m /\ now + m # NoExpire
      BY <1>7, <2>1 DEF TypeOK, NoExpire
    <2> HIDE DEF n
    <2>4. n.db = conn /\ n.key = Entry.key /\ n.val = Entry.raw
      BY DEF n
    <2> QED BY <2>2, <2>3, <2>4, <1>2, <1>4, <1>5 DEF IsRight, Expiry
  <1> QED BY <1>6, <1>7

LEMMA TargetSame ==
  ASSUME TypeOK, [Next]_vars, ~ RestoreOk, ~ RestoreFails, ~ Tick
  PROVE  target' = target /\ now' = now
  BY DEF Next, Send, Connect, ConnectFails, ReadAll, Parse, Skip, Expire, SelectDb, ReadKeyValue,
     Eof, ParseError, Read, Misread, MisreadStream, MisreadQuicklist2, MisreadModule, UnknownOpcode,
     ReadAstray, LoseStep, SendEntries, SendSelect, SelectOk, SelectFails, SkipEntry,
     SendRestore, AllSent, Retry, sender, world, vars

LEMMA FileSame ==
  ASSUME [Next]_vars
  PROVE  file' = file
  BY DEF Next, Send, Connect, ConnectFails, ReadAll, Parse, Skip, Expire, SelectDb, ReadKeyValue,
     Eof, ParseError, Read, Misread, MisreadStream, MisreadQuicklist2, MisreadModule, UnknownOpcode,
     ReadAstray, LoseStep, SendEntries, SendSelect, SelectOk, SelectFails, SkipEntry,
     SendRestore, RestoreOk, RestoreFails, AllSent, Retry, Tick, sender, world, vars

LEMMA RightStep ==
  ASSUME Inv, [Next]_vars
  PROVE  RestoredRight'
  <1> USE DEF Inv
  <1>1. SUFFICES ASSUME Readable, NEW e \in target'
                 PROVE  IsRight(e)'
    BY FileSame DEF RestoredRight, IsRight, Readable
  <1>2. file' = file
    BY FileSame
  <1>3. now' = now \/ now' = now + 1
    BY TargetSame DEF RestoreOk, RestoreFails, Tick, world
  <1>4. e \in target \/ IsRight(e)
    <2>1. CASE RestoreOk \/ RestoreFails
      BY <1>1, <2>1, NewRight DEF RestoreOk, RestoreFails
    <2>2. CASE Tick
      BY <2>2 DEF Tick
    <2>3. CASE ~ RestoreOk /\ ~ RestoreFails /\ ~ Tick
      BY <2>3, TargetSame
    <2> QED BY <2>1, <2>2, <2>3
  <1>5. IsRight(e)
    BY <1>1, <1>4, RightEach
  <1> QED BY <1>2, <1>3, <1>5, LaterRight

-----------------------------------------------------------------------------
(* Nothing that was sent is missing.                                       *)

IsThere(d, k) == \E e \in target : e.db = d /\ e.key = k /\ e.val # Old

\* RESTORE replaces an entry only with another one of the same name.
LEMMA RestoreKeeps ==
  ASSUME TypeOK, SenderInv, pc = "restore", ~ Refused, target' = Restored, NEW d, NEW k
  PROVE  /\ IsThere(d, k) => IsThere(d, k)'
         /\ d = Entry.db /\ k = Entry.key => IsThere(d, k)'
  <1> DEFINE n == [db |-> conn, key |-> Entry.key, val |-> Entry.raw,
                   exp |-> IF ttl = 0 THEN NoExpire ELSE now + ttl * PerMs]
  <1>1. Entry.raw \in Value /\ Entry.db = conn
    BY EntryTypes DEF SenderInv, Refused
  <1>2. Entry.raw # Old
    BY <1>1, SnapshotAssumption
  <1>3. n \in target' /\ n.db = conn /\ n.key = Entry.key /\ n.val # Old
    BY <1>2 DEF Restored
  <1>4. \A e \in target : e \in target' \/ (e.db = conn /\ e.key = Entry.key)
    BY DEF Restored
  <1> HIDE DEF n
  <1> QED BY <1>1, <1>3, <1>4 DEF IsThere

\* A key that is the only one of its name is gone only when its expiry has passed.
LEMMA TickKeeps ==
  ASSUME Inv, Readable, Tick, NEW i \in 1 .. Len(file), NEW d \in Db, NEW k \in Key, NEW v \in Value,
         NEW t \in Expiry, IsOnlyKeyAt(i, d, k, v, t), IsThere(d, k)
  PROVE  Passed(t)' \/ IsThere(d, k)'
  <1> USE DEF Inv
  <1>1. PICK e \in target : e.db = d /\ e.key = k /\ e.val # Old
    BY DEF IsThere
  <1>2. now' = now + 1 /\ target' = {x \in target : x.exp = NoExpire \/ x.exp > now'}
    BY DEF Tick
  <1>3. CASE e \in target'
    BY <1>1, <1>3 DEF IsThere
  <1>4. CASE e \notin target'
    <2>1. e.exp # NoExpire /\ ~ (e.exp > now')
      BY <1>2, <1>4
    <2>2. IsRight(e)
      BY RightEach
    <2>3. PICK m \in 1 .. Len(file), u \in Expiry :
            IsKeyAt(file, m, e.db, e.key, e.val, u) /\ u # NoExpire /\ e.exp > u - PerMs
      BY <1>1, <2>1, <2>2 DEF IsRight, Expiry
    <2>4. e.val \in Value
      BY <1>1 DEF TypeOK, Item
    <2>5. m = i
      BY <1>1, <2>3, <2>4 DEF IsOnlyKeyAt, Expiry
    <2>6. u = t
      BY <2>3, <2>5, ExpiryUnique DEF IsOnlyKeyAt, IsKeyAt
    <2>7. now \in Nat /\ PerMs \in Nat /\ u \in Int /\ e.exp \in Int
      BY SnapshotAssumption DEF TypeOK, Expiry, NoExpire, Item
    <2> QED BY <1>2, <2>1, <2>3, <2>6, <2>7 DEF Passed
  <1> QED BY <1>3, <1>4

LEMMA SentStep ==
  ASSUME Inv, Readable, [Next]_vars
  PROVE  SentIsThere'
  <1> USE DEF Inv
  <1>1. SUFFICES
          ASSUME NEW i \in 1 .. Len(file), NEW d \in Db, NEW k \in Key, NEW v \in Value,
                 NEW t \in Expiry, IsOnlyKeyAt(i, d, k, v, t),
                 NEW j \in 1 .. next' - 1,
                 entries'[j] = [db |-> d, key |-> k, raw |-> v, expire |-> t]
          PROVE  Passed(t)' \/ IsThere(d, k)'
    BY FileSame DEF SentIsThere, IsOnlyKeyAt, IsThere
  <1>2. ASSUME NEW m \in 1 .. next - 1,
               entries[m] = [db |-> d, key |-> k, raw |-> v, expire |-> t]
        PROVE  Passed(t) \/ IsThere(d, k)
    BY <1>1, <1>2 DEF SentIsThere, IsThere
  <1>3. ASSUME target' = target, Passed(t) \/ IsThere(d, k), now' = now
        PROVE  Passed(t)' \/ IsThere(d, k)'
    BY <1>3 DEF Passed, IsThere
  <1>4. CASE Connect
    BY <1>1, <1>4 DEF Connect
  <1>5. CASE Skip \/ Expire \/ SelectDb \/ ReadKeyValue \/ Eof
    <2>1. PICK op : Read(op)
      BY <1>5 DEF Skip, Expire, SelectDb, ReadKeyValue, Eof
    <2>2. next' = 1
      BY <2>1, ReadEffect DEF SenderInv
    <2> QED BY <1>1, <2>2
  <1>6. CASE \/ ConnectFails \/ (\E n \in 0 .. Len(file) : ReadAll(n)) \/ ParseError \/ SendSelect
             \/ SelectOk \/ SelectFails \/ SendRestore \/ AllSent \/ Retry \/ UNCHANGED vars
    <2>1. next' = next /\ entries' = entries /\ target' = target /\ now' = now
      BY <1>6 DEF ConnectFails, ReadAll, ParseError, SendSelect, SelectOk, SelectFails, SendRestore,
         AllSent, Retry, vars, parser, sender, world
    <2> QED BY <1>1, <1>2, <1>3, <2>1
  <1>7. CASE SkipEntry
    <2>1. /\ next' = next + 1 /\ entries' = entries /\ target' = target /\ now' = now
          /\ entries[next].raw = NoRaw
      BY <1>7 DEF SkipEntry, HasPayload, Entry, parser, world
    <2>2. j # next
      BY <1>1, <2>1, SnapshotAssumption
    <2>3. j \in 1 .. next - 1
      BY <2>1, <2>2 DEF TypeOK
    <2> QED BY <1>1, <1>2, <1>3, <2>1, <2>3
  <1>8. CASE RestoreOk
    <2>1. /\ pc = "restore" /\ ~ Refused /\ target' = Restored /\ next' = next + 1 /\ entries' = entries
          /\ now' = now
      BY <1>8 DEF RestoreOk, parser, world
    <2>2. CASE j = next
      <3>1. d = Entry.db /\ k = Entry.key
        BY <1>1, <2>1, <2>2 DEF Entry
      <3> QED BY <3>1, <2>1, RestoreKeeps
    <2>3. CASE j # next
      <3>1. j \in 1 .. next - 1
        BY <2>1, <2>3 DEF TypeOK
      <3>2. Passed(t) \/ IsThere(d, k)
        BY <1>1, <1>2, <2>1, <3>1
      <3> QED BY <3>2, <2>1, RestoreKeeps DEF Passed
    <2> QED BY <2>2, <2>3
  <1>9. CASE RestoreFails
    <2>1. /\ pc = "restore" /\ (target' = target \/ (~ Refused /\ target' = Restored)) /\ next' = next
          /\ entries' = entries /\ now' = now
      BY <1>9 DEF RestoreFails, parser, sender
    <2>2. Passed(t) \/ IsThere(d, k)
      BY <1>1, <1>2, <2>1
    <2>3. CASE target' = target
      BY <1>3, <2>1, <2>2, <2>3
    <2>4. CASE ~ Refused /\ target' = Restored
      BY <2>1, <2>2, <2>4, RestoreKeeps DEF Passed
    <2> QED BY <2>1, <2>3, <2>4
  <1>10. CASE Tick
    <2>1. next' = next /\ entries' = entries /\ now' = now + 1
      BY <1>10 DEF Tick, parser, sender
    <2>2. Passed(t) \/ IsThere(d, k)
      BY <1>1, <1>2, <2>1
    <2> QED BY <1>1, <1>10, <2>1, <2>2, LaterPassed, TickKeeps
  <1>11. CASE Misread
    BY <1>11, NoMisread DEF ParserInv
  <1> QED BY <1>4, <1>5, <1>6, <1>7, <1>8, <1>9, <1>10, <1>11 DEF Next, Send, Parse, SendEntries

-----------------------------------------------------------------------------
(* The theorems.                                                           *)

LEMMA InvInit ==
  ASSUME Init
  PROVE  Inv
  <1>1. Len(<<>>) = 0 /\ <<>> \in Seq(BinEntry)
    OBVIOUS
  <1>2. target \in SUBSET [db : Db, key : Key, val : {Old}, exp : {NoExpire}] /\ file \in Seq(Record)
    BY SnapshotAssumption DEF Init
  <1>3. target \in SUBSET Item
    BY <1>2 DEF Item
  <1>4. astray \in BOOLEAN
    BY Zenon DEF Init
  <1>5. /\ file \in Files /\ got = 0 /\ pos = 1 /\ current_db = 0 /\ current_expire = NoExpire
         /\ entries = <<>> /\ pc = "connect" /\ next = 1 /\ selected = 0 /\ ttl = 0 /\ conn = 0
         /\ now = 0 /\ failures = 0
    BY DEF Init
  <1>6. Len(file) \in Nat /\ 0 \in Db /\ MaxTime \in Nat /\ MaxFailures \in Nat
    BY <1>2, SnapshotAssumption, LenProperties
  <1>7. TypeOK
    BY <1>1, <1>3, <1>4, <1>5, <1>6 DEF TypeOK
  <1>8. ParserInv
    BY <1>1, MeaningAtStart DEF Init, ParserInv, RegistersRight, EntriesFromKeys, KeysHaveEntries
  <1>9. SenderInv
    BY DEF Init, SenderInv, SentWhole
  <1>10. RestoredRight
    BY <1>2 DEF RestoredRight
  <1>11. SentIsThere
    BY DEF Init, SentIsThere
  <1> QED BY <1>7, <1>8, <1>9, <1>10, <1>11 DEF Inv

LEMMA InvStep ==
  ASSUME Inv, [Next]_vars
  PROVE  Inv'
  <1>1. TypeOK' /\ SenderInv' /\ RestoredRight'
    BY TypeStep, SenderStep, RightStep DEF Inv
  <1>2. Readable' <=> Readable
    BY FileSame DEF Readable
  <1>3. Readable => ParserInv' /\ SentIsThere'
    BY ParserStep, SentStep DEF Inv
  <1> QED BY <1>1, <1>2, <1>3 DEF Inv

\* The inductive invariant: the connection is where the sender thinks; of a readable snapshot
\* registers and entries of the parser mean what the records do, and the target holds what
\* was sent.
THEOREM Invariance == Spec => []Inv
  BY InvInit, InvStep, PTL DEF Spec

\* Every variable keeps its type, whatever the snapshot and wherever the parser is in it.
THEOREM TypeCorrect == Spec => []TypeOK
  <1>1. Inv => TypeOK
    BY DEF Inv
  <1> QED BY <1>1, Invariance, PTL

\* Of a readable snapshot send_rdb_data puts nothing but its keys into the target, each in its database,
\* with its value, and with an expiry that is neither invented, lost before its time, nor early.
THEOREM RestoresRight == Spec => []RestoredRight
  <1>1. Inv => RestoredRight
    BY DEF Inv
  <1> QED BY <1>1, Invariance, PTL

LEMMA InvRestored ==
  ASSUME Inv
  PROVE  OkMeansRestored
  <1> USE DEF Inv
  <1>1. SUFFICES
          ASSUME Readable, SentWhole, NEW i \in 1 .. pos - 1, NEW d \in Db, NEW k \in Key, NEW v \in Value,
                 NEW t \in Time \union {NoExpire}, IsOnlyKeyAt(i, d, k, v, t)
          PROVE  Passed(t) \/ \E e \in target : e.db = d /\ e.key = k /\ e.val = v
    BY DEF OkMeansRestored
  <1>2. i \in 1 .. Len(file) /\ i \in Int
    BY DEF TypeOK
  <1>3. /\ file[i].op = "key" /\ file[i].type = "plain" /\ IsDbAt(file, i, d)
        /\ k = KeyName(file[i]) /\ v = file[i].val /\ IsExpiryAt(file, i, t)
    BY <1>1 DEF IsOnlyKeyAt, IsKeyAt
  <1>4. PICK j \in 1 .. Len(entries) : IsEntryOf(i, entries[j])
    BY <1>1, <1>3 DEF ParserInv, KeysHaveEntries
  <1>5. entries[j] \in BinEntry
    BY ElementOfSeq DEF TypeOK
  <1>6. /\ entries[j].db = d /\ entries[j].key = k /\ entries[j].raw = v /\ entries[j].expire = t
    BY <1>2, <1>3, <1>4, DbUnique, ExpiryUnique DEF IsEntryOf
  <1>7. entries[j] = [db |-> d, key |-> k, raw |-> v, expire |-> t]
    BY <1>5, <1>6 DEF BinEntry
  <1>8. j \in 1 .. next - 1
    BY <1>1 DEF SenderInv, TypeOK
  <1>9. Passed(t) \/ IsThere(d, k)
    BY <1>1, <1>2, <1>7, <1>8 DEF SentIsThere, IsThere, Expiry
  <1>10. CASE IsThere(d, k)
    <2>1. PICK e \in target : e.db = d /\ e.key = k /\ e.val # Old
      BY <1>10 DEF IsThere
    <2>2. PICK m \in 1 .. Len(file), u \in Time \union {NoExpire} :
            IsKeyAt(file, m, d, k, e.val, u)
      BY <1>1, <2>1 DEF RestoredRight
    <2>3. e.val \in Value
      BY <2>1 DEF TypeOK, Item
    <2>4. m = i
      BY <1>1, <2>2, <2>3 DEF IsOnlyKeyAt
    <2>5. e.val = v
      BY <1>3, <2>2, <2>4 DEF IsKeyAt
    <2> QED BY <2>1, <2>5
  <1> QED BY <1>9, <1>10

\* When send returns Ok after a whole readable snapshot, every key of it that is the only one
\* of its name is in the target, or has expired.
THEOREM RestoresAll == Spec => []OkMeansRestored
  BY InvRestored, Invariance, PTL
=============================================================================
