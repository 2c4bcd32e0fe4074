# A TLA+ verification of redis-ha-tool

redis-ha-tool copies a source Redis to a target Redis. It speaks PSYNC to the source as a replica
would, files the snapshot (RDB) and the command stream (AOF) it receives in a local channel,
forwards what is in the channel to the target, and saves checkpoints in the target so that the next
process can resume. This directory models the parts of that program in which order, failure and
concurrency decide whether it is correct, checks them with TLC on small instances and proves the
main results with TLAPS for every instance. Paths below are relative to the crate (`src/src/...` in
`PROJECT.json`).

Contents

1. The system: components, state, operations, interactions
2. The modules, and how they correspond to the code
3. The runs: what each checks, its bounds, what it shows
4. Where the code does not do what its documents say
5. Fairness
6. The proofs
7. What is only model-checked, what is not modelled
8. The plan
9. How to run the checks

## 1. The system

### Inventory

| component | files | state it keeps | operations |
|---|---|---|---|
| main | `main.rs` | none of its own; the exit code | `main`: read the source's replid, connect the checkpoint manager, read the checkpoint, build and spawn the syncer, wait for it or Ctrl+C |
| HTTP API | `cmd/api.rs` | the Arc to the syncer | `stop`, `pause`, `resume`, `restart`; read-only `status`, `health`, `metrics` |
| syncer (leader) | `syncer/syncer.rs`, `syncer/mod.rs` | `state` byte, `cancel_token`, `state_machine`, `psync_offset`, `psync_ready`, `psync_master_replid`, `checkpoint_manager` | `run`, `run_leader`, the forwarding task in it, `stop`, `pause`, `resume` |
| phase machine | `syncer/state_machine.rs` | `state`, one of seven phases | `start_full_sync`, `begin_full_sync`, `finish_full_sync`, `start_incr_sync`, ... |
| Input | `syncer/input.rs` | connection; shares the `psync_*` fields with the syncer | `run`: connect, authenticate, `send_psync_command`, `handle_psync_response`, `receive_rdb_data`, `receive_aof_stream`, acknowledgements |
| Output | `syncer/output.rs` | none; the connection is the forwarder's | `send_with_stream` (RDB: parse, RESTORE; AOF: write, read replies), `send` |
| checkpoint manager | `checkpoint/manager.rs` | a Redis connection; two hashes in the target | `save_checkpoint`, `save_psync_info`, `update_offset`, `delete_checkpoint`, `get_checkpoint`, `get_psync_info`, `get_all_checkpoints` |
| channel | `store/*.rs`, `syncer/channel.rs` | files on disk, the data set (entries in memory), writers, readers, a `Notify` | `get_rdb_writer`, `get_aof_writer`, `check_rotation`, `get_reader`, `available_bytes`, `gc_data_set`, `init_data_set` |
| transactions | `syncer/transaction.rs` | state, buffered commands | MULTI/EXEC/DISCARD tracking; no caller in the crate |
| leader election | `cluster/redis_election.rs` | a key per cluster in Redis, `is_leader`, `leader_value`, a renewal task | `campaign`, `renew`, `resign`, `leader`, `register`, `discover`; compiled out by `cluster/mod.rs` |
| RESP codec | `protocol/resp/*.rs` | the decoder's buffer, position and offset | `feed`, `decode`, `reset`; encoding |
| RDB parser | `protocol/rdb/*.rs` | position in the snapshot, current database, pending expiry | record loop, length encoding, DUMP payload for RESTORE |
| filters | `filter/*.rs` | slot ranges, tries of prefixes | `RangeList::from_config`, `contains`, `Trie::insert/search`, `filter_cmd_key` |
| configuration, metrics, logging, CRC16 | `config/`, `metric/`, `utils/` | counters nobody reads back | parsing, defaults, validation |
| follower, gRPC | `proto/api.proto`, `cmd/syncer_cmd.rs` | none | stubs |

### How they interact

`main` spawns `Syncer::run`; the HTTP server shares the same syncer, so its handlers call `stop`,
`pause`, `resume` and `run` on it while it runs. `run_leader` spawns two tasks: Input and the
forwarder. They share three things: the files of the channel with a `Notify`
(`data_notify`), the atomic `psync_offset`, and the mutex-protected `psync_master_replid`;
`psync_ready` tells the leader once that PSYNC was answered. The forwarder alone writes to the
target, and, through the checkpoint manager it has taken, to the two checkpoint hashes. Only these
hashes survive the process: the next `main` reads them before anything else.

```
 source --PSYNC--> Input --files, Notify--> forwarder --RESTORE, stream--> target
                     |                        ^    |                         |
                     +-- psync_offset, replid-+    +---- checkpoints ------->|
                     +-- psync_ready --> leader                              |
   HTTP handlers -- state byte, token --> run() <---- next main() reads -----+
```

### What is hard

- *Interleaving.* The leader reads `psync_offset` while Input moves it; the forwarder looks at the
  files and then waits for a notification that keeps no permit; HTTP handlers store into the byte
  `run` has just checked.
- *Restarts.* A checkpoint is several HSETs; a process can die between any two of them, and
  resumes from what is there, possibly against a source that has failed over meanwhile.
- *Partial failure.* A send fails after part of it was written; a save fails half-way; a rotation
  is a flush, a name and a reset.
- *Timeouts.* The 30 s wait for PSYNC races a long snapshot; the 10 ms wait for replies races the
  target.
- *Numbers.* Labels (global offsets), positions in a file and the 1-based PSYNC offset differ by
  the size of a snapshot or by one.
- *Liveness.* A failed Input, a cancelled token, a lost wake-up: does the process end, does the
  data move?

`PROJECT.json` lists each of these at its line ("hazards"), with the properties aimed at it.

### What makes each component correct

- *Pipeline.* What is forwarded has no gap; a checkpoint is where the forwarder was, under an id of
  the history it was forwarding (after a failover the id of before, as long as that history is
  continued), never ahead of the source, never behind an earlier one; a failure ends the process;
  bytes in the file are forwarded.
- *Checkpoint manager.* A replid with a mapping is complete; a save that has returned is read by
  whoever asks later; the two hashes behave as a map that changes one entry at one moment.
- *Life cycle.* One forwarder saves; a cancelled token ends the process whoever else stores what.
- *Channel.* A file's name tells its contents; rotated segments tile the stream; a reader is at the
  byte it says; what is available can be read; gc removes the oldest first, and the newest segment
  only if the data set lists it twice.
- *Election.* Who was told that it leads has the key for as long as it may count on it; the key of a
  dead leader becomes free.
- *Snapshot restore.* Whatever fails and is repeated, of a snapshot the parser can read the target
  gets keys of the snapshot only, each in its database, with its value and its expiry; an Ok means
  all of them.
- *RESP.* However a stream is cut, the decoder keeps its place, reports an error only for a
  malformed stream, and, unless it was called on a part of an array, returns what was encoded.
- *Filters.* A merged list of ranges covers the slots it was given, tries find the prefixes they
  were given, and the answer is the one the configuration asks for.
- *Transactions.* A command between MULTI and EXEC is in the transaction (not modelled, section 7).

## 2. The modules

| module | what it is |
|---|---|
| `LogCursor` | abstract: a cursor over a log that only grows, and a saved value that is only ever where the cursor was |
| `SyncPipeline` | the pipeline of one process and its restarts; implements `LogCursor` for every history |
| `SyncPipelineProofs` | theorems about `SyncPipeline` |
| `CheckpointMap` | abstract: a map from replids to offsets that changes one entry at a time |
| `CheckpointStore` | `CheckpointManager`, command by command; implements `CheckpointMap` with one writer |
| `CheckpointStoreProofs` | theorems about `CheckpointStore` |
| `Lifecycle` | `main`, the handlers, `run`, `run_leader` and the ends of their tasks |
| `LifecycleProofs` | theorems about `Lifecycle` |
| `FileStore` | the channel's files, entries, writer, reader, gc, scan |
| `FileStoreProofs` | theorems about `FileStore` |
| `SnapshotRestore` | parsing a snapshot and restoring it key by key, with failures and retries |
| `SnapshotRestoreProofs` | theorems about `SnapshotRestore` |
| `RespCodec` | encoder and incremental decoder of RESP, one step per call of `try_decode` |
| `RespCodecProofs` | theorems about `RespCodec` |
| `KeyFilter` | tries, slot ranges and their merge, and the decision of the key filter |
| `KeyFilterProofs` | theorems about `KeyFilter` |
| `Election` | campaign, renewal and resignation as single Redis commands, with an expiring key |
| `ElectionProofs` | theorems about `Election` |
| `MC*` | the instances for TLC; sizes are in the cfg files |

How they fit: `SyncPipeline` uses of the store and of the manager only what one process sees (its
one RDB file and one AOF file, the `offset` field and the mapping). `FileStore` and
`CheckpointStore` are the same two components in full, and establish what `SyncPipeline` takes for
granted: that a name tells where a file's bytes belong (`NamesTellContents`), that available bytes
can be read (`AvailableIsReadable`), that a checkpoint that is found is whole (`MappedIsComplete`).
`Lifecycle` is orthogonal: who starts and ends the pipeline. To `SyncPipeline` a snapshot is a
number of bytes that is sent or is not; `SnapshotRestore` is what one such send does to the target.
`RespCodec`, `KeyFilter` and `Election` are libraries of the crate that the pipeline does not call
(it frames its own lines, filters nothing and elects nobody); they stand alone.

### SyncPipeline

A *label* is the global offset the code uses, a *position* is the place of a byte in the history of
the source. The code has only labels; positions are how the properties talk about what the bytes
are. `AofPos` converts.

| variable | code |
|---|---|
| `master` | external: the source's current replication id, how much of the previous history it continues (`since`), how much it produced |
| `ckpt` | `redis_ha_tool_checkpoint` (`<replid>_offset`) and `redis_ha_tool_checkpoint_hash` (the mapping) |
| `cm`, `initial` | `checkpoint_manager.is_some()`, `initial_master_replid` / `initial_master_offset` in `main` |
| `psync_offset`, `psync_master_replid` | the fields of that name in `SyncerImpl` and `RedisInput` |
| `leader`, `input`, `fwd` | where `run_leader`, `RedisInput::run` and the forwarding task are |
| `link`, `rdb`, `aof` | the connection, the RDB file and the AOF file of this process |
| `offset`, `rdb_forwarded`, `stream` | the forwarder's locals; `sending` is how much the current send call has written |
| `wire`, `sent`, `resent`, `applied`, `base`, `begin` | external or history: what is on the connection, what was written, what the target executed |

| actions | code |
|---|---|
| `Start`, `LeaderListen`, `LeaderTimeout`, `LeaderSpawn`, `LeaderAbort`, `Crash` | `main.rs` 60-201, `syncer.rs` 156-256 and 409-456 |
| `SendPsync`, `FullResync`, `Continue` | `input.rs` 137-233 |
| `ReceiveRdbHeader`, `ReceiveRdbChunk`, `ReceiveRdbDone`, `SendAck`, `NotifyReady` | `input.rs` 204-296 |
| `OpenAof`, `ReceiveAof`, `PublishOffset`, `ReceivePing`, `InputFails`, `LinkLost` | `receive_aof_stream`, `input.rs` 311-373 |
| `CheckAvailable`, `AwaitNotify`, `OpenRdb`, `OpenAofReader`, `OpenFails` | the loop of the forwarder up to the reader, `syncer.rs` 258-293 |
| `SendRdb`, `SendRdbFails`, `SendAofChunk`, `SendAofDone`, `SendAofFails` (an error of the connection or of the reader: `SendAofError`), `Retry` | `syncer.rs` 299-396 and `output.rs` 56-253 |
| `SaveOffset`, `SaveMapping`, `SavePsyncOffset`, `SaveFails` | `save_checkpoint` and `save_psync_info` as the forwarder calls them |
| `MasterWrite`, `MasterFailover`, `TargetApply`, `TargetBreaks` | external |

External assumptions: the offset of PSYNC is the 1-based number of the next byte wanted, so after a
resume labels run one ahead of positions; the source answers `+CONTINUE` for its current id and,
after a failover, for the id of before up to where that history ended, as Redis does since version 4
(the id in the answer, which `input.rs` 223-233 ignores, is the new one, and `link.replid` holds it
beside the `psync_master_replid` that stays); a keep-alive from the source is bytes in the file that
carry no command and is modelled as a notification without data; a command of a dead process that is
still on its way when the next process starts is not modelled. `checkpoint_interval` is abstracted:
a save may or may not follow any forwarded chunk.

### CheckpointStore

`call[m]` is where manager `m` is in its operation: every `HSET`, `HGET`, `HEXISTS`, `HGETALL` and
`HDEL` of `manager.rs` is one step, in the order of the code (`HsetAfter` is that order). A save
sets the fields `Stored`; `get_checkpoint` asks for those in `Needed` only, and without them is an
error. A field's value matters for offsets and versions, of the others only that it is there.
`Fails` is a failed command or the death of the process at any point. `Writers` are the managers
that write (the tool is deployed as one process per target, so one), `Deleted` the replids
`delete_checkpoint` is called for.

### Lifecycle

`at[r]` is where a caller of `run()` is (the task `main` spawned, or a restart handler), `state`,
`cancelled`, `phase`, `cm` are the shared fields. `RunCheck` and `RunEnter` are the two halves of
`syncer.rs` 511-516; `PsyncWait` does not look at the token, as the code does not; `SelectEnds` is
the leader's select. `ClientGone` is hyper dropping the future of a handler whose client went away:
a restart handler can vanish in the middle of `run`, with its tasks left running.

### FileStore

A file is a number in order of creation, with what its name tells (`start`, `size`) and what it
holds (`src`, `len`). `entries` is the data set in memory. `CreateRdb`/`CreateAof`, `Register`,
`Write`, `Flush`, `Rotate` are the writers, `OpenReader`, `Read` the readers, `GcStart`, `GcDelete`,
`GcFails`, `GcEnd` is `do_gc` under its read lock, `ScanDir`, `ScanInstall` is `init_data_set`. The
data set pushes into a Vec without looking for the file (`dataset.rs` 220-243), so a segment that a
scan has found before its writer adds it is listed twice: `again` are those files. To `do_gc` such a
file counts twice (`Total`), the newest segment of a run is spared in one of its two places only
(`Early`), and the second place of a removed file is an error (`GcFails`). `Read` advances by the
bytes it reads: `reader.rs` 206 adds all that is in the buffer it is given, which is the same for
its callers, who give it an empty one (`output.rs` 70 and 208). `Start` is a new process with a new
run id; ids are `run_<timestamp>` (`main.rs`), so their sorted order is their order in time. `main`
calls neither rotation, gc nor the scan today; they are public operations of the storer, and `Ops`
says which of them an instance calls. One gc is under way at a time.

### SnapshotRestore

A snapshot is a sequence of records: an opcode or a type byte with what the parser reads after it.
Its meaning is defined apart from the parser: the database of a key is that of the last SELECTDB
before it (`IsDbAt`), its expiry a record after the key before it (`IsExpiryAt`).

| variable | code |
|---|---|
| `file`, `got` | external: the snapshot the source sent; how many of its records `rdb_data` has in this call |
| `pos`, `current_db`, `current_expire`, `entries` | the parser's position and `RdbParserState`; the vector of the callback |
| `astray` | the parser is out of step: what it takes for a record is not one |
| `pc`, `next`, `selected`, `ttl` | where `send` is, the entry of its loop, its own `current_db`, `ttl_ms` |
| `conn`, `target`, `now`, `failures` | external: the database the connection is in, what the target holds, the clock, faults so far |

| actions | code |
|---|---|
| `Connect`, `ConnectFails`, `ReadAll` | `output.rs` 27-54, 56-81, 258-303; every local begins anew |
| `Skip`, `Expire`, `SelectDb`, `ReadKeyValue`, `Eof`, `ParseError` | the loop of `RdbParser::parse`, `parser.rs` 46-182, and what `output.rs` 102-107 makes of its error |
| `MisreadStream`, `MisreadQuicklist2`, `MisreadModule`, `UnknownOpcode` | the records whose layout the code has wrong or does not know: `parser.rs` 921-1119, 761-782, 556-562, 171-174; each is a `LoseStep` |
| `ReadAstray` | what a parser that is out of step may do with the bytes it meets |
| `SendSelect`, `SelectOk`, `SelectFails` | `output.rs` 115-128 |
| `SkipEntry`, `SendRestore`, `RestoreOk`, `RestoreFails`, `AllSent` | `send_restore_command`, `output.rs` 144-196 |
| `Retry` | `syncer.rs` 336-341 |
| `Tick` | external: time passes, the target drops what expires |

`KeyName` is `read_string` (a compressed name becomes empty), `RawBytes` what is kept of a value
that is laid out as the parser expects: its bytes, which are not looked into and go out as they came
in. `ReadAll` may end anywhere in the file, because Input may still be writing it; only what reads
as an EOF record makes the parse succeed. Otherwise `send` sends nothing and returns Ok, which is
the state `unparsed`.

Not every record is laid out as the parser expects. `read_stream_value` does not know a stream's
fields and hides the errors this causes, `read_quicklist_raw_value` takes the container field of a
Quicklist2 node for a string, a module value is more than eight bytes and a string, and of a record
it does not know (functions, types of newer versions) the parser reads one byte. From there on it is
out of step (`astray`): it goes on somewhere in the records that follow, and what it meets there may
look like anything, an expiry, another database, a key, the end, or nothing at all, until an error
or what looks like an end stops it. Its inventions stay within `Key`, `Value`, `Time` and `Db`, one
for each record it passes. The bytes it made of a Quicklist2 list or of what it met out of step may
be `Garbage`, which no RESTORE accepts (`Refused`). `Readable` is a snapshot without such records:
the properties that hold are about these, section 4 has those about all.

Excluded: numbers in SELECTDB beyond any database a Redis has, lengths so large that the parser
panics when it allocates, and the scores of snapshots older than version 8, which it would misread
as it does the others. A RESTORE on a connection that fails has either taken effect by then or never
does.

### RespCodec

The wire is a sequence of tokens: markers, CR, LF, bytes of data, and a number's text as one token.
The decoder's buffer is `wire[head + 1 .. fed]`. `IsItem` is the grammar of RESP, defined apart from
the decoder; an *item* is a value without its elements, or the count line of an array. `ItemStarts`
is where items begin in a wire; it is a constant of which `StartsAssumption` says what is used, and
which the MC module computes.

| actions | code |
|---|---|
| `Feed`, `Decode`, `Reset` | `feed`, `decode`, `reset` (`decoder.rs`) |
| `SimpleString`, `Error`, `Integer`, `NullValue`, `BulkString`, `ArrayHeader`, `ArrayDone` | one call of `try_decode` that gets somewhere; `stack` is the arrays whose elements are being decoded |
| `Incomplete` | a call that needs more bytes: `None`. What it has taken of an array by then is gone, of a bulk string it is not |
| `Fails` | `Err`: a wrong marker, a number that is none, a length below -1 |

`Encode`, `EncodeBatch`, `Command` and `AsCommand` are the encoder and `RespValue::as_command`. The
name of a command is text for `encode_command`, so that the lossy conversion of `as_command` leaves
it as it is; in a batch made otherwise it is assumed to be UTF-8. `Depth` (how deep the arrays of a
value nest) and `Tokens` are not in the code; they are what the types of Rust say of values and
bytes. `lost` remembers that an array was left in the middle; `decoded` is what `decode` has
returned. A count so large that `Vec::with_capacity` (`decoder.rs` 258) panics is left out.

### KeyFilter

`InsertDb`, `InsertKey`, `BuildSlots` take the configuration entry by entry (`RedisKeyFilter::new`);
a trie is the set of its nodes, each the bytes that lead to it, and of its ends. `Extend` and `Push`
are the two branches of the loop of `RangeList::from_config`, after a sort of which only stability
in the starts is used (`IsSorting`); `Add` is `add`, which runs the same merge over everything.
`After` is `end + 1` in u16, which wraps around at the last number in a release build (a debug build
panics there; no slot a cluster has is that number). `Ask` is `filter_cmd_key`: `NoRoute`,
databases, commands, prefixes, slots, in this order. A request comes with its key (or none): the
static table of key positions is data.

### Election

`call[n]` is the operation node `n` is in, the command it has sent and the answer. `SetNx`, `Get`,
`Expire`, `Del` are Redis executing a command that was sent; `Campaign` ... `Resigned` are what the
node does before and after each; `RenewTask` is the spawned task, which renews on a `RedisElection`
of its own whose `leader_value` is empty, finds nothing to renew and ends. `Dropped` is a connection
that fails or a future that is dropped: the command has been executed by then or never is. `Crash`
is the death and the restart of a process. `since` and `lease` are clocks for the properties: how
long a node may count on being the leader when it counts from the moment it *sent* its command.
Calls are made in any order, one at a time per node, since nothing in the crate makes them.

## 3. The runs

Passing runs. Every property has a mutant of the code, stated beside the definition it changes,
that TLC refutes under the same configuration.

| run | bounds | what it shows |
|---|---|---|
| `pipeline_safety` | 3 bytes, 2 histories, snapshots of 1 or 2 bytes, 2 processes, 1 fault | `CheckpointNotInFuture`, `NoGapSinceBegin`, `SavedIdIsContinued`, `CheckpointIsForwarded`, `CheckpointNeverFallsBack`, and `IsLogCursor`: the pipeline is a `LogCursor` for each history |
| `pipeline_liveness` | 2 bytes, 2 histories, 2 processes, 1 fault, source pings | `FailureEndsProcess`, `Drains` |
| `checkpoint_calls` | 2 managers (1 writes), 2 replids (1 is deleted), offsets to 2, 4 calls, 1 fault | `MappedIsComplete`, `SavedIsRead`, `IsCheckpointMap` |
| `lifecycle_stop` | 2 handlers at once, 3 requests | `OneSaver`, `StopEndsProcess` |
| `filestore_files` | 2 processes, 3 labels (0..2), snapshots of 1 byte, segments of 1 byte, a limit of 1 byte, all operations | `NamesTellContents`, `SegmentsTile`, `AofReaderIsFaithful`, `AvailableIsReadable`, `RegisteredIsAvailable`, `GcOldestFirst` |
| `snapshot_restore` | 8 snapshots of up to 10 records (two databases, an expiry before a key without one, compressed names, a database the target has not, a key after a stream, a Quicklist2 list, a module value and an unknown record), 2 failures, clock to 4, 2 ticks in a millisecond, target empty or with an old key | `RestoredRight`, `OkMeansRestored`, `Completes` |
| `resp_decode` | 3 batches (values of all types, arrays in arrays, data that reads like RESP), 8 wires nobody encodes, buffer of 30, any cutting | `InPlace`, `ErrorMeansMalformed`, `Drained`, `RoundTrip`, `NothingInvented` |
| `filter_answers` | u16 of 3 bits, all lists of up to 3 of 8 ranges, 25 pairs of prefix lists, 1 range added later, 16 requests | `ContainsIsCovered`, `AnswersAsConfigured` |
| `election_leases` | 2 nodes, ttl of 2 ticks | `LeaseIsKept`, `HungHasResigned`, `HeldByRenewing` |

Why these bounds are enough to meet the interesting cases:

- Two processes are a crash and a resume; what a third starts from is again only the hashes. Two
  histories are a failover before or after the checkpoint was read. One fault is a save that fails
  half-way, a broken connection, or a crash, at any of their places. Three bytes let a resumed
  process read a byte, save, and have a byte left to be ahead of; with two snapshot sizes labels
  before and after zero occur. The proofs remove all of these bounds for the safety properties.
- Four calls are: two saves of one replid, a deletion of another and a read interleaved with any of
  them; the reader can be between its two commands while a whole save passes.
- Two handlers and three requests let a pause fall between the halves of a restart, and another
  restart follow: two leaders exist together in that run, so `OneSaver` is not about one leader.
- Two processes are an older run's files beside this one's after a scan; a segment of one byte
  rotates at every byte; three labels give three segments, so gc has an order to keep and something
  to spare; a scan between the creation of a segment and its entry lists it twice.
- Two failures are a retry that fails again, at any of the entries; the old key is one REPLACE has
  to replace; expiries before, between and after the end of the clock, and a tick of half a
  millisecond, meet all cases of the ttl. One key after a record the parser misreads is what it can
  lose, take for another or put elsewhere.
- The batches hold every type, empty and nested arrays, and data with a CR LF and a marker in it;
  they are fed in every partition, so each place where the decoder can run out of bytes occurs.
- Three ranges are two merges in a row; among the eight are ranges that touch, overlap, contain one
  another, are written backwards or end at the largest number. The prefixes include one of another,
  and the empty one.
- Two nodes are a leader and a rival; with two ticks a key can expire between any two commands of a
  call, and a lease can be half over when its answer comes.

Deadlock is not checked: every bound stops the model somewhere (no more bytes, no more requests),
and a process that has ended without anybody to start it again is a legal end.

Runs in which TLC must find a violation are in section 4.

## 4. Where the code does not do what its documents say

Each row is a property that states what a comment, a document or a test of the repository says, and
that the code as modelled violates. The first group is among the project's runs, the quotes are in
`PROJECT.json` under "findings".

| run | property | what the trace shows |
|---|---|---|
| `pipeline_snapshot` | `SnapshotFirst` | the RDB is filed under `master_offset - rdb_size` and its labels end where the forwarder starts: after FULLRESYNC the forwarder goes straight to the AOF file and the snapshot is never restored |
| `pipeline_lost` | `NothingLost` | a checkpoint counts bytes written to the connection; a connection that breaks loses bytes behind it |
| `lifecycle_leaders` | `OneLeader` | a pause between the halves of a restart lets `run()` start a second leader |

The second group can be reproduced with `tlc -config <cfg> <MC module>`, where `<cfg>` is
`<module>_unmet.cfg` unless another is named. TLC stops at the first property that is violated:
leave one in the configuration to see its trace.

| module | property | what the trace shows |
|---|---|---|
| `SyncPipeline` | `BeginsWithStream` | the leader reads `psync_offset` after Input has moved it (`syncer.rs:237`); the bytes below are never forwarded |
| `SyncPipeline` | `OneHistory` | after a failover the source answers `+CONTINUE` with its new id; `input.rs:223-233` drops it, and checkpoints of the new history go on under the id of the old one (`syncer.rs:368`) |
| `SyncPipeline` | `NoLostWakeup` (`SyncPipeline_wakeup.cfg`) | a flush between `available_bytes` and `notified()` does not wake the forwarder (`syncer.rs:272`) |
| `SyncPipeline` | `ReachesStream` | the 30 s timeout (`syncer.rs:227`) starts the forwarder at an offset no file covers; it waits forever |
| `SyncPipeline` | `NothingResent` | a failed send is repeated from its beginning (`syncer.rs:393`), and a resumed PSYNC asks for a byte already forwarded; `tests/test_resume.rs:5` says nothing is duplicated |
| `CheckpointStore` | `VersionGrows` | `save_checkpoint` writes version 0 over what `update_offset` counted (`manager.rs:115`); `manager.rs:20` says it prevents conflicts |
| `CheckpointStore` | `DeleteLeavesNothing` | `delete_checkpoint` leaves the field `save_psync_info` wrote (`manager.rs:263`) |
| `CheckpointStore` | `PsyncInfoIsFound` | `get_psync_info` needs the mapping, which `save_psync_info` does not write (`manager.rs:370`, against `manager.rs:320`) |
| `CheckpointStore` | `GetAllSucceeds` | one half-deleted replid makes `get_all_checkpoints` fail for all (`manager.rs:307`) |
| `Lifecycle` | `RestartRuns` | `restart` stores `Stop` and then calls `run()`, which refuses in that state (`api.rs:160`) |
| `Lifecycle` | `StopKeepsServing` | a stop ends the run, and with the run `main` returns (`main.rs:182`): the process and its HTTP server are gone. `docs/usage.md:559-567` has a restart after the stop resume from the checkpoint, 777-805 has the status answer `Stop` and a restart cure it. `StopEndsProcess`, of the passing run, is this from the side of the code: it says that the process cannot hang half-stopped |
| `Lifecycle` | `PausedIsQuiet` | `pause` stores a byte that neither task reads (`syncer.rs:542`, against `docs/usage.md:349`) |
| `Lifecycle` | `ReadyIsNotRunning` | `resume` stores `ReadyRun` while the syncer runs (`syncer.rs:548`, against `docs/usage.md:388`) |
| `Lifecycle` | `StreamIsIncremental` | the phase advances when Input ends with Ok, which it never does (`syncer.rs:427`) |
| `Lifecycle` | `FailureIsToldSystemd` | a failed run exits with 0 (`main.rs:184`), `Restart=on-failure` does nothing |
| `FileStore` | `ScannedIsReadable` | after a scan `available_bytes` and `get_reader` choose different runs (`storer.rs:136` and `264`) |
| `FileStore` | `FlushedIsAvailable` | a rotated segment has no entry (`writer.rs:142`): its bytes are not available |
| `FileStore` | `RdbReaderIsFaithful` | `RdbReader::open` does not seek (`reader.rs:43`) |
| `FileStore` | `GcCanRunAgain` | gc leaves the entries of files it removed and fails on them the next time (`storer.rs:120`) |
| `FileStore` | `GcSparesNewest` | a scan finds the segment that is being written before its writer adds it: the entry stands there twice (`dataset.rs:220-243`), gc spares the second and removes the file (`storer.rs:98`: it does not delete the newest AOF file) |
| `FileStore` | `GcOnlyAboveLimit` | such a file counts twice (`dataset.rs:273-293`): gc removes files although the total is not above the limit (`storer.rs:107`) |
| `SnapshotRestore` | `StaysInStep` | a stream, a Quicklist2 list, a module value or an unknown record is read by the wrong layout and the parser goes on in the middle of something else (`parser.rs:921`, `777`, `556`, `171`), against `parser.rs:919` |
| `SnapshotRestore` | `OnlySourceKeys` | what follows such a record is taken for keys the source does not have; `tests/test_full_sync.rs:8` |
| `SnapshotRestore` | `OkMeansAllRestored` | keys after such a record are missing although `send` returned Ok after a whole file |
| `SnapshotRestore` | `AllTypesRestored` | a stream is left out with a warning (`output.rs:150`), a Quicklist2 list is sent as bytes the target refuses, against `output.rs:143` |
| `SnapshotRestore` | `CompletesAlways` | a database the target has not (`output.rs:126`) or bytes it refuses (`output.rs:187`): the same snapshot is sent every 100 ms for ever (`syncer.rs:338`) |
| `SnapshotRestore` | `ExpiringKeysExpire` | a key that has expired, or will within a millisecond, is restored without an expiry (`output.rs:162`) |
| `SnapshotRestore` | `KeysKeepTheirNames` | a key whose name is compressed is restored under the empty name, over the one before it (`parser.rs:448`) |
| `RespCodec` | `Incremental` | an array that is decoded before all of it is there loses its count line and elements; the rest of it is returned as values of their own (`decoder.rs:265`, against `decoder.rs:14` and `66`) |
| `RespCodec` | `OffsetIsPlace` | every line counts one byte more than it has (`decoder.rs:120`, against `decoder.rs:18`) |
| `KeyFilter` | `RangesAreDisjoint` | a range that ends at the last u16 touches nothing, since `end + 1` wraps, and one that is written backwards is kept (`range_list.rs:44`) |
| `KeyFilter` | `CoverageIsSize` | `total_coverage` counts such slots twice, or computes `end - start + 1` below zero (`range_list.rs:126`) |
| `KeyFilter` | `SlotIsClusters` | a key with `{}` in it is hashed by the empty string, not as Redis Cluster does (`key_filter.rs:357`) |
| `Election` | `OneLeader` | an expiry does not clear `is_leader`: two nodes say that they lead (`redis_election.rs:6`, `tests/test_election.rs:58`) |
| `Election` | `LeaderRenews` | the task `campaign` starts renews on an object that never leads and ends at its first tick (`redis_election.rs:151`) |
| `Election` | `OwnKeyOnly` | the key becomes another's between `GET` and `EXPIRE` or `DEL` (`redis_election.rs:190`, `268`) |
| `Election` | `ResignReturns` | `resign` asks for the write lock under its own read guard (`redis_election.rs:275`) |

## 5. Fairness

Liveness is checked under weak fairness of what the runtime does by itself, and of nothing
else.

- Every task that can make a step makes one: tokio polls every task that was woken. In
  `SyncPipeline` this is `LeaderListen`, `LeaderSpawn`, `LeaderAbort`, `InputSteps`, `FwdSteps`,
  `SaveSteps`; in `Lifecycle` `Bind`, `MainReturns`, `HandlerStep`, `RunStep` and what follows a
  cancelled token.
- Timers fire: `LeaderTimeout`, `PsyncWait`.
- A source that is reachable delivers what it has (`ReceiveAof`, the snapshot) and, where
  `KeepAlive` is set, pings its replicas (`repl-ping-replica-period`, 10 s by default);
  `ReceivePing` is the flush and the notification such a ping causes. `Drains` depends on it: a lost
  wake-up is repaired by the next flush, not by the forwarder. A target that is up executes what has
  arrived.
- In `SnapshotRestore` the forwarding task goes on (`Send`): an answer comes or the connection
  breaks. `Completes` also needs failures that end (`MaxFailures`), a snapshot the parser can read
  (`Readable`) and a target that has every database of it (`HasDbs`); otherwise the same snapshot
  may be sent every 100 ms for ever, which is `CompletesAlways` in section 4.
- In `Election` time passes (`Tick`) and Redis executes what waits (`Server`). Of the nodes nothing
  is assumed: they may die, hang, or never ask again.
- Nothing is assumed of writes to the source, of failovers, of faults, of HTTP clients, or of
  anybody starting a process again: `main` exits with 0, which no supervisor takes for a failure.

## 6. The proofs

`tlapm` proves the following for every value of the constants that satisfies the named assumptions
(`BoundsAssumption`, `RdbSizesAssumption`, `WritersAssumption`, `StoreAssumption`,
`SnapshotAssumption`, ...: the bounds are naturals, sizes are positive, writers are managers). The
bounds limit TLC only: the theorems hold for each choice of them. Every safety property that a
passing run checks is a theorem: the invariants, the action properties and both refinements.

**SyncPipelineProofs.** `Invariance`: `Spec => []Inv`. None of the safety properties is inductive:
that a checkpoint is not ahead of the source depends on which file a label was read from, how that
file was named, and what `psync_offset` was then. `Inv` collects this in layers: `Linked` (what
connection, shared replid and files have to do with each other), `Continued` (the shared replid is
that of the connection, or the one before it with the file beginning where the two histories are
one), `Spawned` (when the forwarder exists), `Resumed` (what was read from the checkpoint still is
there when PSYNC is answered), `Labels` (labels against positions), `Bounded` (nothing beyond the
source), `Reading` (where the forwarder is in the files), `NoGapSinceBegin`, `Front` (the checkpoint
of the connected history against the forwarder). Each layer is preserved given the ones before it.
From `Inv` follow `TypeCorrect`, `CheckpointsNotInFuture`, `ForwardingHasNoGap`,
`SavedUnderContinuedId`, the action properties `OnlyForwardedIsSaved` and `CheckpointsGrow`, and
`ImplementsLogCursor`: the initial states map to initial states of `LogCursor`, every step to a step
or a stutter of it, for every history.

**CheckpointStoreProofs.** `StoreTypeCorrect` for any instance. `SaveIsAllOrNothing`: for any number
of concurrent writers and faults a mapped replid that nobody deletes is complete, whatever is
deleted beside it; the inductive invariant `CompleteInv` says for every step of a save which fields
are there already. `SavedCheckpointIsRead`: with at most one writer (`OneWriter`) a read that begins
after a save of such a replid has returned gives that offset or a later one; `ReadInv` relates what
the reader has seen to `saved` and to the writer's offset. The condition is needed: the older offset
of a second writer can land between. `ImplementsCheckpointMap`, again for one writer: the two hashes
are a `CheckpointMap`, in which an entry changes at one moment. What moves the entry of a mapped
replid is the `HSET` of its offset, of one that is not mapped yet the `HSET` of the mapping, of one
that is deleted the `HDEL` of its fields; every other command is a stutter, or for the map a call
like any other (`MapHset`, `MapHsetMapping`, `MapHdel`, `MapOther`). This needs `ReadInv` and not
only the types: the offset a mapping makes visible is that of the call that writes the mapping. With
two writers it may be the offset of a save that has failed.

**LifecycleProofs.** `LifecycleTypeCorrect`, and `AtMostOneSaver` for any number of handlers and
requests, from `SaverInv`: as long as the manager is in its Option nobody has it.

**FileStoreProofs.** `NamesAreTrue`, `RotationLosesNothing`, `AofReadersAreFaithful` for any number
of runs, files and rotations. What makes them inductive is `WriterInv`: the writer is at the end of
the newest file, which is of this run, and the next label is `start + written`; `OldRuns`, `Known`
and `ReaderInv` keep files, entries and the reader within what exists. `RegisteredFilesAreAvailable`
and `AvailableFilesAreReadable` need a second layer, `More`: no segment of this run begins after the
writer's (`Segments`), its snapshot ends where its segments begin (`Snapshots`). gc can take the
file under the writer, when it is listed twice, so the first says: as long as the file is there.
`GcRemovesOldestFirst` (the action property) and `FileStoreTypeCorrect` are the third layer: what gc
has to remove is a number of bytes, the cardinality of a set of pairs of a file and a position in
it. Between `GcStart` and `GcEnd` writers append, but no entry is added under the lock, so files
only grow and what is left to remove never exceeds what is left above the limit; one deletion takes
exactly a file's bytes from it (`BytesGrow`, `BytesWithout` and their neighbours). Files that are
listed twice are counted twice on both sides.

**SnapshotRestoreProofs.** `TypeCorrect`, `RestoresRight` and `RestoresAll` for every sequence of
records, any number of failures and any clock; the last two say something of the snapshots the
parser can read (`Readable`). There the parser never leaves its step (`NoMisread`), and `ParserInv`
is the step from the parser to the meaning of a snapshot: at every record the two registers hold
what the records before it say, every entry is that of a key, every key so far has one. `SenderInv`
adds that the connection is in the database the sender believes and that the ttl under way is right
however long the answer takes, whatever the parser made of the bytes; `SentIsThere` that what was
sent is still there or has expired. The uniqueness of a name in `RestoresAll` is needed: two
compressed names are one key in the target, and one expires with the other.

**RespCodecProofs.** For any values, batches and malformed wires: `KeepsPlace`, `NoFalseError`,
`LeavesNothing`. The three are inductive together with the types; what carries them is that an item
has one end (`LineEndUnique` and what follows from it), so that the decoder, which sees a part of
the wire, finds the same end as the grammar, which sees all of it. `EncoderWritesItems`: what the
encoder writes is well formed, for every batch. `RoundTripCorrect` and `NothingInventedEver`: what
is decoded are the values that were sent, and after a loss at least parts of them.

`Encode` and `Parts` go down into the elements of a value, so these three need an induction over
data. It is made by hand: a set of numbers has a least one (`LeastNatural`, from the
well-foundedness of `<`), so a set that contains 0 and with each number the next contains all
(`SetInduction`, stated for a set, where the library's theorems take an operator).
`RecursionHasSolution` builds the function that a recursive definition chooses, level by level of
`Depth`, and `EncodeDef`, `PartsDef` and `FlatExists` are its uses. The assumptions say what the
code's types give: a value owns its elements, so they are nested less deep than it is
(`ValuesAssumption`); different numbers have different texts (`NumeralAssumption`); items begin
where items end (`StartsAssumption`). A text with a line end in it is excluded: the encoder would
write it as it is, and it would be read as two lines.

The invariant of `RoundTripCorrect` is `Reading`: at every level of `stack` the array that was sent
(`whole`) is what has been read of it (`got`), the array being read one level further in, and what
is to come (`rest`); the bytes behind `head` are the encoding of all that is to come, level by level
from the inside out (`todo`). A leaf moves one value from `rest` to `got` (`LeafRead`), a count line
adds a level (`ArrayOpened`), a full array closes one (`ArrayClosed`). Once an array has been lost
this is over for the batch, which is why `RoundTrip` excludes it and `NothingInvented`, by the part
of `Reading` that remains, does not: from there on the decoder reads parts. `Settled` says that
after the call that found nothing more no other one is under way: its buffer is empty, so it would
have ended at once; that gives the second half of `RoundTrip`.

**KeyFilterProofs.** For any configuration, requests and width of the numbers: `ContainsIsRight`, by
what the loop has merged, what it holds and what it has not looked at, which together cover what was
given; `AnswersRight`, by tries that are closed under prefixes, so that a walk finds an end exactly
if one of the inserted keys is a prefix.

**ElectionProofs.** For any number of nodes and any ttl: `LeasesAreKept`, by what each pending
command implies about the key and the clock of its sender, and `HungHaveResigned`.

## 7. What is only model-checked, what is not modelled

Only checked by TLC: the liveness properties `FailureEndsProcess`, `Drains`, `StopEndsProcess`,
`Completes` and `HeldByRenewing`. Liveness under fairness and `ENABLED` are out of the prover's
reach. The assumptions on the constants of `RespCodec` are evaluated by TLC for the instance and
assumed by the proofs.

Not modelled:

- the contents of commands and of values; which database a command of the stream is for (the plan,
  below); the byte encodings of an RDB file and its checksums; which bytes exactly a parser that is
  out of step takes for what (any choice is allowed);
- of RESP the texts of lines and numbers, which are atoms, and the accessors of `RespValue`; of the
  filters CRC16, which is a constant, and the table of key positions, which is data;
- of the election `close()`, which sets a flag nothing reads, and `leader`, `is_leader` and
  `discover`, which only read. `cluster/mod.rs` does not compile the module, so that its callers are
  open;
- command transactions (`transaction.rs`): a tracker without a caller, of five states and
  sequential, with unit tests for its transitions;
- configuration, metrics and logging; TLS and authentication;
- `AofReader`/`RdbReader` seeking in an open reader (nobody does it); `verify_run_id` and the
  read-only HTTP handlers (no state changes); several gcs at once;
- the follower role and gRPC (stubs).

Reasons per component are in `PROJECT.json`.

## 8. The plan

Order is by what the system depends on most. Done: 1 to 8 and 10.

1. `LogCursor`, `SyncPipeline`: the pipeline and its refinement.
2. `CheckpointMap`, `CheckpointStore`: checkpoints, command by command.
3. `Lifecycle`: who runs and stops the pipeline.
4. `FileStore`: the channel across processes.
5. `SnapshotRestore`: what a snapshot puts into the target.
6. `RespCodec`: `feed`/`decode` on values in pieces.
7. `KeyFilter`: `RangeList`, `Trie` and `filter_cmd_key` against sets of slots and of prefixes.
8. `Election`: acquire, renew, resign as single commands on an expiring key.
9. `StreamReplay`: the command stream in the target: the database a new connection is in (the stream
   after `+CONTINUE` does not repeat the last SELECT), a command torn by a reconnect, answers that
   are not waited for.
10. Proofs: every safety property of a passing run, `IsCheckpointMap` and `RoundTrip` last.

## 9. How to run the checks

```
tlasany SyncPipeline.tla
tlc -workers 2 -config SyncPipeline_safety.cfg MCSyncPipeline
tlapm SyncPipelineProofs.tla
```

`PROJECT.json` lists every run with its module and configuration.
