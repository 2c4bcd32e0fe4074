---------------------------- MODULE SyncPipeline ----------------------------
(***************************************************************************)
(* The replication pipeline of one redis-ha-tool process and the restarts  *)
(* of that process: the Input task (RedisInput::run), the leader task      *)
(* (SyncerImpl::run_leader), the forwarding task it spawns, the channel    *)
(* files between them, and the checkpoint fields in the target Redis.      *)
(*                                                                         *)
(* Positions.  The n-th byte a source history has produced is at position  *)
(* n - 1 of the history; a payload is its position.  The code never sees a *)
(* position: it sees a global offset ("label") with which it names files,  *)
(* calls available_bytes and get_reader, and saves checkpoints.  AofPos    *)
(* gives the position of the byte a label names.                           *)
(*                                                                         *)
(* The source Redis, the network and the target Redis are external: what   *)
(* they may do is in the actions whose comment says so.                    *)
(***************************************************************************)
EXTENDS Integers, FiniteSets

CONSTANTS
  MaxLen,      \* bound: bytes a source history produces
  MaxReplid,   \* bound: histories (replication ids) of the source, 1 .. MaxReplid
  RdbSizes,    \* the snapshot sizes the source may announce
  MaxRuns,     \* bound: starts of the process
  MaxFaults,   \* bound: failed calls, broken connections and crashes
  KeepAlive    \* does the source ping its replicas (repl-ping-replica-period)?

ASSUME BoundsAssumption ==
  /\ MaxLen \in Nat /\ MaxRuns \in Nat /\ MaxFaults \in Nat
  /\ MaxReplid \in Nat \ {0}
ASSUME RdbSizesAssumption == RdbSizes \subseteq Nat \ {0}
ASSUME KeepAliveAssumption == KeepAlive \in BOOLEAN

NoReplid == 0                   \* the empty string
NoOffset == -1
Replids  == 1 .. MaxReplid

VARIABLES
  master,               \* source: current history, how much it has produced, and how
                        \* much of that it took over from the history before
  ckpt,                 \* target: the two checkpoint hashes, what resuming reads
  runs, faults,         \* how often a process was started, how often a call failed
  cm,                   \* checkpoint_manager.is_some()
  initial,              \* initial_master_replid / initial_master_offset
  psync_offset,         \* AtomicI64 shared by the Input and the leader
  psync_master_replid,  \* Mutex<String> shared by the Input and the forwarder
  leader,               \* where run_leader is
  input,                \* where RedisInput::run is
  link,                 \* replication connection: its history, how much of that was
                        \* there before, and the next position
  rdb,                  \* the RDB file of this run: labels, bytes on disk
  aof,                  \* the AOF file of this run: labels, first position, length
  fwd,                  \* where the forwarding task is
  offset,               \* the forwarding task's offset
  sending,              \* bytes the current send call has written, or has to skip
  rdb_forwarded,
  stream,               \* persistent_stream
  wire,                 \* positions written to it the target has not executed yet
  begin,                \* history: first label this process read from the AOF file
  sent,                 \* history: positions ever written to a target connection
  resent,               \* history: those written more than once
  applied,              \* history: positions the target has executed
  base                  \* history: positions below it came with a restored snapshot

worldVars  == <<master, runs, faults>>
sharedVars == <<psync_offset, psync_master_replid>>
inputVars  == <<input, link, rdb, aof>>
mainVars   == <<cm, initial>>
fwdVars    == <<offset, sending, rdb_forwarded, begin>>
targetVars == <<stream, wire, sent, resent, applied, base>>
vars == <<worldVars, ckpt, sharedVars, leader, inputVars, mainVars, fwd,
          fwdVars, targetVars>>

LeaderPcs == {"down", "spawned", "waiting", "load", "watch"}
InputPcs  == {"off", "connect", "reply", "header", "rdb", "rdbMore", "ack",
              "notify", "open", "aof", "publish", "failed"}
FwdPcs    == {"off", "check", "idle", "wait", "open", "rdb", "aof", "backoff",
              "rdbCkOff", "rdbCkMap", "psOff", "aofCkOff", "aofCkMap"}

NoFile == [start |-> 0, size |-> 0, disk |-> 0]
NoAof  == [open |-> FALSE, start |-> 0, src |-> 0, len |-> 0]
NoLink == [replid |-> NoReplid, since |-> 0, pos |-> 0]
Nobody == [replid |-> NoReplid, off |-> NoOffset]

-----------------------------------------------------------------------------
(* What the forwarder sees of the channel files.                           *)

\* DataSet::find_rdb: the labels of the RDB file are start .. start + size - 1.
InRdb(o) == rdb.start <= o /\ o < rdb.start + rdb.size

\* DataSet::find_aof: the only segment is the last one not after o.
InAof(o) == aof.open /\ aof.start <= o

\* FileStorer::available_bytes: an RDB file counts with its declared size.
Available(o) == IF InRdb(o) THEN rdb.start + rdb.size - o
                ELSE IF InAof(o) THEN aof.len - (o - aof.start)
                ELSE 0

\* AofReader::open seeks to o - aof.start of a file that starts at aof.src.
AofPos(o) == aof.src + (o - aof.start)

\* Mutant of Woken: the writer does not notify.
WokenNever == fwd

\* notify_waiters() wakes a task that is waiting and leaves no permit behind.
Woken == IF fwd = "wait"       THEN "check" ELSE fwd
Called == IF leader = "waiting" THEN "load"  ELSE leader

Fault == faults < MaxFaults /\ faults' = faults + 1

-----------------------------------------------------------------------------
Init ==
  /\ master \in [replid : {1}, since : {0}, len : 0 .. MaxLen]
  /\ ckpt = [r \in Replids |-> [mapped |-> FALSE, off |-> NoOffset]]
  /\ runs = 0 /\ faults = 0
  /\ cm = FALSE /\ initial = Nobody
  /\ psync_offset = 0 /\ psync_master_replid = NoReplid
  /\ leader = "down" /\ input = "off"
  /\ link = NoLink /\ rdb = NoFile /\ aof = NoAof
  /\ fwd = "off" /\ offset = 0 /\ sending = 0 /\ rdb_forwarded = FALSE
  /\ stream = "none" /\ wire = {} /\ begin = NoOffset
  /\ sent = [r \in Replids |-> {}] /\ resent = [r \in Replids |-> {}]
  /\ applied = [r \in Replids |-> {}]
  /\ base = [r \in Replids |-> NoOffset]

-----------------------------------------------------------------------------
(* The source Redis (external).                                            *)

\* The source executes write commands.
MasterWrite ==
  /\ master.len < MaxLen
  /\ master' = [master EXCEPT !.len = @ + 1]
  /\ UNCHANGED <<runs, faults, ckpt, sharedVars, leader, inputVars, mainVars,
                 fwd, fwdVars, targetVars>>

\* A failover gives the data a new replication id; the offsets go on.  The id
\* before stays valid for what was produced under it (replid2 of Redis).
MasterFailover ==
  /\ master.replid < MaxReplid
  /\ master' = [master EXCEPT !.replid = @ + 1, !.since = master.len]
  /\ UNCHANGED <<runs, faults, ckpt, sharedVars, leader, inputVars, mainVars,
                 fwd, fwdVars, targetVars>>

-----------------------------------------------------------------------------
(* main(), and the leader task.                                            *)

\* main() up to the spawn of the syncer: ask the source for its replid, connect
\* the checkpoint manager (m), read the checkpoint; any failure (~ok) means a
\* full sync.  A checkpoint needs its mapping and its offset field.  Then
\* run_leader spawns the Input task.
Start ==
  /\ leader = "down" /\ runs < MaxRuns
  /\ runs' = runs + 1
  /\ \E m, ok \in BOOLEAN :
       /\ cm' = m
       /\ LET c == ckpt[master.replid] IN
          initial' = IF m /\ ok /\ c.mapped /\ c.off # NoOffset
                     THEN [replid |-> master.replid, off |-> c.off]
                     ELSE Nobody
  /\ leader' = "spawned" /\ input' = "connect"
  /\ UNCHANGED <<master, faults, ckpt, sharedVars, link, rdb, aof, fwd, fwdVars,
                 targetVars>>

\* run_leader reaches the select and psync_ready.notified() is registered.
LeaderListen ==
  /\ leader = "spawned"
  /\ leader' = "waiting"
  /\ UNCHANGED <<worldVars, ckpt, sharedVars, inputVars, mainVars, fwd, fwdVars,
                 targetVars>>

\* Mutant of LeaderTimeout: the wait for PSYNC is not bounded.
LeaderTimeoutNever == FALSE

\* The 30 s sleep of the select ends first.
LeaderTimeout ==
  /\ leader = "waiting"
  /\ leader' = "load"
  /\ UNCHANGED <<worldVars, ckpt, sharedVars, inputVars, mainVars, fwd, fwdVars,
                 targetVars>>

\* initial_offset = psync_offset.load(); spawn the forwarding task.
LeaderSpawn ==
  /\ leader = "load"
  /\ leader' = "watch"
  /\ fwd' = "check" /\ offset' = psync_offset
  /\ UNCHANGED <<worldVars, ckpt, sharedVars, inputVars, mainVars, sending,
                 rdb_forwarded, begin, targetVars>>

\* A connection to the target ends: the target has executed a prefix of what was
\* on it.
WireCut ==
  /\ wire' = {}
  /\ \E k \in 0 .. MaxLen :
       applied' = IF psync_master_replid = NoReplid THEN applied
                  ELSE [applied EXCEPT ![psync_master_replid] =
                          @ \union {p \in wire : p < k}]

\* The end of a process: its memory, its connections and the use of its files
\* are gone.
ProcessEnds ==
  /\ leader' = "down" /\ input' = "off" /\ fwd' = "off"
  /\ cm' = FALSE /\ initial' = Nobody
  /\ psync_offset' = 0 /\ psync_master_replid' = NoReplid
  /\ link' = NoLink /\ rdb' = NoFile /\ aof' = NoAof
  /\ offset' = 0 /\ sending' = 0 /\ rdb_forwarded' = FALSE /\ begin' = NoOffset
  /\ stream' = "none" /\ WireCut
  /\ UNCHANGED <<master, runs, ckpt, sent, resent, base>>

\* The Input task returned an error: run_leader aborts the forwarding task at
\* whatever await it is at and returns; main() leaves its select and exits.
LeaderAbort ==
  /\ leader = "watch" /\ input = "failed"
  /\ UNCHANGED faults
  /\ ProcessEnds

\* The process is killed (or stopped: /stop and Ctrl+C also end main()).
Crash ==
  /\ leader # "down"
  /\ Fault
  /\ ProcessEnds

-----------------------------------------------------------------------------
(* The Input task.                                                         *)

\* Mutants of SendPsync: without the test for a checkpoint; without the store.
SendPsyncUnguarded ==
  /\ input = "connect"
  /\ input' = "reply"
  /\ psync_master_replid' = initial.replid /\ psync_offset' = initial.off
  /\ UNCHANGED <<worldVars, ckpt, leader, link, rdb, aof, mainVars, fwd, fwdVars,
                 targetVars>>

SendPsyncNoStore ==
  /\ input = "connect"
  /\ input' = "reply"
  /\ IF initial.replid # NoReplid THEN psync_master_replid' = initial.replid
                                  ELSE UNCHANGED psync_master_replid
  /\ UNCHANGED <<worldVars, ckpt, psync_offset, leader, link, rdb, aof, mainVars, fwd,
                 fwdVars, targetVars>>

\* Connected and authenticated; send PSYNC.  With a checkpoint the shared
\* replid and offset are set to it before the command is written.
SendPsync ==
  /\ input = "connect"
  /\ input' = "reply"
  /\ IF initial.replid # NoReplid
     THEN /\ psync_master_replid' = initial.replid
          /\ psync_offset' = initial.off
     ELSE UNCHANGED sharedVars
  /\ UNCHANGED <<worldVars, ckpt, leader, link, rdb, aof, mainVars, fwd, fwdVars,
                 targetVars>>

\* Mutant of FullResync: the replid of the checkpoint stays.
FullResyncKeepsReplid ==
  /\ input = "reply"
  /\ input' = "header"
  /\ psync_offset' = master.len
  /\ psync_master_replid' = IF initial.replid # NoReplid THEN initial.replid
                                                         ELSE master.replid
  /\ link' = [replid |-> master.replid, since |-> master.since, pos |-> master.len]
  /\ UNCHANGED <<worldVars, ckpt, leader, rdb, aof, mainVars, fwd, fwdVars,
                 targetVars>>

\* +FULLRESYNC <replid> <offset>: the source may always answer with it.
FullResync ==
  /\ input = "reply"
  /\ input' = "header"
  /\ psync_offset' = master.len /\ psync_master_replid' = master.replid
  /\ link' = [replid |-> master.replid, since |-> master.since, pos |-> master.len]
  /\ UNCHANGED <<worldVars, ckpt, leader, rdb, aof, mainVars, fwd, fwdVars,
                 targetVars>>

\* +CONTINUE [<replid>]: the offset of PSYNC is the number of the first byte wanted,
\* and bytes are numbered from 1, so the source goes on at position off - 1.  It
\* answers so for its id, and for the one before if the byte wanted first is at most
\* the first one after the failover.  The id in the answer is not looked at.
Continue ==
  /\ input = "reply"
  /\ \/ initial.replid = master.replid
     \/ initial.replid = master.replid - 1 /\ initial.off <= master.since + 1
  /\ 1 <= initial.off /\ initial.off <= master.len + 1
  /\ input' = "notify"
  /\ link' = [replid |-> master.replid, since |-> master.since, pos |-> initial.off - 1]
  /\ UNCHANGED <<worldVars, ckpt, sharedVars, leader, rdb, aof, mainVars, fwd,
                 fwdVars, targetVars>>

\* receive_rdb_data: the $<size> header; get_rdb_writer registers the file under
\* master_offset - rdb_size with its full size before any byte is there.
ReceiveRdbHeader ==
  /\ input = "header"
  /\ input' = "rdb"
  /\ \E size \in RdbSizes :
       rdb' = [start |-> psync_offset - size, size |-> size, disk |-> 0]
  /\ UNCHANGED <<worldVars, ckpt, sharedVars, leader, link, aof, mainVars, fwd,
                 fwdVars, targetVars>>

\* One read and RdbWriter::poll_write, which notifies; the bytes may stay in
\* the BufWriter, so the file need not grow.
ReceiveRdbChunk ==
  /\ input \in {"rdb", "rdbMore"}
  /\ input' = "rdbMore"
  /\ \E d \in rdb.disk .. rdb.size : rdb' = [rdb EXCEPT !.disk = d]
  /\ fwd' = Woken
  /\ UNCHANGED <<worldVars, ckpt, sharedVars, leader, link, aof, mainVars, fwdVars,
                 targetVars>>

\* All bytes received: flush, which does not notify.
ReceiveRdbDone ==
  /\ input = "rdbMore"
  /\ input' = "ack"
  /\ rdb' = [rdb EXCEPT !.disk = rdb.size]
  /\ UNCHANGED <<worldVars, ckpt, sharedVars, leader, link, aof, mainVars, fwd,
                 fwdVars, targetVars>>

\* REPLCONF ACK after the RDB.
SendAck ==
  /\ input = "ack"
  /\ input' = "notify"
  /\ UNCHANGED <<worldVars, ckpt, sharedVars, leader, link, rdb, aof, mainVars, fwd,
                 fwdVars, targetVars>>

\* psync_ready.notify_waiters(): lost when the leader does not wait yet.
NotifyReady ==
  /\ input = "notify"
  /\ input' = "open"
  /\ leader' = Called
  /\ UNCHANGED <<worldVars, ckpt, sharedVars, link, rdb, aof, mainVars, fwd,
                 fwdVars, targetVars>>

\* Mutant of OpenAof: the file begins at master_offset + rdb_size, as a comment of
\* handle_psync_response has it.
OpenAofAfterRdb ==
  /\ input = "open"
  /\ input' = "aof"
  /\ aof' = [open |-> TRUE, start |-> psync_offset + rdb.size, src |-> link.pos,
             len |-> 0]
  /\ UNCHANGED <<worldVars, ckpt, sharedVars, leader, link, rdb, mainVars, fwd,
                 fwdVars, targetVars>>

\* receive_aof_stream: get_aof_writer creates and registers <offset>.aof.
OpenAof ==
  /\ input = "open"
  /\ input' = "aof"
  /\ aof' = [open |-> TRUE, start |-> psync_offset, src |-> link.pos, len |-> 0]
  /\ UNCHANGED <<worldVars, ckpt, sharedVars, leader, link, rdb, mainVars, fwd,
                 fwdVars, targetVars>>

\* One read of the stream, write_all, flush (the bytes are visible), notify.
ReceiveAof ==
  /\ input = "aof" /\ link.replid = master.replid
  /\ \E n \in 1 .. master.len - link.pos :
       /\ aof' = [aof EXCEPT !.len = @ + n]
       /\ link' = [link EXCEPT !.pos = @ + n]
  /\ input' = "publish"
  /\ fwd' = Woken
  /\ UNCHANGED <<worldVars, ckpt, sharedVars, leader, rdb, mainVars, fwdVars,
                 targetVars>>

\* psync_offset.store(initial_offset + received)
PublishOffset ==
  /\ input = "publish"
  /\ input' = "aof"
  /\ psync_offset' = aof.start + aof.len
  /\ UNCHANGED <<worldVars, ckpt, psync_master_replid, leader, link, rdb, aof,
                 mainVars, fwd, fwdVars, targetVars>>

\* A keepalive of the source arrives and is flushed like data; it carries no
\* key, so it is no position of the stream.
ReceivePing ==
  /\ KeepAlive
  /\ input = "aof" /\ link.replid = master.replid
  /\ fwd' = Woken
  /\ UNCHANGED <<worldVars, ckpt, sharedVars, leader, inputVars, mainVars, fwdVars,
                 targetVars>>

\* The Input task returns an error: a connection, protocol or file error.
InputFails ==
  /\ input \notin {"off", "failed"}
  /\ Fault
  /\ input' = "failed"
  /\ UNCHANGED <<master, runs, ckpt, sharedVars, leader, link, rdb, aof, mainVars,
                 fwd, fwdVars, targetVars>>

\* A failover closed the connection: a read returns 0 bytes or an error.
LinkLost ==
  /\ input \notin {"off", "failed"}
  /\ link.replid \notin {NoReplid, master.replid}
  /\ input' = "failed"
  /\ UNCHANGED <<worldVars, ckpt, sharedVars, leader, link, rdb, aof, mainVars,
                 fwd, fwdVars, targetVars>>

-----------------------------------------------------------------------------
(* The forwarding task.                                                    *)

\* The top of the loop: available_bytes(offset).
CheckAvailable ==
  /\ fwd = "check"
  /\ fwd' = IF Available(offset) > 0 THEN "open" ELSE "idle"
  /\ UNCHANGED <<worldVars, ckpt, sharedVars, leader, inputVars, mainVars, fwdVars,
                 targetVars>>

\* notify.notified() is registered, after available_bytes has looked.
AwaitNotify ==
  /\ fwd = "idle"
  /\ fwd' = "wait"
  /\ UNCHANGED <<worldVars, ckpt, sharedVars, leader, inputVars, mainVars, fwdVars,
                 targetVars>>

\* get_reader(offset) finds the RDB file; its reader yields what is left of it,
\* and persistent_stream is dropped.
OpenRdb ==
  /\ fwd = "open" /\ InRdb(offset)
  /\ fwd' = "rdb"
  /\ sending' = rdb.start + rdb.size - offset
  /\ stream' = "none"
  /\ UNCHANGED <<worldVars, ckpt, sharedVars, leader, inputVars, mainVars, offset,
                 rdb_forwarded, begin, wire, sent, resent, applied, base>>

\* get_reader(offset) finds the AOF file; new_stream() if there is none.
OpenAofReader ==
  /\ fwd = "open" /\ ~InRdb(offset) /\ InAof(offset)
  /\ fwd' = "aof"
  /\ sending' = 0
  /\ stream' = IF stream = "none" THEN "up" ELSE stream
  /\ begin' = IF begin = NoOffset THEN offset ELSE begin
  /\ UNCHANGED <<worldVars, ckpt, sharedVars, leader, inputVars, mainVars, offset,
                 rdb_forwarded, wire, sent, resent, applied, base>>

\* get_reader fails (wait for a notification) or new_stream fails (back off).
OpenFails ==
  /\ fwd = "open"
  /\ Fault
  /\ \/ fwd' = "idle"
     \/ fwd' = "backoff" /\ ~InRdb(offset) /\ stream = "none"
  /\ UNCHANGED <<master, runs, ckpt, sharedVars, leader, inputVars, mainVars,
                 fwdVars, targetVars>>

\* send_rdb_data reads the file from its first byte up to "sending" bytes and
\* parses them: only the whole file parses, and every key is then restored.
\* Anything else is logged and reported as sent.
RdbWhole == sending = rdb.size /\ rdb.disk = rdb.size

SendRdb ==
  /\ fwd = "rdb"
  /\ base' = IF RdbWhole
             THEN [base EXCEPT ![psync_master_replid] = rdb.start + rdb.size]
             ELSE base
  /\ offset' = offset + sending
  /\ rdb_forwarded' = TRUE
  /\ fwd' = IF ~rdb_forwarded /\ cm THEN "rdbCkOff" ELSE "check"
  /\ sending' = 0
  /\ UNCHANGED <<worldVars, ckpt, sharedVars, leader, inputVars, mainVars, begin,
                 stream, wire, sent, resent, applied>>

\* connecting, SELECT or a RESTORE fails: the RDB is sent again after 100 ms.
SendRdbFails ==
  /\ fwd = "rdb"
  /\ Fault
  /\ fwd' = "backoff" /\ sending' = 0
  /\ UNCHANGED <<master, runs, ckpt, sharedVars, leader, inputVars, mainVars, offset,
                 rdb_forwarded, begin, targetVars>>

\* send_aof_data: read what the file has now, write it; a broken connection may
\* still accept it.
SendAofChunk ==
  /\ fwd = "aof"
  /\ \E n \in 1 .. aof.len - (offset + sending - aof.start) :
       LET new == AofPos(offset + sending) .. AofPos(offset + sending) + n - 1 IN
       /\ sending' = sending + n
       /\ sent' = [sent EXCEPT ![psync_master_replid] = @ \union new]
       /\ resent' = [resent EXCEPT ![psync_master_replid] =
                       @ \union (new \intersect sent[psync_master_replid])]
       /\ wire' = IF stream = "up" THEN wire \union new ELSE wire
  /\ UNCHANGED <<worldVars, ckpt, sharedVars, leader, inputVars, mainVars, fwd,
                 offset, rdb_forwarded, begin, stream, applied, base>>

\* The reader is at the end of the file: Ok(sent); advance, and save a checkpoint
\* when checkpoint_interval has elapsed.
SendAofDone ==
  /\ fwd = "aof"
  /\ aof.len <= offset + sending - aof.start
  /\ offset' = offset + sending /\ sending' = 0
  /\ \/ fwd' = "check"
     \/ fwd' = "aofCkOff" /\ sending > 0 /\ cm
  /\ UNCHANGED <<worldVars, ckpt, sharedVars, leader, inputVars, mainVars,
                 rdb_forwarded, begin, targetVars>>

\* A write fails, or the reader does: drop the stream and back off.
SendAofError ==
  /\ fwd = "aof"
  /\ \/ stream = "broken" /\ UNCHANGED <<faults, wire, applied>>
     \/ stream = "up" /\ Fault /\ WireCut
  /\ fwd' = "backoff" /\ sending' = 0 /\ stream' = "none"

\* Mutants of SendAofFails: go on with what is received next; begin again.
SendAofFailsSkips ==
  /\ SendAofError
  /\ offset' = psync_offset
  /\ UNCHANGED <<master, runs, ckpt, sharedVars, leader, inputVars, mainVars,
                 rdb_forwarded, begin, sent, resent, base>>

SendAofFailsRestarts ==
  /\ SendAofError
  /\ offset' = begin
  /\ UNCHANGED <<master, runs, ckpt, sharedVars, leader, inputVars, mainVars,
                 rdb_forwarded, begin, sent, resent, base>>

\* The offset stays; what this call had already written will be written again.
SendAofFails ==
  /\ SendAofError
  /\ UNCHANGED <<master, runs, ckpt, sharedVars, leader, inputVars, mainVars, offset,
                 rdb_forwarded, begin, sent, resent, base>>

\* The 100 ms sleep ends.
Retry ==
  /\ fwd = "backoff"
  /\ fwd' = "check"
  /\ UNCHANGED <<worldVars, ckpt, sharedVars, leader, inputVars, mainVars, fwdVars,
                 targetVars>>

-----------------------------------------------------------------------------
(* Saving a checkpoint: HSETs, one await each.                             *)

\* Mutant of SaveOffset: the offset that is received, not the one forwarded.
SaveReceivedOffset ==
  /\ fwd \in {"rdbCkOff", "aofCkOff"}
  /\ ckpt' = [ckpt EXCEPT ![psync_master_replid].off = psync_offset]
  /\ fwd' = IF fwd = "rdbCkOff" THEN "rdbCkMap" ELSE "aofCkMap"
  /\ UNCHANGED <<worldVars, sharedVars, leader, inputVars, mainVars, fwdVars,
                 targetVars>>

\* CheckpointManager::save_checkpoint, HSET <replid>_offset.
SaveOffset ==
  /\ fwd \in {"rdbCkOff", "aofCkOff"}
  /\ ckpt' = [ckpt EXCEPT ![psync_master_replid].off = offset]
  /\ fwd' = IF fwd = "rdbCkOff" THEN "rdbCkMap" ELSE "aofCkMap"
  /\ UNCHANGED <<worldVars, sharedVars, leader, inputVars, mainVars, fwdVars,
                 targetVars>>

\* Its last HSET, the entry of redis_ha_tool_checkpoint_hash.
SaveMapping ==
  /\ fwd \in {"rdbCkMap", "aofCkMap"}
  /\ ckpt' = [ckpt EXCEPT ![psync_master_replid].mapped = TRUE]
  /\ fwd' = IF fwd = "rdbCkMap" THEN "psOff" ELSE "check"
  /\ UNCHANGED <<worldVars, sharedVars, leader, inputVars, mainVars, fwdVars,
                 targetVars>>

\* save_psync_info, after the RDB only: HSET <replid>_offset once more.
SavePsyncOffset ==
  /\ fwd = "psOff"
  /\ ckpt' = [ckpt EXCEPT ![psync_master_replid].off = offset]
  /\ fwd' = "check"
  /\ UNCHANGED <<worldVars, sharedVars, leader, inputVars, mainVars, fwdVars,
                 targetVars>>

\* An HSET fails; the error is logged and forwarding goes on.
SaveFails ==
  /\ fwd \in {"rdbCkOff", "rdbCkMap", "psOff", "aofCkOff", "aofCkMap"}
  /\ Fault
  /\ fwd' = IF fwd \in {"rdbCkOff", "rdbCkMap"} THEN "psOff" ELSE "check"
  /\ UNCHANGED <<master, runs, ckpt, sharedVars, leader, inputVars, mainVars,
                 fwdVars, targetVars>>

-----------------------------------------------------------------------------
(* The target Redis and the connection to it (external).                   *)

\* The target executes what has arrived.
TargetApply ==
  /\ stream = "up" /\ wire # {}
  /\ applied' = [applied EXCEPT ![psync_master_replid] = @ \union wire]
  /\ wire' = {}
  /\ UNCHANGED <<worldVars, ckpt, sharedVars, leader, inputVars, mainVars, fwd,
                 fwdVars, stream, sent, resent, base>>

\* The connection breaks.
TargetBreaks ==
  /\ stream = "up"
  /\ Fault
  /\ stream' = "broken" /\ WireCut
  /\ UNCHANGED <<master, runs, ckpt, sharedVars, leader, inputVars, mainVars, fwd,
                 fwdVars, sent, resent, base>>

-----------------------------------------------------------------------------
\* The steps of the Input task that follow from what it has, without new data.
InputSteps == \/ SendPsync \/ FullResync \/ Continue \/ ReceiveRdbHeader
              \/ ReceiveRdbDone \/ SendAck \/ NotifyReady \/ OpenAof
              \/ PublishOffset \/ LinkLost
FwdSteps   == \/ CheckAvailable \/ AwaitNotify \/ OpenRdb \/ OpenAofReader
              \/ OpenFails \/ SendRdb \/ SendRdbFails \/ SendAofChunk
              \/ SendAofDone \/ SendAofFails \/ Retry
SaveSteps  == SaveOffset \/ SaveMapping \/ SavePsyncOffset \/ SaveFails

Next ==
  \/ MasterWrite \/ MasterFailover
  \/ Start \/ LeaderListen \/ LeaderTimeout \/ LeaderSpawn \/ LeaderAbort \/ Crash
  \/ InputSteps \/ ReceiveRdbChunk \/ ReceiveAof \/ ReceivePing \/ InputFails
  \/ FwdSteps \/ SaveSteps
  \/ TargetApply \/ TargetBreaks

Spec == Init /\ [][Next]_vars

\* tokio runs every task that can make a step, timers fire, and a source that is
\* reachable delivers what it has produced.  Nothing is assumed of the source's
\* writes, of failovers, of faults, or of who starts the process again.
Fairness ==
  /\ WF_vars(LeaderListen) /\ WF_vars(LeaderTimeout)
  /\ WF_vars(LeaderSpawn) /\ WF_vars(LeaderAbort)
  /\ WF_vars(InputSteps) /\ WF_vars(input = "rdb" /\ ReceiveRdbChunk)
  /\ WF_vars(ReceiveAof) /\ WF_vars(ReceivePing)
  /\ WF_vars(FwdSteps) /\ WF_vars(SaveSteps) /\ WF_vars(TargetApply)

FairSpec == Spec /\ Fairness

-----------------------------------------------------------------------------
(* Properties.                                                             *)

OffsetOrNone == Nat \union {NoOffset}
ReplidOrNone == Replids \union {NoReplid}
FileType == [start : Int, size : Nat, disk : Nat]
AofType  == [open : BOOLEAN, start : Nat, src : Nat, len : Nat]

WorldType  == master \in [replid : Replids, since : Nat, len : Nat] /\ runs \in Nat /\ faults \in Nat
CkptType   == ckpt \in [Replids -> [mapped : BOOLEAN, off : OffsetOrNone]]
SharedType == psync_offset \in Nat /\ psync_master_replid \in ReplidOrNone
MainType   == /\ cm \in BOOLEAN
              /\ initial \in [replid : Replids, off : Nat] \union {Nobody}
              /\ leader \in LeaderPcs
InputType  == /\ input \in InputPcs
              /\ link \in [replid : ReplidOrNone, since : Nat, pos : Nat]
              /\ rdb \in FileType /\ aof \in AofType
FwdType    == /\ fwd \in FwdPcs
              /\ offset \in Nat /\ sending \in Nat
              /\ rdb_forwarded \in BOOLEAN
              /\ begin \in OffsetOrNone
TargetType == /\ stream \in {"none", "up", "broken"}
              /\ wire \subseteq Int
              /\ sent \in [Replids -> SUBSET Int]
              /\ resent \in [Replids -> SUBSET Int]
              /\ applied \in [Replids -> SUBSET Int]
              /\ base \in [Replids -> Int]

\* Every variable has its type.
TypeOK == /\ WorldType /\ CkptType /\ SharedType /\ MainType /\ InputType
          /\ FwdType /\ TargetType

\* Saving a checkpoint is several HSETs; this is when one is under way.
Saving == fwd \in {"rdbCkOff", "rdbCkMap", "psOff", "aofCkOff", "aofCkMap"}

\* No checkpoint is ahead of what the source has produced: a checkpoint is at
\* most one label beyond it (labels run one ahead after a resume), so a source
\* that still has the backlog can answer PSYNC <replid> <offset> with CONTINUE.
CheckpointNotInFuture ==
  \A r \in Replids : ckpt[r].off <= master.len + 1

\* In one process the forwarded bytes have no gap: everything between the label
\* its AOF reading began at and its offset was written to the target, through
\* all the retries, reconnections and wake-ups in between.
NoGapSinceBegin ==
  begin # NoOffset =>
    \A p \in AofPos(begin) .. AofPos(offset + sending) - 1 :
      p \in sent[psync_master_replid]

\* A checkpoint is saved under an id of the history whose bytes are being forwarded,
\* also when the source has changed its id since the checkpoint this process resumed
\* from was read: it is the id of that history, or the one before, and then all that
\* precedes the forwarded bytes is the same in both.
SavedIdIsContinued ==
  Saving =>
    \/ psync_master_replid = link.replid
    \/ psync_master_replid = link.replid - 1 /\ aof.open /\ aof.src <= link.since

\* An offset is written to the checkpoint only for a manager that is there, only
\* with the forwarder's own offset, and never beyond what was received.
CheckpointIsForwarded ==
  [][\A r \in Replids :
       ckpt'[r].off # ckpt[r].off =>
         /\ cm /\ r = psync_master_replid /\ ckpt'[r].off = offset
         /\ begin # NoOffset =>
              /\ offset <= aof.start + aof.len
              /\ \A p \in AofPos(begin) .. AofPos(offset) - 1 : p \in sent[r]
    ]_vars

\* Over all the processes the checkpoint of a history never falls back (by more
\* than the one label by which labels run ahead after a resume).
CheckpointNeverFallsBack ==
  [][\A r \in Replids : ckpt'[r].off + 1 >= ckpt[r].off]_vars

\* For each history r the forwarder is a cursor over the labels the source has
\* given out, and the checkpoint is only ever where that cursor was.
CursorOf(r) == IF fwd # "off" /\ psync_master_replid = r THEN offset ELSE NoOffset
Cursor(r)   == INSTANCE LogCursor WITH produced <- master.len + 1,
                                       cursor <- CursorOf(r), saved <- ckpt[r].off
IsLogCursor ==
  /\ \A r \in Replids : Cursor(r)!Init
  /\ [][\A r \in Replids : [Cursor(r)!Next]_(Cursor(r)!vars)]_vars

\* A failed Input task always ends the process, whatever the leader was doing
\* when it failed, so that it can be started again.
FailureEndsProcess == input = "failed" ~> leader = "down"

\* When the forwarder is inside the AOF file and there are bytes behind its
\* offset, it gets past that offset unless the process ends.
Behind(n) == fwd # "off" /\ offset = n /\ InAof(n) /\ n < aof.start + aof.len
Drains == \A n \in 0 .. MaxLen : Behind(n) ~> (offset > n \/ fwd = "off")

(* What comments and tests of the repository say, and this code does not do. *)

\* input.rs files the RDB "so that the forwarding task hits the RDB file"; after a
\* full resynchronisation the snapshot is in the target before the stream is.
SnapshotFirst ==
  fwd = "aof" /\ rdb.size > 0 => base[psync_master_replid] # NoOffset

\* syncer.rs takes the id of a checkpoint "from the PSYNC response, FULLRESYNC or
\* CONTINUE", and the documentation calls it the id of the source at that time.  After
\* a CONTINUE for the id before it is not: the next process looks for the new one.
OneHistory == Saving => psync_master_replid = link.replid

\* syncer.rs waits for the PSYNC response "to make sure that the forwarding task
\* uses the right initial offset": it begins with the first byte of the stream.
BeginsWithStream == begin # NoOffset => begin = aof.start

\* input.rs flushes every write "and notifies the forwarding task": the task does
\* not sleep while there are bytes for it.
NoLostWakeup == fwd = "wait" /\ ~InRdb(offset) => Available(offset) <= 0

\* syncer.rs bounds the wait for PSYNC by 30 s "against waiting forever": a forwarding
\* task that is started gets to where the stream begins, or the process ends.
ReachesStream ==
  fwd # "off" /\ aof.open ~> offset >= aof.start \/ fwd = "off"

\* tests/test_resume.rs: after an interruption "no data is duplicated".
NothingResent == \A r \in Replids : resent[r] = {}

\* tests/test_resume.rs: after an interruption "no data is lost".  What a saved
\* checkpoint lies behind is executed by the target, or on its way to it.
NothingLost ==
  \A r \in Replids : \A p \in sent[r] :
    ckpt[r].mapped /\ p < ckpt[r].off - 1 => p \in applied[r] \union wire
=============================================================================
