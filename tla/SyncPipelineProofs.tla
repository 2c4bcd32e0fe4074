------------------------- MODULE SyncPipelineProofs -------------------------
(***************************************************************************)
(* Proofs about SyncPipeline, for every value of its constants.            *)
(*                                                                         *)
(* The safety properties are not inductive: that a checkpoint is not ahead *)
(* of the source depends on which file a label was read from, on how that  *)
(* file was named, and on what the shared psync_offset was at that time.   *)
(* Inv collects these facts in groups, each proved from the ones before.   *)
(***************************************************************************)
EXTENDS SyncPipeline, TLAPS

\* The connection, the shared replid and the files belong together: there is a
\* file only when the PSYNC response has been read.
Linked ==
  /\ leader = "down" => input = "off"
  /\ input = "reply" /\ initial.replid # NoReplid
       => psync_master_replid = initial.replid
  /\ input \in {"off", "connect", "reply"} => link.replid = NoReplid
  /\ input \in {"header", "rdb", "rdbMore", "ack", "notify", "open", "aof", "publish"}
       => link.replid # NoReplid
  /\ link.replid # NoReplid => psync_master_replid # NoReplid
  /\ rdb.size > 0 => link.replid # NoReplid /\ input # "header"
  /\ rdb.size = 0 => rdb.start = 0
  /\ aof.open => link.replid # NoReplid /\ input \in {"aof", "publish", "failed"}
  /\ input \in {"aof", "publish"} => aof.open

\* The shared replid is that of the history on the connection, or the one before; in
\* that case there is no snapshot and the stream began where both are the same.
Continued ==
  link.replid # NoReplid =>
    \/ psync_master_replid = link.replid
    \/ /\ psync_master_replid = link.replid - 1
       /\ rdb.size = 0 /\ input \notin {"header", "rdb", "rdbMore", "ack"}
       /\ input \in {"notify", "open"} => link.pos <= link.since
       /\ aof.open => aof.src <= link.since

\* The forwarding task exists while the leader watches the Input task.
Spawned ==
  /\ fwd = "off" <=> leader # "watch"
  /\ fwd = "off" => offset = 0 /\ begin = NoOffset
  /\ fwd \notin {"rdb", "aof"} => sending = 0

\* What was read from the checkpoint at the start is still there when PSYNC is
\* answered, and is what the shared offset was set to.
Resumed ==
  /\ input \in {"connect", "reply"} /\ initial.replid # NoReplid
       => ckpt[initial.replid].off = initial.off
  /\ input = "reply" /\ initial.replid # NoReplid => psync_offset = initial.off

\* How labels relate to positions, and the files to each other.
Labels ==
  /\ input \in {"header", "rdb", "rdbMore", "ack", "notify", "open"}
       => link.pos <= psync_offset /\ psync_offset <= link.pos + 1
  /\ input \in {"rdb", "rdbMore", "ack", "notify", "open"}
       => rdb.start + rdb.size <= psync_offset
  /\ aof.open => /\ link.pos = aof.src + aof.len
                 /\ aof.src <= aof.start /\ aof.start <= aof.src + 1
                 /\ rdb.start + rdb.size <= aof.start

\* No label is more than one beyond what the source has produced.
Bounded ==
  /\ link.pos <= master.len
  /\ rdb.start + rdb.size <= master.len + 1
  /\ initial.off <= master.len + 1
  /\ psync_offset <= master.len + 1
  /\ offset + sending <= master.len + 1
  /\ CheckpointNotInFuture

\* Where the forwarding task is in the files.
Reading ==
  /\ begin # NoOffset => /\ aof.open
                         /\ aof.start <= begin /\ begin <= offset
                         /\ offset + sending <= aof.start + aof.len
  /\ fwd = "open" => \/ InRdb(offset)
                     \/ InAof(offset) /\ offset < aof.start + aof.len
  /\ fwd = "aof" => begin # NoOffset
  /\ fwd = "rdb" => /\ rdb.size > 0 /\ begin = NoOffset
                    /\ offset + sending = rdb.start + rdb.size
  /\ Saving => cm /\ (rdb.size > 0 \/ aof.open)

\* The checkpoint of the history on the connection is not ahead of the forwarder
\* once it forwards, and not ahead of where the files begin before that.
Front ==
  /\ link.replid # NoReplid =>
       \/ ckpt[psync_master_replid].off <= offset + 1
       \/ /\ input \in {"header", "rdb", "rdbMore", "ack", "notify", "open"}
               => ckpt[psync_master_replid].off <= psync_offset + 1
          /\ rdb.size > 0 => ckpt[psync_master_replid].off <= rdb.start + rdb.size + 1
          /\ aof.open => ckpt[psync_master_replid].off <= aof.start + 1
  /\ Saving \/ fwd = "aof" => ckpt[psync_master_replid].off <= offset + 1

Inv == /\ TypeOK /\ Linked /\ Continued /\ Spawned /\ Resumed /\ Labels /\ Bounded /\ Reading
       /\ NoGapSinceBegin /\ Front

-----------------------------------------------------------------------------
(* Type correctness, one part of TypeOK at a time.                         *)

LEMMA TypeInit == Init => TypeOK
<1> SUFFICES ASSUME Init PROVE TypeOK
  OBVIOUS
<1> USE BoundsAssumption DEF Init, Replids, ReplidOrNone, OffsetOrNone, NoReplid, NoOffset
<1>1. WorldType /\ SharedType
  BY DEF WorldType, SharedType
<1>2. CkptType
  BY DEF CkptType
<1>3. MainType
  BY DEF MainType, LeaderPcs
<1>4. InputType
  BY DEF InputType, InputPcs, FileType, AofType, NoLink, NoFile, NoAof
<1>5. FwdType
  BY DEF FwdType, FwdPcs
<1>6. TargetType
  BY DEF TargetType
<1> QED
  BY <1>1, <1>2, <1>3, <1>4, <1>5, <1>6 DEF TypeOK

LEMMA AddTo ==
  ASSUME NEW f \in [Replids -> SUBSET Int], NEW r, NEW S \in SUBSET Int
  PROVE  [f EXCEPT ![r] = @ \union S] \in [Replids -> SUBSET Int]
  OBVIOUS

\* What a cut of the connection leaves.
LEMMA WireCutType ==
  ASSUME TargetType, WireCut
  PROVE  wire' = {} /\ applied' \in [Replids -> SUBSET Int]
<1>1. PICK k \in 0 .. MaxLen :
        applied' = IF psync_master_replid = NoReplid THEN applied
                   ELSE [applied EXCEPT ![psync_master_replid] =
                           @ \union {p \in wire : p < k}]
  BY DEF WireCut
<1>2. {p \in wire : p < k} \in SUBSET Int
  BY DEF TargetType
<1> QED
  BY <1>1, <1>2, AddTo DEF TargetType, WireCut

LEMMA TypeStep == TypeOK /\ [Next]_vars => TypeOK'
<1> SUFFICES ASSUME TypeOK, [Next]_vars PROVE TypeOK'
  OBVIOUS
<1>t. WorldType /\ CkptType /\ SharedType /\ MainType /\ InputType /\ FwdType /\ TargetType
  BY DEF TypeOK
<1> USE BoundsAssumption, RdbSizesAssumption, <1>t
    DEF Replids, ReplidOrNone, OffsetOrNone, NoReplid, NoOffset
<1>1. CASE MasterWrite
  <2>1. CkptType' /\ SharedType' /\ MainType' /\ InputType' /\ FwdType' /\ TargetType'
    BY <1>1 DEF MasterWrite, CkptType, SharedType, MainType, InputType, FwdType,
       TargetType, sharedVars, mainVars, inputVars, fwdVars, targetVars
  <2>2. WorldType'
    BY <1>1 DEF MasterWrite, WorldType, worldVars
  <2> QED
    BY <2>1, <2>2 DEF TypeOK
<1>2. CASE MasterFailover
  <2>1. CkptType' /\ SharedType' /\ MainType' /\ InputType' /\ FwdType' /\ TargetType'
    BY <1>2 DEF MasterFailover, CkptType, SharedType, MainType, InputType, FwdType,
       TargetType, sharedVars, mainVars, inputVars, fwdVars, targetVars
  <2>2. WorldType'
    <3>1. master.replid + 1 \in Replids /\ master.len \in Nat
      BY <1>2 DEF MasterFailover, WorldType
    <3>2. master' = [master EXCEPT !.replid = @ + 1, !.since = master.len]
      BY <1>2 DEF MasterFailover
    <3>3. master' \in [replid : Replids, since : Nat, len : Nat]
      BY <3>1, <3>2 DEF WorldType
    <3> QED
      BY <3>3, <1>2 DEF MasterFailover, WorldType
  <2> QED
    BY <2>1, <2>2 DEF TypeOK
<1>3. CASE Start
  <2>1. CkptType' /\ SharedType' /\ FwdType' /\ TargetType'
    BY <1>3 DEF Start, CkptType, SharedType, FwdType, TargetType, sharedVars, fwdVars,
       targetVars
  <2>2. WorldType'
    BY <1>3 DEF Start, WorldType, worldVars
  <2>3. MainType'
    BY <1>3 DEF Start, MainType, LeaderPcs, WorldType, CkptType, Nobody, mainVars
  <2>4. InputType'
    BY <1>3 DEF Start, InputType, InputPcs, FileType, AofType, NoLink, NoFile, NoAof,
       SharedType, WorldType, MainType, Nobody, inputVars
  <2> QED
    BY <2>1, <2>2, <2>3, <2>4 DEF TypeOK
<1>4. CASE LeaderListen
  <2>1. WorldType' /\ CkptType' /\ SharedType' /\ InputType' /\ FwdType' /\ TargetType'
    BY <1>4 DEF LeaderListen, WorldType, CkptType, SharedType, InputType, FwdType,
       TargetType, worldVars, sharedVars, inputVars, fwdVars, targetVars
  <2>2. MainType'
    BY <1>4 DEF LeaderListen, MainType, LeaderPcs, WorldType, CkptType, Nobody, mainVars
  <2> QED
    BY <2>1, <2>2 DEF TypeOK
<1>5. CASE LeaderTimeout
  <2>1. WorldType' /\ CkptType' /\ SharedType' /\ InputType' /\ FwdType' /\ TargetType'
    BY <1>5 DEF LeaderTimeout, WorldType, CkptType, SharedType, InputType, FwdType,
       TargetType, worldVars, sharedVars, inputVars, fwdVars, targetVars
  <2>2. MainType'
    BY <1>5 DEF LeaderTimeout, MainType, LeaderPcs, WorldType, CkptType, Nobody, mainVars
  <2> QED
    BY <2>1, <2>2 DEF TypeOK
<1>6. CASE LeaderSpawn
  <2>1. WorldType' /\ CkptType' /\ SharedType' /\ InputType' /\ TargetType'
    BY <1>6 DEF LeaderSpawn, WorldType, CkptType, SharedType, InputType, TargetType,
       worldVars, sharedVars, inputVars, targetVars
  <2>2. MainType'
    BY <1>6 DEF LeaderSpawn, MainType, LeaderPcs, WorldType, CkptType, Nobody, mainVars
  <2>3. FwdType'
    BY <1>6 DEF LeaderSpawn, FwdType, FwdPcs, SharedType, InputType, FileType, AofType,
       fwdVars
  <2> QED
    BY <2>1, <2>2, <2>3 DEF TypeOK
<1>7. CASE LeaderAbort
  <2>1. WorldType' /\ CkptType'
    BY <1>7 DEF LeaderAbort, ProcessEnds, WorldType, CkptType, worldVars
  <2>2. SharedType'
    BY <1>7 DEF LeaderAbort, ProcessEnds, SharedType, MainType, InputType, AofType,
       WorldType, Nobody, sharedVars
  <2>3. MainType'
    BY <1>7 DEF LeaderAbort, ProcessEnds, MainType, LeaderPcs, WorldType, CkptType,
       Nobody, mainVars
  <2>4. InputType'
    BY <1>7 DEF LeaderAbort, ProcessEnds, InputType, InputPcs, FileType, AofType, NoLink,
       NoFile, NoAof, SharedType, WorldType, MainType, Nobody, inputVars
  <2>5. FwdType'
    BY <1>7 DEF LeaderAbort, ProcessEnds, FwdType, FwdPcs, SharedType, InputType,
       FileType, AofType, fwdVars
  <2>6. TargetType'
    <3>1. wire' = {} /\ applied' \in [Replids -> SUBSET Int]
      BY <1>7, WireCutType DEF LeaderAbort, ProcessEnds
    <3> QED
      BY <3>1, <1>7 DEF LeaderAbort, ProcessEnds, TargetType
  <2> QED
    BY <2>1, <2>2, <2>3, <2>4, <2>5, <2>6 DEF TypeOK
<1>8. CASE Crash
  <2>1. CkptType'
    BY <1>8 DEF Crash, ProcessEnds, Fault, CkptType
  <2>2. WorldType'
    BY <1>8 DEF Crash, ProcessEnds, Fault, WorldType, worldVars
  <2>3. SharedType'
    BY <1>8 DEF Crash, ProcessEnds, Fault, SharedType, MainType, InputType, AofType,
       WorldType, Nobody, sharedVars
  <2>4. MainType'
    BY <1>8 DEF Crash, ProcessEnds, Fault, MainType, LeaderPcs, WorldType, CkptType,
       Nobody, mainVars
  <2>5. InputType'
    BY <1>8 DEF Crash, ProcessEnds, Fault, InputType, InputPcs, FileType, AofType, NoLink,
       NoFile, NoAof, SharedType, WorldType, MainType, Nobody, inputVars
  <2>6. FwdType'
    BY <1>8 DEF Crash, ProcessEnds, Fault, FwdType, FwdPcs, SharedType, InputType,
       FileType, AofType, fwdVars
  <2>7. TargetType'
    <3>1. wire' = {} /\ applied' \in [Replids -> SUBSET Int]
      BY <1>8, WireCutType DEF Crash, ProcessEnds
    <3> QED
      BY <3>1, <1>8 DEF Crash, ProcessEnds, Fault, TargetType
  <2> QED
    BY <2>1, <2>2, <2>3, <2>4, <2>5, <2>6, <2>7 DEF TypeOK
<1>9. CASE SendPsync
  <2>1. WorldType' /\ CkptType' /\ MainType' /\ FwdType' /\ TargetType'
    BY <1>9 DEF SendPsync, WorldType, CkptType, MainType, FwdType, TargetType, worldVars,
       mainVars, fwdVars, targetVars
  <2>2. SharedType'
    BY <1>9 DEF SendPsync, SharedType, MainType, InputType, AofType, WorldType, Nobody,
       sharedVars
  <2>3. InputType'
    BY <1>9 DEF SendPsync, InputType, InputPcs, FileType, AofType, NoLink, NoFile, NoAof,
       SharedType, WorldType, MainType, Nobody, inputVars
  <2> QED
    BY <2>1, <2>2, <2>3 DEF TypeOK
<1>10. CASE FullResync
  <2>1. WorldType' /\ CkptType' /\ MainType' /\ FwdType' /\ TargetType'
    BY <1>10 DEF FullResync, WorldType, CkptType, MainType, FwdType, TargetType,
       worldVars, mainVars, fwdVars, targetVars
  <2>2. SharedType'
    BY <1>10 DEF FullResync, SharedType, MainType, InputType, AofType, WorldType, Nobody,
       sharedVars
  <2>3. InputType'
    BY <1>10 DEF FullResync, InputType, InputPcs, FileType, AofType, NoLink, NoFile,
       NoAof, SharedType, WorldType, MainType, Nobody, inputVars
  <2> QED
    BY <2>1, <2>2, <2>3 DEF TypeOK
<1>11. CASE Continue
  <2>1. WorldType' /\ CkptType' /\ SharedType' /\ MainType' /\ FwdType' /\ TargetType'
    BY <1>11 DEF Continue, WorldType, CkptType, SharedType, MainType, FwdType, TargetType,
       worldVars, sharedVars, mainVars, fwdVars, targetVars
  <2>2. InputType'
    BY <1>11 DEF Continue, InputType, InputPcs, FileType, AofType, NoLink, NoFile, NoAof,
       SharedType, WorldType, MainType, Nobody, inputVars
  <2> QED
    BY <2>1, <2>2 DEF TypeOK
<1>12. CASE ReceiveRdbHeader
  <2>1. WorldType' /\ CkptType' /\ SharedType' /\ MainType' /\ FwdType' /\ TargetType'
    BY <1>12 DEF ReceiveRdbHeader, WorldType, CkptType, SharedType, MainType, FwdType,
       TargetType, worldVars, sharedVars, mainVars, fwdVars, targetVars
  <2>2. InputType'
    BY <1>12 DEF ReceiveRdbHeader, InputType, InputPcs, FileType, AofType, NoLink, NoFile,
       NoAof, SharedType, WorldType, MainType, Nobody, inputVars
  <2> QED
    BY <2>1, <2>2 DEF TypeOK
<1>13. CASE ReceiveRdbDone
  <2>1. WorldType' /\ CkptType' /\ SharedType' /\ MainType' /\ FwdType' /\ TargetType'
    BY <1>13 DEF ReceiveRdbDone, WorldType, CkptType, SharedType, MainType, FwdType,
       TargetType, worldVars, sharedVars, mainVars, fwdVars, targetVars
  <2>2. InputType'
    BY <1>13 DEF ReceiveRdbDone, InputType, InputPcs, FileType, AofType, NoLink, NoFile,
       NoAof, SharedType, WorldType, MainType, Nobody, inputVars
  <2> QED
    BY <2>1, <2>2 DEF TypeOK
<1>14. CASE SendAck
  <2>1. WorldType' /\ CkptType' /\ SharedType' /\ MainType' /\ FwdType' /\ TargetType'
    BY <1>14 DEF SendAck, WorldType, CkptType, SharedType, MainType, FwdType, TargetType,
       worldVars, sharedVars, mainVars, fwdVars, targetVars
  <2>2. InputType'
    BY <1>14 DEF SendAck, InputType, InputPcs, FileType, AofType, NoLink, NoFile, NoAof,
       SharedType, WorldType, MainType, Nobody, inputVars
  <2> QED
    BY <2>1, <2>2 DEF TypeOK
<1>15. CASE NotifyReady
  <2>1. WorldType' /\ CkptType' /\ SharedType' /\ FwdType' /\ TargetType'
    BY <1>15 DEF NotifyReady, Called, WorldType, CkptType, SharedType, FwdType,
       TargetType, worldVars, sharedVars, fwdVars, targetVars
  <2>2. MainType'
    BY <1>15 DEF NotifyReady, Called, MainType, LeaderPcs, WorldType, CkptType, Nobody,
       mainVars
  <2>3. InputType'
    BY <1>15 DEF NotifyReady, Called, InputType, InputPcs, FileType, AofType, NoLink,
       NoFile, NoAof, SharedType, WorldType, MainType, Nobody, inputVars
  <2> QED
    BY <2>1, <2>2, <2>3 DEF TypeOK
<1>16. CASE OpenAof
  <2>1. WorldType' /\ CkptType' /\ SharedType' /\ MainType' /\ FwdType' /\ TargetType'
    BY <1>16 DEF OpenAof, WorldType, CkptType, SharedType, MainType, FwdType, TargetType,
       worldVars, sharedVars, mainVars, fwdVars, targetVars
  <2>2. InputType'
    BY <1>16 DEF OpenAof, InputType, InputPcs, FileType, AofType, NoLink, NoFile, NoAof,
       SharedType, WorldType, MainType, Nobody, inputVars
  <2> QED
    BY <2>1, <2>2 DEF TypeOK
<1>17. CASE PublishOffset
  <2>1. WorldType' /\ CkptType' /\ MainType' /\ FwdType' /\ TargetType'
    BY <1>17 DEF PublishOffset, WorldType, CkptType, MainType, FwdType, TargetType,
       worldVars, mainVars, fwdVars, targetVars
  <2>2. SharedType'
    BY <1>17 DEF PublishOffset, SharedType, MainType, InputType, AofType, WorldType,
       Nobody, sharedVars
  <2>3. InputType'
    BY <1>17 DEF PublishOffset, InputType, InputPcs, FileType, AofType, NoLink, NoFile,
       NoAof, SharedType, WorldType, MainType, Nobody, inputVars
  <2> QED
    BY <2>1, <2>2, <2>3 DEF TypeOK
<1>18. CASE LinkLost
  <2>1. WorldType' /\ CkptType' /\ SharedType' /\ MainType' /\ FwdType' /\ TargetType'
    BY <1>18 DEF LinkLost, WorldType, CkptType, SharedType, MainType, FwdType, TargetType,
       worldVars, sharedVars, mainVars, fwdVars, targetVars
  <2>2. InputType'
    BY <1>18 DEF LinkLost, InputType, InputPcs, FileType, AofType, NoLink, NoFile, NoAof,
       SharedType, WorldType, MainType, Nobody, inputVars
  <2> QED
    BY <2>1, <2>2 DEF TypeOK
<1>19. CASE ReceiveRdbChunk
  <2>1. WorldType' /\ CkptType' /\ SharedType' /\ MainType' /\ TargetType'
    BY <1>19 DEF ReceiveRdbChunk, Woken, WorldType, CkptType, SharedType, MainType,
       TargetType, worldVars, sharedVars, mainVars, targetVars
  <2>2. InputType'
    BY <1>19 DEF ReceiveRdbChunk, Woken, InputType, InputPcs, FileType, AofType, NoLink,
       NoFile, NoAof, SharedType, WorldType, MainType, Nobody, inputVars
  <2>3. FwdType'
    BY <1>19 DEF ReceiveRdbChunk, Woken, FwdType, FwdPcs, SharedType, InputType, FileType,
       AofType, fwdVars
  <2> QED
    BY <2>1, <2>2, <2>3 DEF TypeOK
<1>20. CASE ReceiveAof
  <2>1. WorldType' /\ CkptType' /\ SharedType' /\ MainType' /\ TargetType'
    BY <1>20 DEF ReceiveAof, Woken, WorldType, CkptType, SharedType, MainType, TargetType,
       worldVars, sharedVars, mainVars, targetVars
  <2>2. InputType'
    BY <1>20 DEF ReceiveAof, Woken, InputType, InputPcs, FileType, AofType, NoLink,
       NoFile, NoAof, SharedType, WorldType, MainType, Nobody, inputVars
  <2>3. FwdType'
    BY <1>20 DEF ReceiveAof, Woken, FwdType, FwdPcs, SharedType, InputType, FileType,
       AofType, fwdVars
  <2> QED
    BY <2>1, <2>2, <2>3 DEF TypeOK
<1>21. CASE ReceivePing
  <2>1. WorldType' /\ CkptType' /\ SharedType' /\ MainType' /\ InputType' /\ TargetType'
    BY <1>21 DEF ReceivePing, Woken, WorldType, CkptType, SharedType, MainType, InputType,
       TargetType, worldVars, sharedVars, mainVars, inputVars, targetVars
  <2>2. FwdType'
    BY <1>21 DEF ReceivePing, Woken, FwdType, FwdPcs, SharedType, InputType, FileType,
       AofType, fwdVars
  <2> QED
    BY <2>1, <2>2 DEF TypeOK
<1>22. CASE InputFails
  <2>1. CkptType' /\ SharedType' /\ MainType' /\ FwdType' /\ TargetType'
    BY <1>22 DEF InputFails, Fault, CkptType, SharedType, MainType, FwdType, TargetType,
       sharedVars, mainVars, fwdVars, targetVars
  <2>2. WorldType'
    BY <1>22 DEF InputFails, Fault, WorldType, worldVars
  <2>3. InputType'
    BY <1>22 DEF InputFails, Fault, InputType, InputPcs, FileType, AofType, NoLink,
       NoFile, NoAof, SharedType, WorldType, MainType, Nobody, inputVars
  <2> QED
    BY <2>1, <2>2, <2>3 DEF TypeOK
<1>23. CASE CheckAvailable
  <2>1. WorldType' /\ CkptType' /\ SharedType' /\ MainType' /\ InputType' /\ TargetType'
    BY <1>23 DEF CheckAvailable, WorldType, CkptType, SharedType, MainType, InputType,
       TargetType, worldVars, sharedVars, mainVars, inputVars, targetVars
  <2>2. FwdType'
    BY <1>23 DEF CheckAvailable, FwdType, FwdPcs, SharedType, InputType, FileType,
       AofType, fwdVars
  <2> QED
    BY <2>1, <2>2 DEF TypeOK
<1>24. CASE AwaitNotify
  <2>1. WorldType' /\ CkptType' /\ SharedType' /\ MainType' /\ InputType' /\ TargetType'
    BY <1>24 DEF AwaitNotify, WorldType, CkptType, SharedType, MainType, InputType,
       TargetType, worldVars, sharedVars, mainVars, inputVars, targetVars
  <2>2. FwdType'
    BY <1>24 DEF AwaitNotify, FwdType, FwdPcs, SharedType, InputType, FileType, AofType,
       fwdVars
  <2> QED
    BY <2>1, <2>2 DEF TypeOK
<1>25. CASE OpenRdb
  <2>1. WorldType' /\ CkptType' /\ SharedType' /\ MainType' /\ InputType'
    BY <1>25 DEF OpenRdb, InRdb, WorldType, CkptType, SharedType, MainType, InputType,
       worldVars, sharedVars, mainVars, inputVars
  <2>2. FwdType'
    BY <1>25 DEF OpenRdb, InRdb, FwdType, FwdPcs, SharedType, InputType, FileType,
       AofType, fwdVars
  <2>3. TargetType'
    BY <1>25 DEF OpenRdb, InRdb, TargetType, SharedType, FwdType, InputType, FileType,
       AofType, targetVars
  <2> QED
    BY <2>1, <2>2, <2>3 DEF TypeOK
<1>26. CASE OpenAofReader
  <2>1. WorldType' /\ CkptType' /\ SharedType' /\ MainType' /\ InputType'
    BY <1>26 DEF OpenAofReader, WorldType, CkptType, SharedType, MainType, InputType,
       worldVars, sharedVars, mainVars, inputVars
  <2>2. FwdType'
    BY <1>26 DEF OpenAofReader, FwdType, FwdPcs, SharedType, InputType, FileType, AofType,
       fwdVars
  <2>3. TargetType'
    BY <1>26 DEF OpenAofReader, TargetType, SharedType, FwdType, InputType, FileType,
       AofType, targetVars
  <2> QED
    BY <2>1, <2>2, <2>3 DEF TypeOK
<1>27. CASE OpenFails
  <2>1. CkptType' /\ SharedType' /\ MainType' /\ InputType' /\ TargetType'
    BY <1>27 DEF OpenFails, Fault, CkptType, SharedType, MainType, InputType, TargetType,
       sharedVars, mainVars, inputVars, targetVars
  <2>2. WorldType'
    BY <1>27 DEF OpenFails, Fault, WorldType, worldVars
  <2>3. FwdType'
    BY <1>27 DEF OpenFails, Fault, FwdType, FwdPcs, SharedType, InputType, FileType,
       AofType, fwdVars
  <2> QED
    BY <2>1, <2>2, <2>3 DEF TypeOK
<1>28. CASE SendRdb
  <2>1. WorldType' /\ CkptType' /\ SharedType' /\ MainType' /\ InputType'
    BY <1>28 DEF SendRdb, RdbWhole, WorldType, CkptType, SharedType, MainType, InputType,
       worldVars, sharedVars, mainVars, inputVars
  <2>2. FwdType'
    BY <1>28 DEF SendRdb, RdbWhole, FwdType, FwdPcs, SharedType, InputType, FileType,
       AofType, fwdVars
  <2>3. TargetType'
    <3>1. rdb.start + rdb.size \in Int
      BY DEF InputType, FileType
    <3>2. base' \in [Replids -> Int]
      BY <3>1, <1>28 DEF SendRdb, TargetType
    <3> QED
      BY <3>2, <1>28 DEF SendRdb, TargetType
  <2> QED
    BY <2>1, <2>2, <2>3 DEF TypeOK
<1>29. CASE SendRdbFails
  <2>1. CkptType' /\ SharedType' /\ MainType' /\ InputType' /\ TargetType'
    BY <1>29 DEF SendRdbFails, Fault, CkptType, SharedType, MainType, InputType,
       TargetType, sharedVars, mainVars, inputVars, targetVars
  <2>2. WorldType'
    BY <1>29 DEF SendRdbFails, Fault, WorldType, worldVars
  <2>3. FwdType'
    BY <1>29 DEF SendRdbFails, Fault, FwdType, FwdPcs, SharedType, InputType, FileType,
       AofType, fwdVars
  <2> QED
    BY <2>1, <2>2, <2>3 DEF TypeOK
<1>30. CASE SendAofChunk
  <2>1. WorldType' /\ CkptType' /\ SharedType' /\ MainType' /\ InputType'
    BY <1>30 DEF SendAofChunk, AofPos, WorldType, CkptType, SharedType, MainType,
       InputType, worldVars, sharedVars, mainVars, inputVars
  <2>2. FwdType'
    BY <1>30 DEF SendAofChunk, AofPos, FwdType, FwdPcs, SharedType, InputType, FileType,
       AofType, fwdVars
  <2>3. TargetType'
    <3>1. PICK n \in 1 .. aof.len - (offset + sending - aof.start) :
            LET new == AofPos(offset + sending) .. AofPos(offset + sending) + n - 1 IN
            /\ sent' = [sent EXCEPT ![psync_master_replid] = @ \union new]
            /\ resent' = [resent EXCEPT ![psync_master_replid] =
                            @ \union (new \intersect sent[psync_master_replid])]
            /\ wire' = IF stream = "up" THEN wire \union new ELSE wire
      BY <1>30 DEF SendAofChunk
    <3> DEFINE new == AofPos(offset + sending) .. AofPos(offset + sending) + n - 1
    <3>2. new \in SUBSET Int /\ new \intersect sent[psync_master_replid] \in SUBSET Int
      OBVIOUS
    <3>3. sent' \in [Replids -> SUBSET Int] /\ resent' \in [Replids -> SUBSET Int]
      <4> HIDE DEF new
      <4> QED BY <3>1, <3>2, AddTo DEF TargetType, new
    <3>4. wire' \subseteq Int
      BY <3>1, <3>2 DEF TargetType
    <3> QED
      BY <3>3, <3>4, <1>30 DEF SendAofChunk, TargetType
  <2> QED
    BY <2>1, <2>2, <2>3 DEF TypeOK
<1>31. CASE SendAofDone
  <2>1. WorldType' /\ CkptType' /\ SharedType' /\ MainType' /\ InputType' /\ TargetType'
    BY <1>31 DEF SendAofDone, WorldType, CkptType, SharedType, MainType, InputType,
       TargetType, worldVars, sharedVars, mainVars, inputVars, targetVars
  <2>2. FwdType'
    BY <1>31 DEF SendAofDone, FwdType, FwdPcs, SharedType, InputType, FileType, AofType,
       fwdVars
  <2> QED
    BY <2>1, <2>2 DEF TypeOK
<1>32. CASE SendAofFails
  <2>1. WorldType' /\ CkptType' /\ SharedType' /\ MainType' /\ InputType'
    BY <1>32 DEF SendAofFails, SendAofError, Fault, WorldType, CkptType, SharedType,
       MainType, InputType,
       worldVars, sharedVars, mainVars, inputVars
  <2>2. FwdType'
    BY <1>32 DEF SendAofFails, SendAofError, Fault, FwdType, FwdPcs, SharedType,
       InputType, FileType, AofType,
       fwdVars
  <2>3. TargetType'
    <3>1. wire' \subseteq Int /\ applied' \in [Replids -> SUBSET Int]
      BY <1>32, WireCutType DEF SendAofFails, SendAofError, TargetType
    <3> QED
      BY <3>1, <1>32 DEF SendAofFails, SendAofError, TargetType
  <2> QED
    BY <2>1, <2>2, <2>3 DEF TypeOK
<1>33. CASE Retry
  <2>1. WorldType' /\ CkptType' /\ SharedType' /\ MainType' /\ InputType' /\ TargetType'
    BY <1>33 DEF Retry, WorldType, CkptType, SharedType, MainType, InputType, TargetType,
       worldVars, sharedVars, mainVars, inputVars, targetVars
  <2>2. FwdType'
    BY <1>33 DEF Retry, FwdType, FwdPcs, SharedType, InputType, FileType, AofType, fwdVars
  <2> QED
    BY <2>1, <2>2 DEF TypeOK
<1>34. CASE SaveOffset
  <2>1. WorldType' /\ SharedType' /\ MainType' /\ InputType' /\ TargetType'
    BY <1>34 DEF SaveOffset, WorldType, SharedType, MainType, InputType, TargetType,
       worldVars, sharedVars, mainVars, inputVars, targetVars
  <2>2. CkptType'
    BY <1>34 DEF SaveOffset, CkptType, FwdType, SharedType
  <2>3. FwdType'
    BY <1>34 DEF SaveOffset, FwdType, FwdPcs, SharedType, InputType, FileType, AofType,
       fwdVars
  <2> QED
    BY <2>1, <2>2, <2>3 DEF TypeOK
<1>35. CASE SaveMapping
  <2>1. WorldType' /\ SharedType' /\ MainType' /\ InputType' /\ TargetType'
    BY <1>35 DEF SaveMapping, WorldType, SharedType, MainType, InputType, TargetType,
       worldVars, sharedVars, mainVars, inputVars, targetVars
  <2>2. CkptType'
    BY <1>35 DEF SaveMapping, CkptType, FwdType, SharedType
  <2>3. FwdType'
    BY <1>35 DEF SaveMapping, FwdType, FwdPcs, SharedType, InputType, FileType, AofType,
       fwdVars
  <2> QED
    BY <2>1, <2>2, <2>3 DEF TypeOK
<1>36. CASE SavePsyncOffset
  <2>1. WorldType' /\ SharedType' /\ MainType' /\ InputType' /\ TargetType'
    BY <1>36 DEF SavePsyncOffset, WorldType, SharedType, MainType, InputType, TargetType,
       worldVars, sharedVars, mainVars, inputVars, targetVars
  <2>2. CkptType'
    BY <1>36 DEF SavePsyncOffset, CkptType, FwdType, SharedType
  <2>3. FwdType'
    BY <1>36 DEF SavePsyncOffset, FwdType, FwdPcs, SharedType, InputType, FileType,
       AofType, fwdVars
  <2> QED
    BY <2>1, <2>2, <2>3 DEF TypeOK
<1>37. CASE SaveFails
  <2>1. CkptType' /\ SharedType' /\ MainType' /\ InputType' /\ TargetType'
    BY <1>37 DEF SaveFails, Fault, CkptType, SharedType, MainType, InputType, TargetType,
       sharedVars, mainVars, inputVars, targetVars
  <2>2. WorldType'
    BY <1>37 DEF SaveFails, Fault, WorldType, worldVars
  <2>3. FwdType'
    BY <1>37 DEF SaveFails, Fault, FwdType, FwdPcs, SharedType, InputType, FileType,
       AofType, fwdVars
  <2> QED
    BY <2>1, <2>2, <2>3 DEF TypeOK
<1>38. CASE TargetApply
  <2>1. WorldType' /\ CkptType' /\ SharedType' /\ MainType' /\ InputType' /\ FwdType'
    BY <1>38 DEF TargetApply, WorldType, CkptType, SharedType, MainType, InputType,
       FwdType, worldVars, sharedVars, mainVars, inputVars, fwdVars
  <2>2. TargetType'
    BY <1>38 DEF TargetApply, TargetType, SharedType, FwdType, InputType, FileType,
       AofType, targetVars
  <2> QED
    BY <2>1, <2>2 DEF TypeOK
<1>39. CASE TargetBreaks
  <2>1. CkptType' /\ SharedType' /\ MainType' /\ InputType' /\ FwdType'
    BY <1>39 DEF TargetBreaks, Fault, CkptType, SharedType, MainType, InputType, FwdType,
       sharedVars, mainVars, inputVars, fwdVars
  <2>2. WorldType'
    BY <1>39 DEF TargetBreaks, Fault, WorldType, worldVars
  <2>3. TargetType'
    <3>1. wire' = {} /\ applied' \in [Replids -> SUBSET Int]
      BY <1>39, WireCutType DEF TargetBreaks
    <3> QED
      BY <3>1, <1>39 DEF TargetBreaks, Fault, TargetType
  <2> QED
    BY <2>1, <2>2, <2>3 DEF TypeOK
<1>40. CASE UNCHANGED vars
  BY <1>40 DEF vars, worldVars, sharedVars, inputVars, mainVars, fwdVars, targetVars,
     TypeOK, WorldType, CkptType, SharedType, MainType, InputType, FwdType, TargetType
<1> QED
  BY <1>1, <1>2, <1>3, <1>4, <1>5, <1>6, <1>7, <1>8, <1>9, <1>10, <1>11, <1>12, <1>13,
     <1>14, <1>15, <1>16, <1>17, <1>18, <1>19, <1>20, <1>21, <1>22, <1>23, <1>24, <1>25,
     <1>26, <1>27, <1>28, <1>29, <1>30, <1>31, <1>32, <1>33, <1>34, <1>35, <1>36, <1>37,
     <1>38, <1>39, <1>40
  DEF Next, InputSteps, FwdSteps, SaveSteps

-----------------------------------------------------------------------------
(* The parts of Inv: facts about single actions first.                     *)

\* The numbers among the state.
LEMMA Numbers ==
  ASSUME TypeOK
  PROVE  /\ master.len \in Nat /\ link.pos \in Nat /\ initial.off \in Int
         /\ rdb.start \in Int /\ rdb.size \in Nat /\ rdb.disk \in Nat
         /\ aof.start \in Nat /\ aof.src \in Nat /\ aof.len \in Nat
         /\ psync_offset \in Nat /\ offset \in Nat /\ sending \in Nat
         /\ begin \in Int /\ begin >= -1
         /\ \A r \in Replids : ckpt[r].off \in Int
  BY DEF TypeOK, WorldType, InputType, FileType, AofType, MainType, SharedType,
     FwdType, CkptType, OffsetOrNone, Nobody, NoOffset

\* The same of the next state.
LEMMA NumbersNext ==
  ASSUME TypeOK'
  PROVE  /\ aof'.start \in Nat /\ aof'.src \in Nat /\ aof'.len \in Nat
         /\ offset' \in Nat /\ sending' \in Nat /\ begin' \in Int
  BY DEF TypeOK, InputType, AofType, FwdType, OffsetOrNone, NoOffset

LEMMA BoundedMasterWrite ==
  ASSUME TypeOK, Bounded, MasterWrite
  PROVE  Bounded'
<1>1. /\ master'.len = master.len + 1
      /\ UNCHANGED <<link, rdb, initial, psync_offset, offset, sending, ckpt>>
  BY DEF MasterWrite, TypeOK, WorldType, sharedVars, inputVars, mainVars, fwdVars
<1> QED
  BY <1>1, Numbers DEF Bounded, CheckpointNotInFuture

LEMMA BoundedReceiveRdbHeader ==
  ASSUME TypeOK, Bounded, ReceiveRdbHeader
  PROVE  Bounded'
<1>1. PICK size \in RdbSizes :
        rdb' = [start |-> psync_offset - size, size |-> size, disk |-> 0]
  BY DEF ReceiveRdbHeader
<1>2. rdb'.start + rdb'.size = psync_offset
  BY <1>1, Numbers, RdbSizesAssumption
<1>3. UNCHANGED <<master, link, initial, psync_offset, offset, sending, ckpt>>
  BY DEF ReceiveRdbHeader, worldVars, sharedVars, mainVars, fwdVars
<1> QED
  BY <1>2, <1>3 DEF Bounded, CheckpointNotInFuture

\* The labels of the AOF file run at most one ahead of the source.
LEMMA AofBounded ==
  ASSUME TypeOK, Labels, Bounded, aof.open
  PROVE  aof.start + aof.len <= master.len + 1
  BY Numbers DEF Labels, Bounded

LEMMA BoundedPublishOffset ==
  ASSUME TypeOK, Linked, Labels, Bounded, PublishOffset
  PROVE  Bounded'
<1>1. /\ aof.open /\ psync_offset' = aof.start + aof.len
      /\ UNCHANGED <<master, link, rdb, initial, offset, sending, ckpt>>
  BY DEF PublishOffset, Linked, worldVars, mainVars, fwdVars
<1> QED
  BY <1>1, AofBounded DEF Bounded, CheckpointNotInFuture

LEMMA BoundedReceiveAof ==
  ASSUME TypeOK, Bounded, ReceiveAof
  PROVE  Bounded'
<1>1. PICK n \in 1 .. master.len - link.pos : link' = [link EXCEPT !.pos = @ + n]
  BY DEF ReceiveAof
<1>2. link'.pos = link.pos + n
  BY <1>1 DEF TypeOK, InputType
<1>3. UNCHANGED <<master, rdb, initial, psync_offset, offset, sending, ckpt>>
  BY DEF ReceiveAof, worldVars, sharedVars, mainVars, fwdVars
<1> QED
  BY <1>1, <1>2, <1>3, Numbers DEF Bounded, CheckpointNotInFuture

\* A chunk is taken from what the file has.
LEMMA ChunkEffect ==
  ASSUME TypeOK, SendAofChunk
  PROVE  \E n \in 1 .. aof.len - (offset + sending - aof.start) :
           LET new == AofPos(offset + sending) .. AofPos(offset + sending) + n - 1 IN
           /\ sending' = sending + n /\ offset' = offset /\ begin' = begin
           /\ sent' = [sent EXCEPT ![psync_master_replid] = @ \union new]
           /\ UNCHANGED <<master, ckpt, psync_offset, psync_master_replid, leader,
                          input, link, rdb, aof, cm, initial, fwd>>
  BY DEF SendAofChunk, worldVars, sharedVars, inputVars, mainVars

LEMMA BoundedSendAofChunk ==
  ASSUME TypeOK, Linked, Labels, Bounded, Reading, SendAofChunk
  PROVE  Bounded'
<1>1. PICK n \in 1 .. aof.len - (offset + sending - aof.start) :
        /\ sending' = sending + n /\ offset' = offset
        /\ UNCHANGED <<master, ckpt, psync_offset, link, rdb, initial>>
  BY ChunkEffect
<1>2. aof.open
  BY DEF SendAofChunk, Reading
<1>3. offset + sending + n <= master.len + 1
  BY <1>1, <1>2, AofBounded, Numbers
<1> QED
  BY <1>1, <1>3, Numbers DEF Bounded, CheckpointNotInFuture

\* What a checkpoint HSET does.
LEMMA SaveEffect ==
  ASSUME TypeOK, SaveOffset \/ SavePsyncOffset
  PROVE  /\ Saving
         /\ \A r \in Replids : ckpt'[r].off = IF r = psync_master_replid THEN offset
                                                                        ELSE ckpt[r].off
         /\ UNCHANGED <<master, psync_offset, psync_master_replid, leader, input, link,
                        rdb, aof, cm, initial, offset, sending, begin, sent>>
         /\ fwd \in FwdPcs /\ fwd' \in {"rdbCkMap", "aofCkMap", "check"}
  BY DEF SaveOffset, SavePsyncOffset, Saving, TypeOK, CkptType, FwdType, FwdPcs,
     worldVars, sharedVars, inputVars, mainVars, fwdVars, targetVars

LEMMA BoundedSave ==
  ASSUME TypeOK, Spawned, Bounded, SaveOffset \/ SavePsyncOffset
  PROVE  Bounded'
<1>1. offset <= master.len + 1
  BY Numbers DEF Bounded
<1> QED
  BY <1>1, SaveEffect DEF Bounded, CheckpointNotInFuture

LEMMA ReadingReceiveAof ==
  ASSUME TypeOK, Reading, ReceiveAof
  PROVE  Reading'
<1>1. PICK n \in 1 .. master.len - link.pos : aof' = [aof EXCEPT !.len = @ + n]
  BY DEF ReceiveAof
<1>2. aof'.open = aof.open /\ aof'.start = aof.start /\ aof'.len = aof.len + n
  BY <1>1 DEF TypeOK, InputType, AofType
<1>3. /\ UNCHANGED <<master, rdb, cm, offset, sending, begin>>
      /\ fwd' = fwd \/ fwd' = "check"
  BY DEF ReceiveAof, Woken, worldVars, mainVars, fwdVars
<1> QED
  BY <1>1, <1>2, <1>3, Numbers DEF Reading, Saving, InRdb, InAof

LEMMA ReadingCheckAvailable ==
  ASSUME TypeOK, Spawned, Reading, CheckAvailable
  PROVE  Reading'
<1>1. /\ UNCHANGED <<rdb, aof, cm, offset, sending, begin>>
      /\ fwd' \in {"open", "idle"}
      /\ fwd' = "open" => Available(offset) > 0
  BY DEF CheckAvailable, inputVars, mainVars, fwdVars
<1>2. Available(offset) > 0 => \/ InRdb(offset)
                               \/ InAof(offset) /\ offset < aof.start + aof.len
  BY Numbers DEF Available
<1> QED
  BY <1>1, <1>2 DEF Reading, Saving, InRdb, InAof

\* Forwarding from the AOF file is past every label of the RDB file.
LEMMA BeginPastRdb ==
  ASSUME TypeOK, Labels, Reading, begin # NoOffset
  PROVE  ~InRdb(offset)
  BY Numbers DEF Labels, Reading, InRdb

LEMMA ReadingOpenRdb ==
  ASSUME TypeOK, Labels, Reading, OpenRdb
  PROVE  Reading'
<1>1. /\ InRdb(offset) /\ fwd' = "rdb" /\ sending' = rdb.start + rdb.size - offset
      /\ UNCHANGED <<rdb, aof, cm, offset, begin>>
  BY DEF OpenRdb, inputVars, mainVars
<1>2. rdb.size > 0 /\ offset + sending' = rdb.start + rdb.size
  BY <1>1, Numbers DEF InRdb
<1>3. begin = NoOffset
  BY <1>1, BeginPastRdb
<1> QED
  BY <1>1, <1>2, <1>3 DEF Reading, Saving

LEMMA ReadingOpenAofReader ==
  ASSUME TypeOK, Spawned, Reading, OpenAofReader
  PROVE  Reading'
<1>1. /\ ~InRdb(offset) /\ InAof(offset) /\ fwd = "open" /\ fwd' = "aof" /\ sending' = 0
      /\ begin' = IF begin = NoOffset THEN offset ELSE begin
      /\ UNCHANGED <<rdb, aof, cm, offset>>
  BY DEF OpenAofReader, inputVars, mainVars
<1>2. offset <= aof.start + aof.len
  BY <1>1, Numbers DEF Reading
<1>3. offset # NoOffset
  BY Numbers DEF NoOffset
<1> QED
  BY <1>1, <1>2, <1>3, Numbers DEF Reading, Saving, InAof

LEMMA ReadingSendAofChunk ==
  ASSUME TypeOK, Reading, SendAofChunk
  PROVE  Reading'
<1>1. PICK n \in 1 .. aof.len - (offset + sending - aof.start) :
        /\ sending' = sending + n /\ offset' = offset /\ begin' = begin
        /\ UNCHANGED <<rdb, aof, cm, fwd>>
  BY ChunkEffect
<1>2. fwd = "aof"
  BY DEF SendAofChunk
<1> QED
  BY <1>1, <1>2, Numbers DEF Reading, Saving, InRdb, InAof

\* The end of a send of AOF bytes.
LEMMA DoneEffect ==
  ASSUME TypeOK, SendAofDone
  PROVE  /\ fwd = "aof" /\ offset' = offset + sending /\ sending' = 0
         /\ fwd' = "check" \/ (fwd' = "aofCkOff" /\ cm)
         /\ UNCHANGED <<master, ckpt, psync_offset, psync_master_replid, leader, input,
                        link, rdb, aof, cm, initial, begin, sent>>
  BY DEF SendAofDone, worldVars, sharedVars, inputVars, mainVars, targetVars

LEMMA ReadingSendAofDone ==
  ASSUME TypeOK, Reading, SendAofDone
  PROVE  Reading'
<1>1. begin # NoOffset /\ aof.open
  BY DoneEffect DEF Reading
<1> QED
  BY <1>1, DoneEffect, Numbers DEF Reading, Saving

LEMMA FrontLeaderSpawn ==
  ASSUME TypeOK, Linked, Spawned, Front, LeaderSpawn
  PROVE  Front'
<1>1. /\ leader # "watch" /\ fwd' = "check" /\ offset' = psync_offset
      /\ UNCHANGED <<ckpt, link, rdb, aof, input, psync_offset,
                  psync_master_replid>>
  BY DEF LeaderSpawn, sharedVars, inputVars
<1>2. offset = 0 /\ offset' >= offset
  BY <1>1, Numbers DEF Spawned
<1>3. link.replid # NoReplid => ckpt[psync_master_replid].off \in Int
  BY Numbers DEF Linked, TypeOK, SharedType, ReplidOrNone
<1> QED
  BY <1>1, <1>2, <1>3, Numbers DEF Front, Saving

LEMMA FrontOpenAofReader ==
  ASSUME TypeOK, Linked, Front, OpenAofReader
  PROVE  Front'
<1>1. /\ InAof(offset) /\ fwd' = "aof"
      /\ UNCHANGED <<ckpt, link, rdb, aof, input, offset, psync_offset,
                  psync_master_replid>>
  BY DEF OpenAofReader, sharedVars, inputVars
<1>2. link.replid # NoReplid /\ ckpt[psync_master_replid].off \in Int
  BY <1>1, Numbers DEF InAof, Linked, TypeOK, SharedType, ReplidOrNone
<1>3. ckpt[psync_master_replid].off <= offset + 1
  BY <1>1, <1>2, Numbers DEF Front, InAof
<1> QED
  BY <1>1, <1>2, <1>3 DEF Front, Saving

LEMMA FrontSendRdb ==
  ASSUME TypeOK, Linked, Reading, Front, SendRdb
  PROVE  Front'
<1>1. /\ fwd = "rdb" /\ offset' = offset + sending
      /\ UNCHANGED <<ckpt, link, rdb, aof, input, psync_offset,
                  psync_master_replid>>
  BY DEF SendRdb, sharedVars, inputVars
<1>2. rdb.size > 0 /\ offset' = rdb.start + rdb.size /\ offset' >= offset
  BY <1>1, Numbers DEF Reading
<1>3. link.replid # NoReplid /\ ckpt[psync_master_replid].off \in Int
  BY <1>2, Numbers DEF Linked, TypeOK, SharedType, ReplidOrNone
<1>4. ckpt[psync_master_replid].off <= offset' + 1
  BY <1>2, <1>3, Numbers DEF Front
<1> QED
  BY <1>1, <1>3, <1>4 DEF Front

LEMMA FrontSendAofDone ==
  ASSUME TypeOK, Linked, Reading, Front, SendAofDone
  PROVE  Front'
<1>1. link.replid # NoReplid /\ ckpt[psync_master_replid].off \in Int
  BY DoneEffect, Numbers DEF Reading, Linked, TypeOK, SharedType, ReplidOrNone
<1>2. ckpt[psync_master_replid].off <= offset' + 1
  BY <1>1, DoneEffect, Numbers DEF Front
<1> QED
  BY <1>1, <1>2, DoneEffect DEF Front

LEMMA FrontSave ==
  ASSUME TypeOK, Linked, Reading, Front, SaveOffset \/ SavePsyncOffset
  PROVE  Front'
<1>1. link.replid # NoReplid /\ psync_master_replid \in Replids
  BY SaveEffect DEF Reading, Linked, TypeOK, SharedType, ReplidOrNone
<1>2. ckpt'[psync_master_replid].off = offset /\ UNCHANGED <<link, offset, psync_master_replid>>
  BY <1>1, SaveEffect
<1> QED
  BY <1>1, <1>2, Numbers DEF Front

-----------------------------------------------------------------------------
(* NoGapSinceBegin.                                                        *)

\* Only the forwarding task's own steps touch what the property speaks of, except
\* that the AOF file grows at its end.
LEMMA NoGapSendAofChunk ==
  ASSUME TypeOK, Linked, Reading, NoGapSinceBegin, SendAofChunk
  PROVE  NoGapSinceBegin'
<1>1. PICK n \in 1 .. aof.len - (offset + sending - aof.start) :
        LET new == AofPos(offset + sending) .. AofPos(offset + sending) + n - 1 IN
        /\ sending' = sending + n /\ offset' = offset /\ begin' = begin
        /\ sent' = [sent EXCEPT ![psync_master_replid] = @ \union new]
        /\ UNCHANGED <<psync_master_replid, aof>>
  BY ChunkEffect
<1>2. psync_master_replid \in Replids /\ begin # NoOffset
  BY DEF SendAofChunk, Reading, Linked, TypeOK, SharedType, ReplidOrNone
<1>3. sent'[psync_master_replid] =
        sent[psync_master_replid] \union
          (AofPos(offset + sending) .. AofPos(offset + sending) + n - 1)
  BY <1>1, <1>2 DEF TypeOK, TargetType
<1>4. AofPos(offset + sending + n) = AofPos(offset + sending) + n
      /\ AofPos(begin) \in Int /\ AofPos(offset + sending) \in Int
  BY <1>1, Numbers DEF AofPos
<1>5. ASSUME NEW p \in AofPos(begin) .. AofPos(offset + sending + n) - 1
      PROVE  p \in sent'[psync_master_replid]
  <2>1. CASE p <= AofPos(offset + sending) - 1
    BY <2>1, <1>2, <1>3, <1>4 DEF NoGapSinceBegin
  <2>2. CASE p > AofPos(offset + sending) - 1
    BY <2>2, <1>1, <1>3, <1>4
  <2> QED
    BY <2>1, <2>2, <1>4
<1>6. offset' + sending' = offset + sending + n
  BY <1>1, Numbers
<1> QED
  BY <1>1, <1>5, <1>6 DEF NoGapSinceBegin, AofPos

LEMMA NoGapKeep ==
  ASSUME TypeOK, TypeOK', NoGapSinceBegin,
         \/ begin' = NoOffset
         \/ /\ begin' = begin /\ sent' = sent
            /\ psync_master_replid' = psync_master_replid
            /\ aof'.start = aof.start /\ aof'.src = aof.src
            /\ offset' + sending' <= offset + sending
  PROVE  NoGapSinceBegin'
<1> SUFFICES ASSUME begin' # NoOffset,
                    NEW p \in (AofPos(begin) .. AofPos(offset + sending) - 1)'
             PROVE  p \in sent'[psync_master_replid']
  BY DEF NoGapSinceBegin
<1>1. AofPos(begin)' = AofPos(begin) /\ AofPos(offset + sending)' <= AofPos(offset +
     sending)
  BY Numbers, NumbersNext DEF AofPos
<1>2. AofPos(begin) \in Int /\ AofPos(offset + sending) \in Int
      /\ AofPos(offset + sending)' \in Int
  BY Numbers, NumbersNext DEF AofPos
<1>3. p \in AofPos(begin) .. AofPos(offset + sending) - 1
  BY <1>1, <1>2
<1> QED
  BY <1>3 DEF NoGapSinceBegin

LEMMA NoGapOpenAofReader ==
  ASSUME TypeOK, TypeOK', Spawned, NoGapSinceBegin, OpenAofReader
  PROVE  NoGapSinceBegin'
<1>1. /\ fwd = "open" /\ sending' = 0
      /\ begin' = IF begin = NoOffset THEN offset ELSE begin
      /\ UNCHANGED <<aof, offset, sent, psync_master_replid>>
  BY DEF OpenAofReader, inputVars, sharedVars
<1>2. sending = 0
  BY <1>1 DEF Spawned
<1>3. CASE begin = NoOffset
  <2>1. AofPos(begin)' = AofPos(offset + sending)' /\ AofPos(begin)' \in Int
    BY <1>1, <1>3, Numbers, NumbersNext DEF AofPos
  <2> QED
    BY <2>1 DEF NoGapSinceBegin
<1>4. CASE begin # NoOffset
  BY <1>1, <1>2, <1>4, Numbers, NoGapKeep
<1> QED
  BY <1>3, <1>4

LEMMA NoGapReceiveAof ==
  ASSUME TypeOK, TypeOK', NoGapSinceBegin, ReceiveAof
  PROVE  NoGapSinceBegin'
<1>1. PICK n \in 1 .. master.len - link.pos : aof' = [aof EXCEPT !.len = @ + n]
  BY DEF ReceiveAof
<1>2. aof'.start = aof.start /\ aof'.src = aof.src
  BY <1>1 DEF TypeOK, InputType, AofType
<1>3. UNCHANGED <<begin, sent, psync_master_replid, offset, sending>>
  BY DEF ReceiveAof, fwdVars, sharedVars, targetVars
<1> QED
  BY <1>2, <1>3, Numbers, NoGapKeep

\* There is no AOF file before PSYNC is answered, and none was read.
LEMMA NoGapBeforeAof ==
  ASSUME TypeOK, TypeOK', Linked, Spawned, Reading, NoGapSinceBegin,
         SendPsync \/ FullResync \/ OpenAof \/ LeaderSpawn \/ SendRdb
  PROVE  NoGapSinceBegin'
<1>1. CASE SendPsync \/ FullResync \/ OpenAof
  <2>1. begin = NoOffset /\ begin' = begin
    BY <1>1 DEF SendPsync, FullResync, OpenAof, Linked, Reading, fwdVars
  <2> QED
    BY <2>1, NoGapKeep
<1>2. CASE LeaderSpawn
  <2>1. begin = NoOffset /\ begin' = begin
    BY <1>2 DEF LeaderSpawn, Spawned
  <2> QED
    BY <2>1, NoGapKeep
<1>3. CASE SendRdb
  <2>1. begin = NoOffset /\ begin' = begin
    BY <1>3 DEF SendRdb, Reading
  <2> QED
    BY <2>1, NoGapKeep
<1> QED
  BY <1>1, <1>2, <1>3

LEMMA NoGapFwd ==
  ASSUME TypeOK, TypeOK', Labels, Reading, NoGapSinceBegin,
         SendAofDone \/ SendAofFails \/ SendRdbFails \/ OpenRdb
  PROVE  NoGapSinceBegin'
<1>1. CASE SendAofDone
  BY <1>1, DoneEffect, Numbers, NoGapKeep
<1>2. CASE SendAofFails \/ SendRdbFails
  <2>1. /\ sending' = 0
        /\ UNCHANGED <<begin, sent, psync_master_replid, aof, offset>>
    BY <1>2 DEF SendAofFails, SendAofError, Fault, SendRdbFails, sharedVars, inputVars,
       targetVars
  <2> QED
    BY <2>1, Numbers, NoGapKeep
<1>3. CASE OpenRdb
  <2>1. begin' = begin /\ InRdb(offset)
    BY <1>3 DEF OpenRdb
  <2>2. begin = NoOffset
    BY <2>1, BeginPastRdb
  <2> QED
    BY <2>1, <2>2, NoGapKeep
<1> QED
  BY <1>1, <1>2, <1>3

-----------------------------------------------------------------------------
(* Every step preserves each part of Inv.                                  *)

LEMMA LinkedStep ==
  ASSUME TypeOK, Linked, [Next]_vars
  PROVE  Linked'
<1> USE BoundsAssumption, RdbSizesAssumption DEF TypeOK, InputType, SharedType, MainType,
        WorldType, CkptType, FwdType, OffsetOrNone, FileType, AofType, NoLink, NoFile,
        NoAof, Nobody, NoReplid, NoOffset, Replids, ReplidOrNone, worldVars, sharedVars,
        inputVars, mainVars, fwdVars, targetVars, Linked
<1>1. CASE Start
  BY <1>1 DEF Start
<1>2. CASE LeaderAbort
  BY <1>2 DEF LeaderAbort, ProcessEnds
<1>3. CASE Crash
  BY <1>3 DEF Crash, ProcessEnds, Fault
<1>4. CASE SendPsync
  BY <1>4 DEF SendPsync
<1>5. CASE FullResync
  BY <1>5 DEF FullResync
<1>6. CASE Continue
  BY <1>6 DEF Continue
<1>7. CASE ReceiveRdbHeader
  BY <1>7 DEF ReceiveRdbHeader
<1>8. CASE ReceiveRdbDone
  BY <1>8 DEF ReceiveRdbDone
<1>9. CASE SendAck
  BY <1>9 DEF SendAck
<1>10. CASE NotifyReady
  BY <1>10 DEF NotifyReady, Called
<1>11. CASE OpenAof
  BY <1>11 DEF OpenAof
<1>12. CASE PublishOffset
  BY <1>12 DEF PublishOffset
<1>13. CASE LinkLost
  BY <1>13 DEF LinkLost
<1>14. CASE ReceiveRdbChunk
  BY <1>14 DEF ReceiveRdbChunk, Woken
<1>15. CASE ReceiveAof
  BY <1>15 DEF ReceiveAof, Woken
<1>16. CASE InputFails
  BY <1>16 DEF InputFails, Fault
<1>17. CASE \/ MasterWrite \/ MasterFailover \/ LeaderListen \/ LeaderTimeout \/ LeaderSpawn \/
             ReceivePing \/ CheckAvailable \/ AwaitNotify \/ OpenRdb \/
             OpenAofReader \/ OpenFails \/ SendRdb \/ SendRdbFails \/
             SendAofChunk \/ SendAofDone \/ SendAofFails \/ Retry \/ SaveOffset
             \/ SaveMapping \/ SavePsyncOffset \/ SaveFails \/ TargetApply \/
             TargetBreaks
  BY <1>17, ZenonT(60) DEF MasterWrite, MasterFailover, LeaderListen, LeaderTimeout,
     LeaderSpawn,
     ReceivePing, Woken, CheckAvailable, AwaitNotify, OpenRdb, InRdb, OpenAofReader,
     OpenFails, Fault, SendRdb, RdbWhole, SendRdbFails, SendAofChunk, AofPos,
     SendAofDone, SendAofFails, SendAofError, Fault, Retry, SaveOffset, SaveMapping,
     SavePsyncOffset,
     SaveFails, TargetApply, TargetBreaks
<1>18. CASE UNCHANGED vars
  BY <1>18 DEF vars
<1> QED
  BY <1>1, <1>2, <1>3, <1>4, <1>5, <1>6, <1>7, <1>8, <1>9, <1>10, <1>11, <1>12, <1>13,
     <1>14, <1>15, <1>16, <1>17, <1>18
  DEF Next, InputSteps, FwdSteps, SaveSteps

\* A source goes on from the checkpoint that was read at the start.
LEMMA ContinueEffect ==
  ASSUME TypeOK, Linked, Resumed, Continue
  PROVE  /\ psync_master_replid = initial.replid /\ initial.replid # NoReplid
         /\ psync_offset = initial.off /\ ckpt[initial.replid].off = initial.off
         /\ link'.pos = initial.off - 1 /\ initial.off <= master.len + 1
         /\ input = "reply" /\ input' = "notify"
         /\ rdb.size = 0 /\ rdb.start = 0 /\ ~aof.open
         /\ UNCHANGED <<master, ckpt, sharedVars, leader, rdb, aof, mainVars, fwd, fwdVars,
                        targetVars>>
<1>1. /\ link'.pos = initial.off - 1 /\ input = "reply" /\ input' = "notify"
      /\ initial.off >= 1 /\ initial.off <= master.len + 1
  BY Numbers DEF Continue
<1>2. initial.replid # NoReplid
  BY <1>1 DEF TypeOK, MainType, Nobody, NoOffset, NoReplid, Replids
<1>3. rdb.size = 0 /\ rdb.start = 0 /\ ~aof.open
  BY <1>1, Numbers DEF Linked
<1>4. /\ psync_master_replid = initial.replid
      /\ psync_offset = initial.off /\ ckpt[initial.replid].off = initial.off
  BY <1>1, <1>2 DEF Linked, Resumed
<1> QED
  BY <1>1, <1>2, <1>3, <1>4 DEF Continue, worldVars

LEMMA BoundedContinue ==
  ASSUME TypeOK, Bounded, Continue
  PROVE  Bounded'
<1>1. /\ link'.pos = initial.off - 1 /\ initial.off <= master.len + 1
      /\ UNCHANGED <<master, ckpt, psync_offset, rdb, initial, offset, sending>>
  BY DEF Continue, worldVars, sharedVars, mainVars, fwdVars
<1> QED
  BY <1>1, Numbers DEF Bounded, CheckpointNotInFuture

LEMMA FrontContinue ==
  ASSUME TypeOK, Linked, Resumed, Front, Continue
  PROVE  Front'
<1>1. /\ ckpt[psync_master_replid].off = psync_offset /\ input = "reply"
      /\ rdb.size = 0 /\ ~aof.open /\ link.replid = NoReplid
      /\ UNCHANGED <<psync_offset, psync_master_replid, ckpt, rdb, aof, offset, fwd>>
  BY ContinueEffect DEF sharedVars, fwdVars, Linked
<1>2. (Saving \/ fwd = "aof")' <=> Saving \/ fwd = "aof"
  BY <1>1 DEF Saving
<1>3. psync_offset <= psync_offset + 1
  BY Numbers
<1>4. rdb'.size = 0 /\ ~aof'.open
  BY <1>1
<1> QED
  BY <1>1, <1>2, <1>3, <1>4, Numbers DEF Front

\* Before the snapshot is complete the shared replid is that of the connection.
LEMMA ContinuedStep ==
  ASSUME TypeOK, Linked, Continued, [Next]_vars
  PROVE  Continued'
<1> DEFINE Snapshot == {"header", "rdb", "rdbMore", "ack"}
<1>1. ASSUME UNCHANGED <<psync_master_replid, link, rdb, aof>>,
             input' \in Snapshot => input \in Snapshot,
             input' \in {"notify", "open"} => input \in Snapshot \union {"notify", "open"}
      PROVE  Continued'
  BY <1>1 DEF Continued
<1>2. CASE input' = input /\ ~LeaderAbort /\ ~Crash
  <2>1. CASE ReceiveRdbChunk
    BY <2>1, <1>2 DEF ReceiveRdbChunk, Continued, sharedVars
  <2>2. CASE UNCHANGED <<psync_master_replid, link, rdb, aof>>
    BY <1>1, <1>2, <2>2
  <2>3. ReceiveRdbChunk \/ UNCHANGED <<psync_master_replid, link, rdb, aof>>
    <3>1. CASE MasterWrite \/ MasterFailover \/ LeaderListen \/ LeaderTimeout \/ LeaderSpawn
      BY <3>1 DEF MasterWrite, MasterFailover, LeaderListen, LeaderTimeout, LeaderSpawn,
         sharedVars, inputVars
    <3>2. CASE ReceivePing \/ FwdSteps
      BY <3>2 DEF ReceivePing, FwdSteps, CheckAvailable, AwaitNotify, OpenRdb,
         OpenAofReader, OpenFails, SendRdb, SendRdbFails, SendAofChunk, SendAofDone,
         SendAofFails, Retry, sharedVars, inputVars
    <3>3. CASE SaveSteps \/ TargetApply \/ TargetBreaks
      BY <3>3 DEF SaveSteps, SaveOffset, SaveMapping, SavePsyncOffset, SaveFails,
         TargetApply, TargetBreaks, sharedVars, inputVars
    <3>4. CASE UNCHANGED vars
      BY <3>4 DEF vars, sharedVars, inputVars
    <3>5. CASE Start \/ InputSteps \/ InputFails \/ ReceiveAof
      BY <3>5, <1>2 DEF Start, InputSteps, SendPsync, FullResync, Continue,
         ReceiveRdbHeader, ReceiveRdbDone, SendAck, NotifyReady, OpenAof, PublishOffset,
         LinkLost, InputFails, ReceiveAof, Linked
    <3> QED
      BY <1>2, <3>1, <3>2, <3>3, <3>4, <3>5 DEF Next
  <2> QED
    BY <2>1, <2>2, <2>3
<1>3. CASE LeaderAbort \/ Crash
  BY <1>3 DEF LeaderAbort, Crash, ProcessEnds, NoLink, NoReplid, Continued
<1>4. CASE Start \/ SendPsync
  BY <1>4 DEF Start, SendPsync, Linked, Continued, NoReplid
<1>5. CASE FullResync
  BY <1>5 DEF FullResync, Continued
<1>6. CASE Continue
  <2>1. /\ link' = [replid |-> master.replid, since |-> master.since, pos |-> initial.off - 1]
        /\ input' = "notify" /\ UNCHANGED <<psync_master_replid, rdb, aof>>
        /\ initial.off >= 1
    BY <1>6, Numbers DEF Continue, sharedVars
  <2>2. initial.replid # NoReplid
    BY <2>1 DEF TypeOK, MainType, Nobody, NoOffset, NoReplid, Replids
  <2>3. psync_master_replid = initial.replid
    BY <1>6, <2>2 DEF Continue, Linked
  <2>4. CASE initial.replid = master.replid
    BY <2>1, <2>3, <2>4 DEF Continued
  <2>5. CASE initial.replid = master.replid - 1 /\ initial.off <= master.since + 1
    <3>1. initial.off - 1 <= master.since
      BY <2>5, Numbers DEF TypeOK, WorldType
    <3>2. rdb.size = 0 /\ ~aof.open
      BY <1>6, Numbers DEF Continue, Linked
    <3> QED
      BY <2>1, <2>3, <2>5, <3>1, <3>2 DEF Continued
  <2> QED
    BY <1>6, <2>4, <2>5 DEF Continue
<1>7. CASE ReceiveRdbHeader \/ ReceiveRdbDone \/ ReceiveRdbChunk
  BY <1>7 DEF ReceiveRdbHeader, ReceiveRdbDone, ReceiveRdbChunk, Continued, sharedVars
<1>8. CASE SendAck \/ NotifyReady \/ PublishOffset \/ LinkLost \/ InputFails
  BY <1>8, <1>1 DEF SendAck, NotifyReady, PublishOffset, LinkLost, InputFails, sharedVars
<1>9. CASE OpenAof
  BY <1>9 DEF OpenAof, Continued, sharedVars
<1>10. CASE ReceiveAof
  <2>1. PICK n \in Int : /\ aof' = [aof EXCEPT !.len = @ + n]
                         /\ link' = [link EXCEPT !.pos = @ + n]
    BY <1>10 DEF ReceiveAof
  <2>2. /\ aof'.open = aof.open /\ aof'.src = aof.src
        /\ link'.replid = link.replid /\ link'.since = link.since
    BY <2>1 DEF TypeOK, InputType, AofType
  <2> QED
    BY <1>10, <2>2 DEF ReceiveAof, Continued, sharedVars
<1> QED
  <2>1. input' = input \/ Start \/ LeaderAbort \/ Crash \/ InputSteps \/ ReceiveRdbChunk
          \/ ReceiveAof \/ InputFails
    BY DEF Next, MasterWrite, MasterFailover, LeaderListen, LeaderTimeout, LeaderSpawn,
       ReceivePing, FwdSteps, CheckAvailable, AwaitNotify, OpenRdb, OpenAofReader,
       OpenFails, SendRdb, SendRdbFails, SendAofChunk, SendAofDone, SendAofFails, Retry,
       SaveSteps, SaveOffset, SaveMapping, SavePsyncOffset, SaveFails, TargetApply,
       TargetBreaks, inputVars, vars
  <2> QED
    BY <2>1, <1>2, <1>3, <1>4, <1>5, <1>6, <1>7, <1>8, <1>9, <1>10 DEF InputSteps

LEMMA SpawnedStep ==
  ASSUME TypeOK, Spawned, [Next]_vars
  PROVE  Spawned'
<1> USE DEF TypeOK, Spawned, MainType, FwdType, FwdPcs, worldVars, sharedVars, inputVars,
        mainVars, fwdVars, targetVars
<1>1. CASE Start
  BY <1>1 DEF Start
<1>2. CASE LeaderListen
  BY <1>2 DEF LeaderListen
<1>3. CASE LeaderTimeout
  BY <1>3 DEF LeaderTimeout
<1>4. CASE LeaderSpawn
  BY <1>4 DEF LeaderSpawn
<1>5. CASE LeaderAbort
  BY <1>5 DEF LeaderAbort, ProcessEnds
<1>6. CASE Crash
  BY <1>6 DEF Crash, ProcessEnds, Fault
<1>7. CASE NotifyReady
  BY <1>7 DEF NotifyReady, Called
<1>8. CASE ReceiveRdbChunk
  BY <1>8 DEF ReceiveRdbChunk, Woken
<1>9. CASE ReceiveAof
  BY <1>9 DEF ReceiveAof, Woken
<1>10. CASE ReceivePing
  BY <1>10 DEF ReceivePing, Woken
<1>11. CASE CheckAvailable
  BY <1>11 DEF CheckAvailable
<1>12. CASE AwaitNotify
  BY <1>12 DEF AwaitNotify
<1>13. CASE OpenRdb
  BY <1>13 DEF OpenRdb, InRdb
<1>14. CASE OpenAofReader
  BY <1>14 DEF OpenAofReader
<1>15. CASE OpenFails
  BY <1>15 DEF OpenFails, Fault
<1>16. CASE SendRdb
  BY <1>16 DEF SendRdb, RdbWhole
<1>17. CASE SendRdbFails
  BY <1>17 DEF SendRdbFails, Fault
<1>18. CASE SendAofChunk
  BY <1>18 DEF SendAofChunk, AofPos
<1>19. CASE SendAofDone
  BY <1>19 DEF SendAofDone
<1>20. CASE SendAofFails
  BY <1>20 DEF SendAofFails, SendAofError, Fault
<1>21. CASE Retry
  BY <1>21 DEF Retry
<1>22. CASE SaveOffset
  BY <1>22 DEF SaveOffset
<1>23. CASE SaveMapping
  BY <1>23 DEF SaveMapping
<1>24. CASE SavePsyncOffset
  BY <1>24 DEF SavePsyncOffset
<1>25. CASE SaveFails
  BY <1>25 DEF SaveFails, Fault
<1>26. CASE \/ MasterWrite \/ MasterFailover \/ SendPsync \/ FullResync \/ Continue \/
             ReceiveRdbHeader \/ ReceiveRdbDone \/ SendAck \/ OpenAof \/
             PublishOffset \/ LinkLost \/ InputFails \/ TargetApply \/
             TargetBreaks
  BY <1>26 DEF MasterWrite, MasterFailover, SendPsync, FullResync, Continue,
     ReceiveRdbHeader, ReceiveRdbDone, SendAck, OpenAof, PublishOffset, LinkLost,
     InputFails, Fault, TargetApply, TargetBreaks
<1>27. CASE UNCHANGED vars
  BY <1>27 DEF vars
<1> QED
  BY <1>1, <1>2, <1>3, <1>4, <1>5, <1>6, <1>7, <1>8, <1>9, <1>10, <1>11, <1>12, <1>13,
     <1>14, <1>15, <1>16, <1>17, <1>18, <1>19, <1>20, <1>21, <1>22, <1>23, <1>24,
     <1>25, <1>26, <1>27
  DEF Next, InputSteps, FwdSteps, SaveSteps

LEMMA LabelsStep ==
  ASSUME TypeOK, Linked, Resumed, Labels, [Next]_vars
  PROVE  Labels'
<1> USE RdbSizesAssumption DEF TypeOK, InputType, SharedType, MainType, WorldType,
        CkptType, FwdType, OffsetOrNone, FileType, AofType, NoLink, NoFile, NoAof, Nobody,
        NoReplid, NoOffset, Replids, ReplidOrNone, worldVars, sharedVars, inputVars,
        mainVars, fwdVars, targetVars, Linked, Labels, Resumed
<1>1. CASE Start
  BY <1>1 DEF Start
<1>2. CASE LeaderListen
  BY <1>2 DEF LeaderListen
<1>3. CASE LeaderTimeout
  BY <1>3 DEF LeaderTimeout
<1>4. CASE LeaderSpawn
  BY <1>4 DEF LeaderSpawn
<1>5. CASE LeaderAbort
  BY <1>5 DEF LeaderAbort, ProcessEnds
<1>6. CASE Crash
  BY <1>6 DEF Crash, ProcessEnds, Fault
<1>7. CASE SendPsync
  BY <1>7 DEF SendPsync
<1>8. CASE FullResync
  BY <1>8 DEF FullResync
<1>9. CASE Continue
  BY <1>9 DEF Continue
<1>10. CASE ReceiveRdbHeader
  BY <1>10 DEF ReceiveRdbHeader
<1>11. CASE ReceiveRdbDone
  BY <1>11 DEF ReceiveRdbDone
<1>12. CASE SendAck
  BY <1>12 DEF SendAck
<1>13. CASE NotifyReady
  BY <1>13 DEF NotifyReady, Called
<1>14. CASE OpenAof
  BY <1>14 DEF OpenAof
<1>15. CASE PublishOffset
  BY <1>15 DEF PublishOffset
<1>16. CASE LinkLost
  BY <1>16 DEF LinkLost
<1>17. CASE ReceiveRdbChunk
  BY <1>17 DEF ReceiveRdbChunk, Woken
<1>18. CASE ReceiveAof
  BY <1>18 DEF ReceiveAof, Woken
<1>19. CASE InputFails
  BY <1>19 DEF InputFails, Fault
<1>20. CASE \/ MasterWrite \/ MasterFailover \/ ReceivePing \/ CheckAvailable \/ AwaitNotify \/
             OpenRdb \/ OpenAofReader \/ OpenFails \/ SendRdb \/ SendRdbFails \/
             SendAofChunk \/ SendAofDone \/ SendAofFails \/ Retry \/ SaveOffset
             \/ SaveMapping \/ SavePsyncOffset \/ SaveFails \/ TargetApply \/
             TargetBreaks
  BY <1>20 DEF MasterWrite, MasterFailover, ReceivePing, Woken, CheckAvailable,
     AwaitNotify, OpenRdb, InRdb, OpenAofReader, OpenFails, Fault, SendRdb, RdbWhole,
     SendRdbFails, SendAofChunk, AofPos, SendAofDone, SendAofFails, SendAofError, Fault,
     Retry, SaveOffset,
     SaveMapping, SavePsyncOffset, SaveFails, TargetApply, TargetBreaks
<1>21. CASE UNCHANGED vars
  BY <1>21 DEF vars
<1> QED
  BY <1>1, <1>2, <1>3, <1>4, <1>5, <1>6, <1>7, <1>8, <1>9, <1>10, <1>11, <1>12, <1>13,
     <1>14, <1>15, <1>16, <1>17, <1>18, <1>19, <1>20, <1>21
  DEF Next, InputSteps, FwdSteps, SaveSteps

LEMMA ResumedStep ==
  ASSUME TypeOK, Linked, Resumed, Reading, [Next]_vars
  PROVE  Resumed'
<1> USE BoundsAssumption DEF TypeOK, InputType, SharedType, MainType, WorldType, CkptType,
        FwdType, OffsetOrNone, FileType, AofType, NoLink, NoFile, NoAof, Nobody, NoReplid,
        NoOffset, Replids, ReplidOrNone, worldVars, sharedVars, inputVars, mainVars,
        fwdVars, targetVars, Linked, Resumed, Reading, Saving
<1>1. CASE Start
  BY <1>1 DEF Start
<1>2. CASE LeaderListen
  BY <1>2 DEF LeaderListen
<1>3. CASE LeaderTimeout
  BY <1>3 DEF LeaderTimeout
<1>4. CASE LeaderSpawn
  BY <1>4 DEF LeaderSpawn
<1>5. CASE LeaderAbort
  BY <1>5 DEF LeaderAbort, ProcessEnds
<1>6. CASE Crash
  BY <1>6 DEF Crash, ProcessEnds, Fault
<1>7. CASE SendPsync
  BY <1>7 DEF SendPsync
<1>8. CASE FullResync
  BY <1>8 DEF FullResync
<1>9. CASE Continue
  BY <1>9 DEF Continue
<1>10. CASE ReceiveRdbHeader
  BY <1>10 DEF ReceiveRdbHeader
<1>11. CASE ReceiveRdbDone
  BY <1>11 DEF ReceiveRdbDone
<1>12. CASE SendAck
  BY <1>12 DEF SendAck
<1>13. CASE NotifyReady
  BY <1>13 DEF NotifyReady, Called
<1>14. CASE OpenAof
  BY <1>14 DEF OpenAof
<1>15. CASE PublishOffset
  BY <1>15 DEF PublishOffset
<1>16. CASE LinkLost
  BY <1>16 DEF LinkLost
<1>17. CASE ReceiveRdbChunk
  BY <1>17 DEF ReceiveRdbChunk, Woken
<1>18. CASE ReceiveAof
  BY <1>18 DEF ReceiveAof, Woken
<1>19. CASE InputFails
  BY <1>19 DEF InputFails, Fault
<1>20. CASE CheckAvailable
  BY <1>20 DEF CheckAvailable
<1>21. CASE AwaitNotify
  BY <1>21 DEF AwaitNotify
<1>22. CASE OpenRdb
  BY <1>22 DEF OpenRdb, InRdb
<1>23. CASE OpenAofReader
  BY <1>23 DEF OpenAofReader
<1>24. CASE OpenFails
  BY <1>24 DEF OpenFails, Fault
<1>25. CASE SendRdb
  BY <1>25 DEF SendRdb, RdbWhole
<1>26. CASE SendRdbFails
  BY <1>26 DEF SendRdbFails, Fault
<1>27. CASE SendAofChunk
  BY <1>27 DEF SendAofChunk, AofPos
<1>28. CASE SendAofDone
  BY <1>28 DEF SendAofDone
<1>29. CASE SendAofFails
  BY <1>29 DEF SendAofFails, SendAofError, Fault
<1>30. CASE Retry
  BY <1>30 DEF Retry
<1>31. CASE SaveOffset
  BY <1>31 DEF SaveOffset
<1>32. CASE SaveMapping
  BY <1>32 DEF SaveMapping
<1>33. CASE SavePsyncOffset
  BY <1>33 DEF SavePsyncOffset
<1>34. CASE SaveFails
  BY <1>34 DEF SaveFails, Fault
<1>35. CASE \/ MasterWrite \/ MasterFailover \/ ReceivePing \/ TargetApply \/ TargetBreaks
  BY <1>35 DEF MasterWrite, MasterFailover, ReceivePing, Woken, TargetApply,
     TargetBreaks, Fault
<1>36. CASE UNCHANGED vars
  BY <1>36 DEF vars
<1> QED
  BY <1>1, <1>2, <1>3, <1>4, <1>5, <1>6, <1>7, <1>8, <1>9, <1>10, <1>11, <1>12, <1>13,
     <1>14, <1>15, <1>16, <1>17, <1>18, <1>19, <1>20, <1>21, <1>22, <1>23, <1>24,
     <1>25, <1>26, <1>27, <1>28, <1>29, <1>30, <1>31, <1>32, <1>33, <1>34, <1>35,
     <1>36
  DEF Next, InputSteps, FwdSteps, SaveSteps

LEMMA BoundedStep ==
  ASSUME TypeOK, Linked, Spawned, Resumed, Labels, Bounded, Reading, [Next]_vars
  PROVE  Bounded'
<1> USE BoundsAssumption, RdbSizesAssumption DEF TypeOK, InputType, SharedType, MainType,
        WorldType, CkptType, FwdType, OffsetOrNone, FileType, AofType, NoLink, NoFile,
        NoAof, Nobody, NoReplid, NoOffset, Replids, ReplidOrNone, worldVars, sharedVars,
        inputVars, mainVars, fwdVars, targetVars, Linked, Spawned, Resumed, Labels,
        Bounded, Reading, Saving, CheckpointNotInFuture, InRdb, InAof
<1>1. CASE MasterWrite
  BY <1>1, BoundedMasterWrite
<1>2. CASE MasterFailover
  BY <1>2 DEF MasterFailover
<1>3. CASE Start
  BY <1>3 DEF Start
<1>4. CASE LeaderListen
  BY <1>4 DEF LeaderListen
<1>5. CASE LeaderTimeout
  BY <1>5 DEF LeaderTimeout
<1>6. CASE LeaderSpawn
  BY <1>6 DEF LeaderSpawn
<1>7. CASE LeaderAbort
  BY <1>7 DEF LeaderAbort, ProcessEnds
<1>8. CASE Crash
  BY <1>8 DEF Crash, ProcessEnds, Fault
<1>9. CASE SendPsync
  BY <1>9 DEF SendPsync
<1>10. CASE FullResync
  BY <1>10 DEF FullResync
<1>11. CASE Continue
  BY <1>11, BoundedContinue
<1>12. CASE ReceiveRdbHeader
  BY <1>12, BoundedReceiveRdbHeader
<1>13. CASE ReceiveRdbDone
  BY <1>13 DEF ReceiveRdbDone
<1>14. CASE SendAck
  BY <1>14 DEF SendAck
<1>15. CASE NotifyReady
  BY <1>15 DEF NotifyReady, Called
<1>16. CASE OpenAof
  BY <1>16 DEF OpenAof
<1>17. CASE PublishOffset
  BY <1>17, BoundedPublishOffset
<1>18. CASE LinkLost
  BY <1>18 DEF LinkLost
<1>19. CASE ReceiveRdbChunk
  BY <1>19 DEF ReceiveRdbChunk, Woken
<1>20. CASE ReceiveAof
  BY <1>20, BoundedReceiveAof
<1>21. CASE InputFails
  BY <1>21 DEF InputFails, Fault
<1>22. CASE CheckAvailable
  BY <1>22 DEF CheckAvailable
<1>23. CASE AwaitNotify
  BY <1>23 DEF AwaitNotify
<1>24. CASE OpenRdb
  BY <1>24 DEF OpenRdb, InRdb
<1>25. CASE OpenAofReader
  BY <1>25 DEF OpenAofReader
<1>26. CASE OpenFails
  BY <1>26 DEF OpenFails, Fault
<1>27. CASE SendRdb
  BY <1>27 DEF SendRdb, RdbWhole
<1>28. CASE SendRdbFails
  BY <1>28 DEF SendRdbFails, Fault
<1>29. CASE SendAofChunk
  BY <1>29, BoundedSendAofChunk
<1>30. CASE SendAofDone
  BY <1>30 DEF SendAofDone
<1>31. CASE SendAofFails
  BY <1>31, SMTT(30) DEF SendAofFails, SendAofError, Fault
<1>32. CASE Retry
  BY <1>32 DEF Retry
<1>33. CASE SaveOffset
  BY <1>33, BoundedSave
<1>34. CASE SaveMapping
  BY <1>34, ZenonT(60) DEF SaveMapping
<1>35. CASE SavePsyncOffset
  BY <1>35, BoundedSave
<1>36. CASE SaveFails
  BY <1>36 DEF SaveFails, Fault
<1>37. CASE \/ ReceivePing \/ TargetApply \/ TargetBreaks
  BY <1>37 DEF ReceivePing, Woken, TargetApply, TargetBreaks, Fault
<1>38. CASE UNCHANGED vars
  BY <1>38 DEF vars
<1> QED
  BY <1>1, <1>2, <1>3, <1>4, <1>5, <1>6, <1>7, <1>8, <1>9, <1>10, <1>11, <1>12, <1>13,
     <1>14, <1>15, <1>16, <1>17, <1>18, <1>19, <1>20, <1>21, <1>22, <1>23, <1>24,
     <1>25, <1>26, <1>27, <1>28, <1>29, <1>30, <1>31, <1>32, <1>33, <1>34, <1>35,
     <1>36, <1>37, <1>38
  DEF Next, InputSteps, FwdSteps, SaveSteps

LEMMA ReadingStep ==
  ASSUME TypeOK, Linked, Spawned, Labels, Reading, [Next]_vars
  PROVE  Reading'
<1> USE BoundsAssumption, RdbSizesAssumption DEF TypeOK, InputType, SharedType, MainType,
        WorldType, CkptType, FwdType, OffsetOrNone, FileType, AofType, NoLink, NoFile,
        NoAof, Nobody, NoReplid, NoOffset, Replids, ReplidOrNone, worldVars, sharedVars,
        inputVars, mainVars, fwdVars, targetVars, Linked, Spawned, Labels, Reading,
        Saving, InRdb, InAof
<1>1. CASE Start
  BY <1>1 DEF Start
<1>2. CASE LeaderListen
  BY <1>2 DEF LeaderListen
<1>3. CASE LeaderTimeout
  BY <1>3 DEF LeaderTimeout
<1>4. CASE LeaderSpawn
  BY <1>4 DEF LeaderSpawn
<1>5. CASE LeaderAbort
  BY <1>5 DEF LeaderAbort, ProcessEnds
<1>6. CASE Crash
  BY <1>6 DEF Crash, ProcessEnds, Fault
<1>7. CASE SendPsync
  BY <1>7 DEF SendPsync
<1>8. CASE FullResync
  BY <1>8 DEF FullResync
<1>9. CASE Continue
  BY <1>9 DEF Continue
<1>10. CASE ReceiveRdbHeader
  BY <1>10 DEF ReceiveRdbHeader
<1>11. CASE ReceiveRdbDone
  BY <1>11 DEF ReceiveRdbDone
<1>12. CASE SendAck
  BY <1>12 DEF SendAck
<1>13. CASE NotifyReady
  BY <1>13 DEF NotifyReady, Called
<1>14. CASE OpenAof
  BY <1>14 DEF OpenAof
<1>15. CASE PublishOffset
  BY <1>15 DEF PublishOffset
<1>16. CASE LinkLost
  BY <1>16 DEF LinkLost
<1>17. CASE ReceiveRdbChunk
  BY <1>17 DEF ReceiveRdbChunk, Woken
<1>18. CASE ReceiveAof
  BY <1>18, ReadingReceiveAof
<1>19. CASE InputFails
  BY <1>19 DEF InputFails, Fault
<1>20. CASE CheckAvailable
  BY <1>20, ReadingCheckAvailable
<1>21. CASE AwaitNotify
  BY <1>21 DEF AwaitNotify
<1>22. CASE OpenRdb
  BY <1>22, ReadingOpenRdb
<1>23. CASE OpenAofReader
  BY <1>23, ReadingOpenAofReader
<1>24. CASE OpenFails
  BY <1>24 DEF OpenFails, Fault
<1>25. CASE SendRdb
  BY <1>25 DEF SendRdb, RdbWhole
<1>26. CASE SendRdbFails
  BY <1>26 DEF SendRdbFails, Fault
<1>27. CASE SendAofChunk
  BY <1>27, ReadingSendAofChunk
<1>28. CASE SendAofDone
  BY <1>28, ReadingSendAofDone
<1>29. CASE SendAofFails
  BY <1>29 DEF SendAofFails, SendAofError, Fault
<1>30. CASE Retry
  BY <1>30 DEF Retry
<1>31. CASE SaveOffset
  BY <1>31 DEF SaveOffset
<1>32. CASE SaveMapping
  BY <1>32 DEF SaveMapping
<1>33. CASE SavePsyncOffset
  BY <1>33 DEF SavePsyncOffset
<1>34. CASE SaveFails
  BY <1>34 DEF SaveFails, Fault
<1>35. CASE \/ MasterWrite \/ MasterFailover \/ ReceivePing \/ TargetApply \/ TargetBreaks
  BY <1>35 DEF MasterWrite, MasterFailover, ReceivePing, Woken, TargetApply,
     TargetBreaks, Fault
<1>36. CASE UNCHANGED vars
  BY <1>36 DEF vars
<1> QED
  BY <1>1, <1>2, <1>3, <1>4, <1>5, <1>6, <1>7, <1>8, <1>9, <1>10, <1>11, <1>12, <1>13,
     <1>14, <1>15, <1>16, <1>17, <1>18, <1>19, <1>20, <1>21, <1>22, <1>23, <1>24,
     <1>25, <1>26, <1>27, <1>28, <1>29, <1>30, <1>31, <1>32, <1>33, <1>34, <1>35,
     <1>36
  DEF Next, InputSteps, FwdSteps, SaveSteps

LEMMA FrontStep ==
  ASSUME TypeOK, Linked, Spawned, Resumed, Labels, Bounded, Reading, Front, [Next]_vars
  PROVE  Front'
<1> USE BoundsAssumption, RdbSizesAssumption DEF TypeOK, InputType, SharedType, MainType,
        WorldType, CkptType, FwdType, OffsetOrNone, FileType, AofType, NoLink, NoFile,
        NoAof, Nobody, NoReplid, NoOffset, Replids, ReplidOrNone, worldVars, sharedVars,
        inputVars, mainVars, fwdVars, targetVars, Linked, Spawned, Resumed, Labels,
        Bounded, Reading, Front, Saving, CheckpointNotInFuture, InRdb, InAof
<1>1. CASE Start
  BY <1>1 DEF Start
<1>2. CASE LeaderListen
  BY <1>2 DEF LeaderListen
<1>3. CASE LeaderTimeout
  BY <1>3 DEF LeaderTimeout
<1>4. CASE LeaderSpawn
  BY <1>4, FrontLeaderSpawn
<1>5. CASE LeaderAbort
  BY <1>5 DEF LeaderAbort, ProcessEnds
<1>6. CASE Crash
  BY <1>6 DEF Crash, ProcessEnds, Fault
<1>7. CASE SendPsync
  BY <1>7 DEF SendPsync
<1>8. CASE FullResync
  BY <1>8 DEF FullResync
<1>9. CASE Continue
  BY <1>9, FrontContinue
<1>10. CASE ReceiveRdbHeader
  BY <1>10 DEF ReceiveRdbHeader
<1>11. CASE ReceiveRdbDone
  BY <1>11 DEF ReceiveRdbDone
<1>12. CASE SendAck
  BY <1>12 DEF SendAck
<1>13. CASE NotifyReady
  BY <1>13 DEF NotifyReady, Called
<1>14. CASE OpenAof
  BY <1>14 DEF OpenAof
<1>15. CASE PublishOffset
  BY <1>15 DEF PublishOffset
<1>16. CASE LinkLost
  BY <1>16 DEF LinkLost
<1>17. CASE ReceiveRdbChunk
  BY <1>17 DEF ReceiveRdbChunk, Woken
<1>18. CASE ReceiveAof
  BY <1>18 DEF ReceiveAof, Woken
<1>19. CASE InputFails
  BY <1>19 DEF InputFails, Fault
<1>20. CASE CheckAvailable
  BY <1>20 DEF CheckAvailable
<1>21. CASE AwaitNotify
  BY <1>21 DEF AwaitNotify
<1>22. CASE OpenRdb
  BY <1>22 DEF OpenRdb, InRdb
<1>23. CASE OpenAofReader
  BY <1>23, FrontOpenAofReader
<1>24. CASE OpenFails
  BY <1>24 DEF OpenFails, Fault
<1>25. CASE SendRdb
  BY <1>25, FrontSendRdb
<1>26. CASE SendRdbFails
  BY <1>26 DEF SendRdbFails, Fault
<1>27. CASE SendAofChunk
  BY <1>27 DEF SendAofChunk, AofPos
<1>28. CASE SendAofDone
  BY <1>28, FrontSendAofDone
<1>29. CASE SendAofFails
  BY <1>29 DEF SendAofFails, SendAofError, Fault
<1>30. CASE Retry
  BY <1>30 DEF Retry
<1>31. CASE SaveOffset
  BY <1>31, FrontSave
<1>32. CASE SaveMapping
  BY <1>32, ZenonT(60) DEF SaveMapping
<1>33. CASE SavePsyncOffset
  BY <1>33, FrontSave
<1>34. CASE SaveFails
  BY <1>34 DEF SaveFails, Fault
<1>35. CASE \/ MasterWrite \/ MasterFailover \/ ReceivePing \/ TargetApply \/ TargetBreaks
  BY <1>35 DEF MasterWrite, MasterFailover, ReceivePing, Woken, TargetApply,
     TargetBreaks, Fault
<1>36. CASE UNCHANGED vars
  BY <1>36 DEF vars
<1> QED
  BY <1>1, <1>2, <1>3, <1>4, <1>5, <1>6, <1>7, <1>8, <1>9, <1>10, <1>11, <1>12, <1>13,
     <1>14, <1>15, <1>16, <1>17, <1>18, <1>19, <1>20, <1>21, <1>22, <1>23, <1>24,
     <1>25, <1>26, <1>27, <1>28, <1>29, <1>30, <1>31, <1>32, <1>33, <1>34, <1>35,
     <1>36
  DEF Next, InputSteps, FwdSteps, SaveSteps

LEMMA NoGapStep ==
  ASSUME TypeOK, TypeOK', Linked, Spawned, Labels, Reading, NoGapSinceBegin, [Next]_vars
  PROVE  NoGapSinceBegin'
<1> USE DEF worldVars, sharedVars, inputVars, mainVars, fwdVars, targetVars
<1>1. CASE SendPsync
  BY <1>1, NoGapBeforeAof
<1>2. CASE FullResync
  BY <1>2, NoGapBeforeAof
<1>3. CASE OpenAof
  BY <1>3, NoGapBeforeAof
<1>4. CASE LeaderSpawn
  BY <1>4, NoGapBeforeAof
<1>5. CASE SendRdb
  BY <1>5, NoGapBeforeAof
<1>6. CASE SendAofDone
  BY <1>6, NoGapFwd
<1>7. CASE SendAofFails
  BY <1>7, NoGapFwd
<1>8. CASE SendRdbFails
  BY <1>8, NoGapFwd
<1>9. CASE OpenRdb
  BY <1>9, NoGapFwd
<1>10. CASE OpenAofReader
  BY <1>10, NoGapOpenAofReader
<1>11. CASE ReceiveAof
  BY <1>11, NoGapReceiveAof
<1>12. CASE SendAofChunk
  BY <1>12, NoGapSendAofChunk
<1>13. CASE LeaderAbort
  BY <1>13, NoGapKeep DEF LeaderAbort, ProcessEnds
<1>14. CASE Crash
  BY <1>14, NoGapKeep DEF Crash, ProcessEnds
<1>15. CASE \/ MasterWrite \/ MasterFailover \/ Start \/ LeaderListen \/ LeaderTimeout \/
             Continue \/ ReceiveRdbHeader \/ ReceiveRdbDone \/ SendAck \/
             NotifyReady \/ PublishOffset \/ LinkLost \/ ReceiveRdbChunk \/
             ReceivePing \/ InputFails \/ CheckAvailable \/ AwaitNotify \/
             OpenFails \/ Retry \/ SaveOffset \/ SaveMapping \/ SavePsyncOffset
             \/ SaveFails \/ TargetApply \/ TargetBreaks
  BY <1>15, Numbers, NoGapKeep DEF MasterWrite, MasterFailover, Start, LeaderListen,
     LeaderTimeout,
     Continue, ReceiveRdbHeader, ReceiveRdbDone, SendAck, NotifyReady, Called,
     PublishOffset, LinkLost, ReceiveRdbChunk, Woken, ReceivePing, InputFails, Fault,
     CheckAvailable, AwaitNotify, OpenFails, Retry, SaveOffset, SaveMapping,
     SavePsyncOffset, SaveFails, TargetApply, TargetBreaks
<1>16. CASE UNCHANGED vars
  BY <1>16, Numbers, NoGapKeep DEF vars
<1> QED
  BY <1>1, <1>2, <1>3, <1>4, <1>5, <1>6, <1>7, <1>8, <1>9, <1>10, <1>11, <1>12, <1>13,
     <1>14, <1>15, <1>16
  DEF Next, InputSteps, FwdSteps, SaveSteps

-----------------------------------------------------------------------------
(* The inductive step.                                                     *)

LEMMA InvInit == Init => Inv
<1> SUFFICES ASSUME Init PROVE Inv
  OBVIOUS
<1>1. TypeOK
  BY TypeInit
<1>2. \A r \in Replids : ckpt[r].off = NoOffset
  BY DEF Init
<1>3. master.len \in Nat
  BY <1>1, Numbers
<1> QED
  BY <1>1, <1>2, <1>3
  DEF Init, Inv, Linked, Continued, Spawned, Resumed, Labels, Bounded, Reading,
     NoGapSinceBegin, Front,
      CheckpointNotInFuture, Saving, InRdb, InAof, NoLink, NoFile, NoAof, Nobody, NoReplid,
      NoOffset

LEMMA InvStep == Inv /\ [Next]_vars => Inv'
<1> SUFFICES ASSUME Inv, [Next]_vars PROVE Inv'
  OBVIOUS
<1>1. TypeOK'
  BY TypeStep DEF Inv
<1>2. Linked' /\ Continued' /\ Spawned'
  BY LinkedStep, ContinuedStep, SpawnedStep DEF Inv
<1>3. Resumed' /\ Labels'
  BY ResumedStep, LabelsStep DEF Inv
<1>4. Bounded' /\ Reading'
  BY BoundedStep, ReadingStep DEF Inv
<1>5. NoGapSinceBegin'
  BY <1>1, NoGapStep DEF Inv
<1>6. Front'
  BY FrontStep DEF Inv
<1> QED
  BY <1>1, <1>2, <1>3, <1>4, <1>5, <1>6 DEF Inv

-----------------------------------------------------------------------------
(* What single steps do to the checkpoints and to the forwarder's cursor.  *)

\* Only the two HSETs of an offset change an offset.
LEMMA CkptKeep ==
  ASSUME TypeOK, [Next]_vars, ~SaveOffset, ~SavePsyncOffset
  PROVE  \A r \in Replids : ckpt'[r].off = ckpt[r].off
<1>1. CASE SaveMapping
  BY <1>1 DEF SaveMapping, TypeOK, CkptType
<1>2. CASE UNCHANGED ckpt
  BY <1>2
<1>3. SaveMapping \/ UNCHANGED ckpt
  <2>1. CASE UNCHANGED vars
    BY <2>1 DEF vars
  <2>2. CASE MasterWrite \/ MasterFailover \/ Start \/ LeaderListen \/ LeaderTimeout
               \/ LeaderSpawn \/ LeaderAbort \/ Crash
    BY <2>2 DEF MasterWrite, MasterFailover, Start, LeaderListen, LeaderTimeout,
       LeaderSpawn, LeaderAbort, Crash, ProcessEnds
  <2>3. CASE InputSteps \/ ReceiveRdbChunk \/ ReceiveAof \/ ReceivePing \/ InputFails
    BY <2>3 DEF InputSteps, SendPsync, FullResync, Continue, ReceiveRdbHeader,
       ReceiveRdbDone, SendAck, NotifyReady, OpenAof, PublishOffset, LinkLost,
       ReceiveRdbChunk, ReceiveAof, ReceivePing, InputFails
  <2>4. CASE FwdSteps \/ SaveFails \/ TargetApply \/ TargetBreaks
    BY <2>4 DEF FwdSteps, CheckAvailable, AwaitNotify, OpenRdb, OpenAofReader, OpenFails,
       SendRdb, SendRdbFails, SendAofChunk, SendAofDone, SendAofFails, SendAofError,
       Fault, Retry, SaveFails,
       TargetApply, TargetBreaks
  <2> QED
    BY <2>1, <2>2, <2>3, <2>4 DEF Next, SaveSteps
<1> QED
  BY <1>1, <1>2, <1>3

\* A save writes the forwarder's offset, which is not behind what is saved already.
LEMMA SaveAdvances ==
  ASSUME Inv, SaveOffset \/ SavePsyncOffset
  PROVE  /\ cm /\ psync_master_replid \in Replids
         /\ ckpt[psync_master_replid].off <= offset + 1
<1>1. TypeOK /\ Linked /\ Reading /\ Front
  BY DEF Inv
<1>2. Saving
  BY <1>1, SaveEffect
<1>3. link.replid # NoReplid /\ psync_master_replid \in Replids
  BY <1>1, <1>2 DEF Reading, Linked, TypeOK, SharedType, ReplidOrNone
<1> QED
  BY <1>1, <1>2, <1>3 DEF Reading, Front

LEMMA NeverFallsBackStep ==
  ASSUME Inv, [Next]_vars
  PROVE  \A r \in Replids : ckpt'[r].off + 1 >= ckpt[r].off
<1>1. TypeOK
  BY DEF Inv
<1>2. CASE SaveOffset \/ SavePsyncOffset
  BY <1>1, <1>2, SaveEffect, SaveAdvances, Numbers
<1>3. CASE ~SaveOffset /\ ~SavePsyncOffset
  BY <1>1, <1>3, CkptKeep, Numbers
<1> QED
  BY <1>2, <1>3

LEMMA IsForwardedStep ==
  ASSUME Inv, [Next]_vars, NEW r \in Replids, ckpt'[r].off # ckpt[r].off
  PROVE  /\ cm /\ r = psync_master_replid /\ ckpt'[r].off = offset
         /\ begin # NoOffset =>
              /\ offset <= aof.start + aof.len
              /\ \A p \in AofPos(begin) .. AofPos(offset) - 1 : p \in sent[r]
<1>1. TypeOK /\ Spawned /\ Reading /\ NoGapSinceBegin
  BY DEF Inv
<1>2. SaveOffset \/ SavePsyncOffset
  BY <1>1, CkptKeep
<1>3. cm /\ r = psync_master_replid /\ ckpt'[r].off = offset /\ Saving
  BY <1>1, <1>2, SaveEffect, SaveAdvances
<1>4. sending = 0
  BY <1>1, <1>3 DEF Spawned, Saving
<1>5. offset + sending = offset
  BY <1>1, <1>4, Numbers
<1> QED
  BY <1>1, <1>3, <1>5 DEF Reading, NoGapSinceBegin

-----------------------------------------------------------------------------
(* The refinement: one lemma per kind of step of a history's cursor.       *)

\* An offset of the forwarding task is a label that was given out.
LEMMA CursorBounded ==
  ASSUME Inv, NEW r
  PROVE  /\ CursorOf(r) \in Nat \union {NoOffset}
         /\ CursorOf(r) <= master.len + 1
         /\ master.len + 1 \in Nat
<1>1. TypeOK /\ Bounded
  BY DEF Inv
<1> QED
  BY <1>1, Numbers DEF Bounded, CursorOf, NoOffset

\* A step that changes neither the checkpoints nor the length of the history and
\* does not move a cursor back is an attachment, an advance or a detachment.
LEMMA CursorMoves ==
  ASSUME Inv, Inv', NEW r \in Replids,
         master'.len = master.len, ckpt'[r].off = ckpt[r].off,
         CursorOf(r) = NoOffset \/ CursorOf(r)' = NoOffset \/ CursorOf(r) <= CursorOf(r)'
  PROVE  [Cursor(r)!Next]_(Cursor(r)!vars)
<1>1. /\ CursorOf(r) \in Nat \union {NoOffset} /\ CursorOf(r)' \in Nat \union {NoOffset}
      /\ CursorOf(r)' <= master.len + 1
  <2>1. CursorOf(r)' \in Nat \union {NoOffset} /\ CursorOf(r)' <= master'.len + 1
    <3>1. TypeOK' /\ Bounded'
      BY DEF Inv
    <3>2. offset' \in Nat /\ sending' \in Nat /\ master'.len \in Nat
      BY <3>1 DEF TypeOK, FwdType, WorldType
    <3> QED
      BY <3>1, <3>2 DEF Bounded, CursorOf, NoOffset
  <2> QED
    BY <2>1, CursorBounded
<1>2. CASE CursorOf(r)' = NoOffset
  BY <1>2 DEF Cursor!Next, Cursor!Detach, Cursor!None, NoOffset
<1>3. CASE CursorOf(r)' # NoOffset /\ CursorOf(r) = NoOffset
  BY <1>1, <1>3 DEF Cursor!Next, Cursor!Attach, Cursor!None, NoOffset
<1>4. CASE CursorOf(r)' # NoOffset /\ CursorOf(r) # NoOffset
  BY <1>1, <1>4 DEF Cursor!Next, Cursor!Advance, Cursor!None, NoOffset
<1> QED
  BY <1>2, <1>3, <1>4


\* While there is a forwarding task its offset does not go back, and no step but the
\* source's writes changes how much the source has produced.
LEMMA OffsetGrows ==
  ASSUME TypeOK, Spawned, [Next]_vars, fwd # "off", fwd' # "off"
  PROVE  offset' >= offset
<1>1. CASE SendRdb \/ SendAofDone
  BY <1>1, Numbers DEF SendRdb, SendAofDone
<1>2. CASE LeaderSpawn
  BY <1>2 DEF LeaderSpawn, Spawned
<1>3. CASE LeaderAbort \/ Crash
  BY <1>3 DEF LeaderAbort, Crash, ProcessEnds
<1>4. CASE UNCHANGED offset
  BY <1>4, Numbers
<1>5. \/ SendRdb \/ SendAofDone \/ LeaderSpawn \/ LeaderAbort \/ Crash
      \/ UNCHANGED offset
  <2>1. CASE UNCHANGED vars
    BY <2>1 DEF vars, fwdVars
  <2>2. CASE MasterWrite \/ MasterFailover \/ Start \/ LeaderListen \/ LeaderTimeout
    BY <2>2 DEF MasterWrite, MasterFailover, Start, LeaderListen, LeaderTimeout, fwdVars
  <2>3. CASE InputSteps \/ ReceiveRdbChunk \/ ReceiveAof \/ ReceivePing \/ InputFails
    BY <2>3 DEF InputSteps, SendPsync, FullResync, Continue, ReceiveRdbHeader,
       ReceiveRdbDone, SendAck, NotifyReady, OpenAof, PublishOffset, LinkLost,
       ReceiveRdbChunk, ReceiveAof, ReceivePing, InputFails, fwdVars
  <2>4. CASE FwdSteps
    BY <2>4 DEF FwdSteps, CheckAvailable, AwaitNotify, OpenRdb, OpenAofReader, OpenFails,
       SendRdb, SendRdbFails, SendAofChunk, SendAofDone, SendAofFails, SendAofError,
       Fault, Retry, fwdVars
  <2>5. CASE SaveSteps \/ TargetApply \/ TargetBreaks
    BY <2>5 DEF SaveSteps, SaveOffset, SaveMapping, SavePsyncOffset, SaveFails,
       TargetApply, TargetBreaks, fwdVars
  <2> QED
    BY <2>1, <2>2, <2>3, <2>4, <2>5 DEF Next
<1> QED
  BY <1>1, <1>2, <1>3, <1>4, <1>5

LEMMA LengthKept ==
  ASSUME TypeOK, [Next]_vars, ~MasterWrite
  PROVE  master'.len = master.len
<1>1. CASE MasterFailover
  BY <1>1 DEF MasterFailover, TypeOK, WorldType
<1>2. CASE UNCHANGED vars
  BY <1>2 DEF vars, worldVars
<1>3. CASE Start \/ LeaderListen \/ LeaderTimeout \/ LeaderSpawn \/ LeaderAbort \/ Crash
  BY <1>3 DEF Start, LeaderListen, LeaderTimeout, LeaderSpawn, LeaderAbort, Crash,
     ProcessEnds, worldVars
<1>4. CASE InputSteps \/ ReceiveRdbChunk \/ ReceiveAof \/ ReceivePing \/ InputFails
  BY <1>4 DEF InputSteps, SendPsync, FullResync, Continue, ReceiveRdbHeader,
     ReceiveRdbDone, SendAck, NotifyReady, OpenAof, PublishOffset, LinkLost,
     ReceiveRdbChunk, ReceiveAof, ReceivePing, InputFails, worldVars
<1>5. CASE FwdSteps
  BY <1>5 DEF FwdSteps, CheckAvailable, AwaitNotify, OpenRdb, OpenAofReader, OpenFails,
     SendRdb, SendRdbFails, SendAofChunk, SendAofDone, SendAofFails, SendAofError, Fault,
     Retry, worldVars
<1>6. CASE SaveSteps \/ TargetApply \/ TargetBreaks
  BY <1>6 DEF SaveSteps, SaveOffset, SaveMapping, SavePsyncOffset, SaveFails,
     TargetApply, TargetBreaks, worldVars
<1> QED
  BY <1>1, <1>2, <1>3, <1>4, <1>5, <1>6 DEF Next

LEMMA CursorStep ==
  ASSUME Inv, Inv', [Next]_vars, NEW r \in Replids
  PROVE  [Cursor(r)!Next]_(Cursor(r)!vars)
<1>t. TypeOK /\ Spawned
  BY DEF Inv
<1>1. CASE MasterWrite
  <2>1. /\ master'.len = master.len + 1
        /\ UNCHANGED <<ckpt, fwd, offset, psync_master_replid>>
    BY <1>t, <1>1 DEF MasterWrite, TypeOK, WorldType, sharedVars, fwdVars
  <2>2. CursorOf(r)' = CursorOf(r)
    BY <2>1 DEF CursorOf
  <2>3. Cursor(r)!Produce
    BY <1>t, <2>1, <2>2, Numbers DEF Cursor!Produce
  <2> QED
    BY <2>3 DEF Cursor!Next
<1>2. CASE SaveOffset \/ SavePsyncOffset
  <2>1. fwd # "off" /\ fwd' # "off" /\ UNCHANGED <<master, offset, psync_master_replid>>
    BY <1>t, <1>2, SaveEffect DEF Saving
  <2>2. CursorOf(r)' = CursorOf(r)
    BY <2>1 DEF CursorOf
  <2>3. CASE r = psync_master_replid
    <3>1. CursorOf(r) = offset /\ ckpt'[r].off = offset /\ offset # NoOffset
      BY <1>t, <1>2, <2>1, <2>3, SaveEffect, Numbers DEF CursorOf, NoOffset
    <3>2. Cursor(r)!Save
      BY <2>1, <2>2, <3>1 DEF Cursor!Save, Cursor!None, NoOffset
    <3> QED
      BY <3>2 DEF Cursor!Next
  <2>4. CASE r # psync_master_replid
    <3>1. ckpt'[r].off = ckpt[r].off
      BY <1>t, <1>2, <2>4, SaveEffect
    <3> QED
      BY <2>1, <2>2, <3>1 DEF Cursor!vars
  <2> QED
    BY <2>3, <2>4
<1>3. CASE ~MasterWrite /\ ~SaveOffset /\ ~SavePsyncOffset
  <2>1. master'.len = master.len /\ ckpt'[r].off = ckpt[r].off
    BY <1>t, <1>3, LengthKept, CkptKeep
  <2>2. CursorOf(r) = NoOffset \/ CursorOf(r)' = NoOffset \/ CursorOf(r) <= CursorOf(r)'
    BY <1>t, OffsetGrows DEF CursorOf
  <2> QED
    BY <2>1, <2>2, CursorMoves
<1> QED
  BY <1>1, <1>2, <1>3

LEMMA CursorInit ==
  ASSUME Init, NEW r \in Replids
  PROVE  Cursor(r)!Init
<1>1. CursorOf(r) = NoOffset /\ ckpt[r].off = NoOffset
  BY DEF Init, CursorOf
<1>2. master.len + 1 \in Nat
  BY TypeInit, Numbers
<1> QED
  BY <1>1, <1>2 DEF Cursor!Init, Cursor!None, NoOffset

-----------------------------------------------------------------------------
(* The theorems.                                                           *)

\* The inductive invariant.
THEOREM Invariance == Spec => []Inv
<1>1. Init => Inv
  BY InvInit
<1>2. Inv /\ [Next]_vars => Inv'
  BY InvStep
<1> QED
  BY <1>1, <1>2, PTL DEF Spec

\* Every variable keeps its type, whatever the bounds.
THEOREM TypeCorrect == Spec => []TypeOK
<1>1. Inv => TypeOK
  BY DEF Inv
<1> QED
  BY <1>1, Invariance, PTL

\* However often the process is restarted, the wait for PSYNC times out, the source
\* fails over or a connection breaks, no checkpoint in the target is more than one
\* label ahead of what the source has produced.
THEOREM CheckpointsNotInFuture == Spec => []CheckpointNotInFuture
<1>1. Inv => CheckpointNotInFuture
  BY DEF Inv, Bounded
<1> QED
  BY <1>1, Invariance, PTL

\* What one process forwards from the AOF file has no gap after its first byte.
THEOREM ForwardingHasNoGap == Spec => []NoGapSinceBegin
<1>1. Inv => NoGapSinceBegin
  BY DEF Inv
<1> QED
  BY <1>1, Invariance, PTL

\* A checkpoint is saved under the id of the history whose bytes are being forwarded,
\* or under the id before, and then what precedes the forwarded bytes is the same in
\* both, whenever the source has failed over.
THEOREM SavedUnderContinuedId == Spec => []SavedIdIsContinued
<1>1. Inv => SavedIdIsContinued
  <2> SUFFICES ASSUME Inv, Saving PROVE SavedIdIsContinued
    BY DEF SavedIdIsContinued
  <2>1. rdb.size # 0 \/ aof.open
    BY Numbers DEF Inv, Reading
  <2>2. link.replid # NoReplid
    BY <2>1, Numbers DEF Inv, Linked
  <2> QED
    BY <2>1, <2>2 DEF Inv, Continued, SavedIdIsContinued
<1> QED
  BY <1>1, Invariance, PTL

\* An offset written to a checkpoint is the forwarder's, for the history it forwards,
\* with everything behind it written to the target.
THEOREM OnlyForwardedIsSaved == Spec => CheckpointIsForwarded
<1>1. Inv /\ [Next]_vars =>
        [\A r \in Replids :
           ckpt'[r].off # ckpt[r].off =>
             /\ cm /\ r = psync_master_replid /\ ckpt'[r].off = offset
             /\ begin # NoOffset =>
                  /\ offset <= aof.start + aof.len
                  /\ \A p \in AofPos(begin) .. AofPos(offset) - 1 : p \in sent[r]]_vars
  BY IsForwardedStep
<1> QED
  BY <1>1, Invariance, PTL DEF Spec, CheckpointIsForwarded

\* Over restarts, resumed or with a new snapshot, no checkpoint falls back.
THEOREM CheckpointsGrow == Spec => CheckpointNeverFallsBack
<1>1. Inv /\ [Next]_vars => [\A r \in Replids : ckpt'[r].off + 1 >= ckpt[r].off]_vars
  BY NeverFallsBackStep
<1> QED
  BY <1>1, Invariance, PTL DEF Spec, CheckpointNeverFallsBack

\* The pipeline implements a cursor over a growing log, for every history.
THEOREM ImplementsLogCursor == Spec => IsLogCursor
<1>1. Init => \A r \in Replids : Cursor(r)!Init
  BY CursorInit
<1>2. Inv /\ Inv' /\ [Next]_vars =>
        [\A r \in Replids : [Cursor(r)!Next]_(Cursor(r)!vars)]_vars
  BY CursorStep
<1> QED
  BY <1>1, <1>2, Invariance, PTL DEF Spec, IsLogCursor
=============================================================================
