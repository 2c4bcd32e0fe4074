--------------------------- MODULE CheckpointStore ---------------------------
(***************************************************************************)
(* CheckpointManager (checkpoint/manager.rs): the checkpoints of all       *)
(* replication ids live in two hashes of the target Redis, and every       *)
(* operation is a sequence of single commands on them.  Several managers,  *)
(* of several processes, may be at work; a command may fail and a process  *)
(* may die between two commands.                                           *)
(*                                                                         *)
(* A manager's call is where it is in its operation; a field's value       *)
(* matters for offsets and versions, of the others only that it is there.  *)
(***************************************************************************)
EXTENDS Integers, FiniteSets

CONSTANTS
  Managers,    \* the CheckpointManager objects
  Writers,     \* those that save, update and delete
  Replids,     \* replication ids
  Ops,         \* the operations called
  Deleted,     \* the replication ids delete_checkpoint is called for
  MaxOffset,   \* bound: offsets saved
  MaxCalls,    \* bound: calls of all managers
  MaxFaults    \* bound: failed commands and deaths

WriteOps == {"save", "psync", "update", "delete"}
ReadOps  == {"getPsync", "get", "getAll"}

ASSUME WritersAssumption == Writers \subseteq Managers
ASSUME OpsAssumption == Ops \subseteq WriteOps \union ReadOps /\ Deleted \subseteq Replids
ASSUME StoreBoundsAssumption == MaxOffset \in Nat /\ MaxCalls \in Nat /\ MaxFaults \in Nat

VARIABLES
  fields,   \* redis_ha_tool_checkpoint: the fields of each replid
  mapping,  \* redis_ha_tool_checkpoint_hash: the replids that have an entry
  call,     \* per manager: the operation under way
  calls, faults,
  asked,    \* history: per replid, the largest offset a writer was asked to save
  saved     \* history: per replid, the largest offset a returned save has saved

vars == <<fields, mapping, call, calls, faults, asked, saved>>

None      == -1       \* no such field; Ok(None)
Corrupted == -2       \* Err(SyncError::Corrupted)
Present   == 0        \* a field whose value nothing depends on

FieldNames == {"offset", "runid", "version", "mtime", "psync"}
Stored     == {"offset", "runid", "version", "mtime"}  \* what a checkpoint sets, and HDEL clears
Needed     == {"offset", "version", "mtime"}           \* what from_hash_fields needs
Idle == [op |-> "none", at |-> "ret", r |-> 0, off |-> None, ver |-> 0, keys |-> {},
         res |-> None, floor |-> None]

\* Where an operation begins.
First == [save |-> "sOff", psync |-> "pId", update |-> "uGet", delete |-> "dFields",
          getPsync |-> "exists", get |-> "exists", getAll |-> "keys"]

\* The HSETs: which field each sets and what comes after it.
HsetField == [sOff |-> "offset", sRun |-> "runid", sVer |-> "version", sMtime |-> "mtime",
              pId |-> "psync", pOff |-> "offset",
              uOff |-> "offset", uVer |-> "version", uMtime |-> "mtime"]

\* Mutant of HsetAfter: the mapping is written once the offset is there.
HsetAfterMapsEarly ==
  [sOff |-> "sMap", sRun |-> "sVer", sVer |-> "sMtime", sMtime |-> "ret",
   pId |-> "pOff", pOff |-> "ret", uOff |-> "uVer", uVer |-> "uMtime", uMtime |-> "ret"]

HsetAfter == [sOff |-> "sRun", sRun |-> "sVer", sVer |-> "sMtime", sMtime |-> "sMap",
              pId |-> "pOff", pOff |-> "ret",
              uOff |-> "uVer", uVer |-> "uMtime", uMtime |-> "ret"]

\* Mutant of HsetValue: update_offset mixes up the offset and the version.
HsetValueSwapped(c) == IF c.at = "uOff" THEN c.ver
                       ELSE IF c.at = "uVer" \/ HsetField[c.at] \in {"offset", "psync"}
                            THEN c.off ELSE Present

\* A checkpoint that is saved is a new CheckpointInfo, whose version is 0.
HsetValue(c) == IF HsetField[c.at] \in {"offset", "psync"} THEN c.off
                ELSE IF c.at = "uVer" THEN c.ver ELSE Present

Fault == faults < MaxFaults /\ faults' = faults + 1

Init ==
  /\ fields = [r \in Replids |-> [f \in FieldNames |-> None]]
  /\ mapping = {}
  /\ call = [m \in Managers |-> Idle]
  /\ calls = 0 /\ faults = 0
  /\ asked = [r \in Replids |-> 0] /\ saved = [r \in Replids |-> None]

-----------------------------------------------------------------------------
(* Calls.  The forwarder, which is who saves, never goes back.             *)

CallWrite(m, op, r, off) ==
  /\ call[m].op = "none" /\ calls < MaxCalls
  /\ m \in Writers /\ op \in Ops \intersect WriteOps
  /\ IF op = "delete" THEN r \in Deleted /\ off = 0 ELSE off >= asked[r]
  /\ call' = [call EXCEPT ![m] = [Idle EXCEPT !.op = op, !.at = First[op], !.r = r,
                                              !.off = off]]
  /\ asked' = [asked EXCEPT ![r] = IF op = "delete" THEN @ ELSE off]
  /\ calls' = calls + 1
  /\ UNCHANGED <<fields, mapping, faults, saved>>

CallRead(m, op, r) ==
  /\ call[m].op = "none" /\ calls < MaxCalls
  /\ op \in Ops \intersect ReadOps
  /\ call' = [call EXCEPT ![m] = [Idle EXCEPT !.op = op, !.at = First[op], !.r = r,
                                              !.floor = saved[r]]]
  /\ calls' = calls + 1
  /\ UNCHANGED <<fields, mapping, faults, asked, saved>>

-----------------------------------------------------------------------------
(* The commands.                                                           *)

\* save_checkpoint, save_psync_info, update_offset: one HSET of a field.
Hset(m) ==
  LET c == call[m] IN
  /\ c.op # "none" /\ c.at \in DOMAIN HsetField
  /\ fields' = [fields EXCEPT ![c.r][HsetField[c.at]] = HsetValue(c)]
  /\ call' = [call EXCEPT ![m].at = HsetAfter[c.at]]
  /\ UNCHANGED <<mapping, calls, faults, asked, saved>>

\* Mutant of HsetMapping: the last HSET of a save is forgotten.
HsetMappingSkips(m) ==
  /\ call[m].at = "sMap"
  /\ call' = [call EXCEPT ![m].at = "ret"]
  /\ UNCHANGED <<fields, mapping, calls, faults, asked, saved>>

\* save_checkpoint, last: HSET redis_ha_tool_checkpoint_hash.
HsetMapping(m) ==
  /\ call[m].at = "sMap"
  /\ mapping' = mapping \union {call[m].r}
  /\ call' = [call EXCEPT ![m].at = "ret"]
  /\ UNCHANGED <<fields, calls, faults, asked, saved>>

\* Mutant of GetVersion: a missing version is not taken for 0.
GetVersionRaw(m) ==
  /\ call[m].at = "uGet"
  /\ call' = [call EXCEPT ![m].at = "uOff", ![m].ver = fields[call[m].r]["version"]]
  /\ UNCHANGED <<fields, mapping, calls, faults, asked, saved>>

\* update_offset, first: HGET <replid>_version, 0 if there is none.
GetVersion(m) ==
  LET v == fields[call[m].r]["version"] IN
  /\ call[m].at = "uGet"
  /\ call' = [call EXCEPT ![m].at = "uOff",
                          ![m].ver = (IF v = None THEN 0 ELSE v) + 1]
  /\ UNCHANGED <<fields, mapping, calls, faults, asked, saved>>

\* delete_checkpoint, first: one HDEL of four fields.
HdelFields(m) ==
  /\ call[m].at = "dFields"
  /\ fields' = [fields EXCEPT ![call[m].r] =
                  [f \in FieldNames |-> IF f \in Stored THEN None ELSE @[f]]]
  /\ call' = [call EXCEPT ![m].at = "dMap"]
  /\ UNCHANGED <<mapping, calls, faults, asked, saved>>

\* Mutant of HdelMapping: DEL in place of HDEL.
HdelMappingAll(m) ==
  /\ call[m].at = "dMap"
  /\ mapping' = {}
  /\ call' = [call EXCEPT ![m].at = "ret"]
  /\ UNCHANGED <<fields, calls, faults, asked, saved>>

\* delete_checkpoint, last: HDEL of the mapping.
HdelMapping(m) ==
  /\ call[m].at = "dMap"
  /\ mapping' = mapping \ {call[m].r}
  /\ call' = [call EXCEPT ![m].at = "ret"]
  /\ UNCHANGED <<fields, calls, faults, asked, saved>>

\* get_psync_info and get_checkpoint, first: HEXISTS of the mapping.
Hexists(m) ==
  LET c == call[m] IN
  /\ c.at = "exists"
  /\ call' = [call EXCEPT ![m].at = IF c.r \notin mapping THEN "ret"
                                    ELSE IF c.op = "getPsync" THEN "hget" ELSE "hgetall"]
  /\ UNCHANGED <<fields, mapping, calls, faults, asked, saved>>

\* get_psync_info, last: HGET <replid>_offset.
HgetOffset(m) ==
  /\ call[m].at = "hget"
  /\ call' = [call EXCEPT ![m].at = "ret", ![m].res = fields[call[m].r]["offset"]]
  /\ UNCHANGED <<fields, mapping, calls, faults, asked, saved>>

\* get_checkpoint, last: HGETALL, None when the whole hash is empty, an error when one of
\* the fields Needed of the replid is missing.
HgetAll(m) ==
  LET c == call[m]
      empty == \A r \in Replids, f \in FieldNames : fields[r][f] = None
      whole == \A f \in Needed : fields[c.r][f] # None
  IN
  /\ c.at = "hgetall"
  /\ call' = [call EXCEPT
       ![m].at = "ret",
       ![m].res = IF empty THEN None ELSE IF whole THEN fields[c.r]["offset"] ELSE Corrupted,
       ![m].keys = IF ~empty /\ ~whole THEN {} ELSE @]
  /\ UNCHANGED <<fields, mapping, calls, faults, asked, saved>>

\* get_all_checkpoints, first: HGETALL of the mapping.
HgetAllKeys(m) ==
  /\ call[m].at = "keys"
  /\ call' = [call EXCEPT ![m].at = "ret", ![m].keys = mapping]
  /\ UNCHANGED <<fields, mapping, calls, faults, asked, saved>>

\* get_all_checkpoints: get_checkpoint of the next key.
NextKey(m) ==
  /\ call[m].op = "getAll" /\ call[m].at = "ret"
  /\ \E r \in call[m].keys :
       call' = [call EXCEPT ![m].at = "exists", ![m].r = r, ![m].keys = @ \ {r}]
  /\ UNCHANGED <<fields, mapping, calls, faults, asked, saved>>

\* The operation returns Ok or what it has read.
Return(m) ==
  LET c == call[m] IN
  /\ c.op # "none" /\ c.at = "ret" /\ c.keys = {}
  /\ call' = [call EXCEPT ![m] = Idle]
  /\ saved' = [r \in Replids |-> IF r # c.r THEN saved[r]
                                ELSE IF c.op = "delete" THEN None
                                ELSE IF c.op = "save" /\ saved[r] < c.off THEN c.off
                                ELSE saved[r]]
  /\ UNCHANGED <<fields, mapping, calls, faults, asked>>

\* A command fails, or its reply is lost, and the operation returns the error; or
\* the process dies.  What was written stays.
Fails(m) ==
  /\ call[m].op # "none"
  /\ Fault
  /\ call' = [call EXCEPT ![m] = Idle]
  /\ UNCHANGED <<fields, mapping, calls, asked, saved>>

Command(m) == \/ Hset(m) \/ HsetMapping(m) \/ GetVersion(m)
              \/ HdelFields(m) \/ HdelMapping(m)
              \/ Hexists(m) \/ HgetOffset(m) \/ HgetAll(m) \/ HgetAllKeys(m) \/ NextKey(m)

Next ==
  \E m \in Managers :
    \/ \E op \in WriteOps, r \in Replids, off \in 0 .. MaxOffset : CallWrite(m, op, r, off)
    \/ \E op \in ReadOps, r \in Replids : CallRead(m, op, r)
    \/ Command(m) \/ Return(m) \/ Fails(m)

Spec == Init /\ [][Next]_vars

-----------------------------------------------------------------------------
(* Properties.                                                             *)

Steps == DOMAIN HsetField \union
         {"sMap", "uGet", "dFields", "dMap", "exists", "hget", "hgetall", "keys", "ret"}
CallType == [op : WriteOps \union ReadOps \union {"none"}, at : Steps,
             r : Replids \union {0}, off : Nat \union {None}, ver : Nat,
             keys : SUBSET Replids, res : Nat \union {None, Corrupted},
             floor : Nat \union {None}]

\* Every variable has its type.
TypeOK ==
  /\ fields \in [Replids -> [FieldNames -> Nat \union {None}]]
  /\ mapping \subseteq Replids
  /\ call \in [Managers -> CallType]
  /\ calls \in Nat /\ faults \in Nat
  /\ asked \in [Replids -> Nat] /\ saved \in [Replids -> Nat \union {None}]

\* save_checkpoint writes the mapping last: whatever is interrupted or interleaved, a
\* replid that has a mapping has all the fields of a checkpoint, those get_checkpoint needs
\* among them, unless it is one that is deleted.
MappedIsComplete == \A r \in mapping \ Deleted : \A f \in Stored : fields[r][f] # None

\* Once a save has returned, whoever starts to read the checkpoint of that replid gets
\* it or a later one, also while further saves are under way or fail half-way and other
\* replids are deleted.
SavedIsRead ==
  \A m \in Managers :
    /\ call[m].op \in {"getPsync", "get"} /\ call[m].at = "ret" /\ call[m].r \notin Deleted
    => call[m].res >= call[m].floor

\* With one writer the two hashes are a map whose entries change at one moment each.
Entry == [r \in Replids |-> IF r \in mapping THEN fields[r]["offset"] ELSE None]
Map == INSTANCE CheckpointMap WITH entry <- Entry,
         call <- [m \in Managers |-> [op |-> call[m].op, r |-> call[m].r, off |-> call[m].off]]
IsCheckpointMap == Map!Spec

(* What comments of manager.rs say, and this code does not do.             *)

\* The version is there "to prevent concurrent conflicts": it never goes back.
VersionGrows ==
  [][\A r \in Replids : fields'[r]["version"] # None
                          => fields'[r]["version"] >= fields[r]["version"]]_vars

\* delete_checkpoint deletes "the checkpoint information of the master_replid".
DeleteLeavesNothing ==
  \A m \in Managers :
    call[m].op = "delete" /\ call[m].at = "ret" =>
      \A f \in FieldNames : fields[call[m].r][f] = None

\* What save_psync_info has stored "is found when reading": by get_psync_info.
PsyncInfoIsFound ==
  \A m \in Managers : call[m].op = "psync" /\ call[m].at = "ret" => Entry[call[m].r] # None

\* get_all_checkpoints gets "all checkpoint information in the target Redis".
GetAllSucceeds ==
  \A m \in Managers : call[m].op = "getAll" /\ call[m].at = "ret" => call[m].res # Corrupted
=============================================================================
