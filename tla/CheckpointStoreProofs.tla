------------------------ MODULE CheckpointStoreProofs ------------------------
(***************************************************************************)
(* What CheckpointManager guarantees for any number of managers, replids,  *)
(* calls and faults.                                                       *)
(***************************************************************************)
EXTENDS CheckpointStore, TLAPS

-----------------------------------------------------------------------------
(* Types.                                                                  *)

SaveSteps   == {"sOff", "sRun", "sVer", "sMtime", "sMap"}
PsyncSteps  == {"pId", "pOff"}
UpdateSteps == {"uGet", "uOff", "uVer", "uMtime"}
DeleteSteps == {"dFields", "dMap"}

\* Which operation a step belongs to, and what a call knows.
CallOK(c) ==
  /\ c.op # "none" => c.r \in Replids
  /\ c.op \in WriteOps => c.off \in Nat
  /\ c.at \in SaveSteps => c.op = "save"
  /\ c.at \in PsyncSteps => c.op = "psync"
  /\ c.at \in UpdateSteps => c.op = "update"
  /\ c.at \in DeleteSteps => c.op = "delete"
  /\ c.at \in {"exists", "hget", "hgetall", "keys"} => c.op \in ReadOps

Typed == TypeOK /\ \A m \in Managers : CallOK(call[m])

\* The tables of HSETs stay within the steps of an operation.
LEMMA Tables ==
  ASSUME NEW a \in DOMAIN HsetField
  PROVE  /\ HsetField[a] \in FieldNames
         /\ HsetAfter[a] \in Steps
         /\ a \in SaveSteps => HsetAfter[a] \in SaveSteps \ {"sOff"}
         /\ a \in PsyncSteps => HsetAfter[a] \in {"pOff", "ret"}
         /\ a \in UpdateSteps => HsetAfter[a] \in {"uVer", "uMtime", "ret"}
         /\ a \in SaveSteps \union PsyncSteps \union UpdateSteps
  BY DEF HsetField, HsetAfter, FieldNames, Steps, SaveSteps, PsyncSteps, UpdateSteps

\* What an HSET writes is a value of the field.
LEMMA Values ==
  ASSUME NEW c \in CallType, CallOK(c), c.at \in DOMAIN HsetField
  PROVE  HsetValue(c) \in Nat
<1>1. c.at \in SaveSteps \union PsyncSteps \union UpdateSteps
  BY Tables
<1>2. c.off \in Nat
  BY <1>1 DEF CallOK, SaveSteps, PsyncSteps, UpdateSteps, WriteOps
<1>3. c.ver \in Nat
  BY DEF CallType
<1>. QED BY <1>2, <1>3 DEF HsetValue, Present

\* A step that replaces the call of one manager keeps the calls typed.
LEMMA OneCall ==
  ASSUME Typed, NEW m \in Managers, NEW d \in CallType, CallOK(d),
         call' = [call EXCEPT ![m] = d]
  PROVE  /\ call' \in [Managers -> CallType]
         /\ \A n \in Managers : CallOK(call'[n])
         /\ call'[m] = d
         /\ \A n \in Managers \ {m} : call'[n] = call[n]
  BY DEF Typed, TypeOK

LEMMA IdleTyped == Idle \in CallType /\ CallOK(Idle)
  BY DEF Idle, CallType, CallOK, WriteOps, ReadOps, Steps, None, SaveSteps, PsyncSteps,
         UpdateSteps, DeleteSteps

\* The steps that only change the call of m, and the new call of each.
LEMMA Begin ==
  ASSUME Typed, NEW m \in Managers, NEW op \in WriteOps \union ReadOps, NEW r \in Replids,
         NEW off \in Nat, NEW fl \in Nat \union {None}
  PROVE  LET d == [Idle EXCEPT !.op = op, !.at = First[op], !.r = r, !.off = off]
             e == [Idle EXCEPT !.op = op, !.at = First[op], !.r = r, !.floor = fl]
         IN /\ d \in CallType /\ CallOK(d)
            /\ op \in ReadOps => e \in CallType /\ CallOK(e)
<1>1. /\ First[op] \in Steps
      /\ First[op] \in SaveSteps => op = "save"
      /\ First[op] \in PsyncSteps => op = "psync"
      /\ First[op] \in UpdateSteps => op = "update"
      /\ First[op] \in DeleteSteps => op = "delete"
      /\ First[op] \in {"exists", "hget", "hgetall", "keys"} => op \in ReadOps
  BY DEF First, WriteOps, ReadOps, Steps, HsetField, SaveSteps, PsyncSteps, UpdateSteps, DeleteSteps
<1>2. ReadOps \intersect WriteOps = {}
  BY DEF ReadOps, WriteOps
<1>. QED BY <1>1, <1>2 DEF Idle, CallType, CallOK, None

LEMMA TypedInit == Init => Typed
<1>. SUFFICES ASSUME Init PROVE Typed
  OBVIOUS
<1>1. /\ \A m \in Managers : call[m] = Idle
      /\ call \in [Managers -> CallType]
  BY IdleTyped DEF Init
<1>2. \A m \in Managers : CallOK(call[m])
  BY <1>1, IdleTyped
<1>3. fields \in [Replids -> [FieldNames -> Nat \union {None}]]
  BY DEF Init
<1>4. /\ mapping \subseteq Replids
      /\ calls \in Nat /\ faults \in Nat
      /\ asked \in [Replids -> Nat] /\ saved \in [Replids -> Nat \union {None}]
  BY DEF Init
<1>. QED BY <1>1, <1>2, <1>3, <1>4 DEF Typed, TypeOK

LEMMA TypedCallWrite ==
  ASSUME Typed, NEW m \in Managers, NEW op \in WriteOps, NEW r \in Replids,
         NEW off \in 0 .. MaxOffset, CallWrite(m, op, r, off)
  PROVE  Typed'
<1>1. off \in Nat
  BY StoreBoundsAssumption
<1>2. asked' \in [Replids -> Nat] /\ calls' \in Nat
  BY <1>1 DEF CallWrite, Typed, TypeOK
<1>3. /\ call' \in [Managers -> CallType]
      /\ \A n \in Managers : CallOK(call'[n])
  BY <1>1, Begin, OneCall DEF CallWrite
<1>. QED BY <1>2, <1>3 DEF CallWrite, Typed, TypeOK

LEMMA TypedCallRead ==
  ASSUME Typed, NEW m \in Managers, NEW op \in ReadOps, NEW r \in Replids,
         CallRead(m, op, r)
  PROVE  Typed'
<1>1. saved[r] \in Nat \union {None} /\ calls' \in Nat
  BY DEF CallRead, Typed, TypeOK
<1>2. /\ call' \in [Managers -> CallType]
      /\ \A n \in Managers : CallOK(call'[n])
  BY <1>1, Begin, OneCall DEF CallRead
<1>. QED BY <1>1, <1>2 DEF CallRead, Typed, TypeOK

LEMMA TypedHset ==
  ASSUME Typed, NEW m \in Managers, Hset(m)
  PROVE  Typed'
<1>. DEFINE c == call[m]
            d == [c EXCEPT !.at = HsetAfter[c.at]]
<1>1. c \in CallType /\ CallOK(c) /\ c.at \in DOMAIN HsetField
  BY DEF Hset, Typed, TypeOK
<1>2. /\ HsetAfter[c.at] \in Steps
      /\ c.at \in SaveSteps => HsetAfter[c.at] \in SaveSteps \ {"sOff"}
      /\ c.at \in PsyncSteps => HsetAfter[c.at] \in {"pOff", "ret"}
      /\ c.at \in UpdateSteps => HsetAfter[c.at] \in {"uVer", "uMtime", "ret"}
      /\ c.at \in SaveSteps \union PsyncSteps \union UpdateSteps
      /\ HsetField[c.at] \in FieldNames
  BY <1>1, Tables
<1>3. d \in CallType
  BY <1>1, <1>2 DEF CallType
<1>4. d.at = HsetAfter[c.at] /\ d.op = c.op /\ d.r = c.r /\ d.off = c.off
  BY <1>1 DEF CallType
<1>5. CallOK(d)
  BY <1>1, <1>2, <1>4
     DEF CallOK, SaveSteps, PsyncSteps, UpdateSteps, DeleteSteps, WriteOps, ReadOps
<1>6. /\ call' \in [Managers -> CallType]
      /\ \A n \in Managers : CallOK(call'[n])
  BY <1>3, <1>5, OneCall DEF Hset
<1>7. c.r \in Replids /\ HsetValue(c) \in Nat
  BY <1>1, Values DEF CallOK, Hset
<1>8. fields' \in [Replids -> [FieldNames -> Nat \union {None}]]
  BY <1>2, <1>7 DEF Hset, Typed, TypeOK
<1>. QED BY <1>6, <1>8 DEF Hset, Typed, TypeOK

\* What a step needs to know of its call.
LEMMA CallKnows ==
  ASSUME Typed, NEW m \in Managers
  PROVE  /\ call[m] \in CallType
         /\ call[m].ver \in Nat
         /\ call[m].keys \in SUBSET Replids
         /\ call[m].res \in Nat \union {None, Corrupted}
         /\ call[m].op # "none" => call[m].r \in Replids
         /\ call[m].at \in SaveSteps => call[m].op = "save"
         /\ call[m].at \in UpdateSteps => call[m].op = "update"
         /\ call[m].at \in DeleteSteps => call[m].op = "delete"
         /\ call[m].at \in {"exists", "hget", "hgetall", "keys"} => call[m].op \in ReadOps
         /\ call[m].op \in WriteOps => call[m].off \in Nat
  BY DEF Typed, TypeOK, CallType, CallOK

\* A step is typed when the call it leaves is, and it keeps the types of the rest.
LEMMA TypedStep ==
  ASSUME Typed, NEW m \in Managers, NEW d \in CallType, CallOK(d),
         call' = [call EXCEPT ![m] = d],
         fields' \in [Replids -> [FieldNames -> Nat \union {None}]],
         mapping' \subseteq Replids, calls' \in Nat, faults' \in Nat,
         asked' \in [Replids -> Nat], saved' \in [Replids -> Nat \union {None}]
  PROVE  Typed'
  BY OneCall DEF Typed, TypeOK

\* HsetMapping, HdelFields, HdelMapping and the reads: one command and on.
LEMMA TypedGoesOn ==
  ASSUME Typed, NEW m \in Managers, NEW d \in CallType,
         d.op = call[m].op, d.r = call[m].r, d.off = call[m].off, call[m].op # "none",
         \/ d.at = "ret"
         \/ d.at \in {"hget", "hgetall"} /\ d.op \in ReadOps
         \/ d.at = "uOff" /\ d.op = "update"
         \/ d.at = "dMap" /\ d.op = "delete",
         call' = [call EXCEPT ![m] = d],
         fields' \in [Replids -> [FieldNames -> Nat \union {None}]],
         mapping' \subseteq Replids, UNCHANGED <<calls, faults, asked, saved>>
  PROVE  Typed'
<1>1. CallOK(call[m])
  BY DEF Typed
<1>2. CallOK(d)
  BY <1>1
     DEF CallOK, SaveSteps, PsyncSteps, UpdateSteps, DeleteSteps, WriteOps, ReadOps
<1>3. calls' \in Nat /\ faults' \in Nat /\ asked' \in [Replids -> Nat]
      /\ saved' \in [Replids -> Nat \union {None}]
  BY DEF Typed, TypeOK
<1>. QED BY <1>2, <1>3, TypedStep

LEMMA TypedCommands ==
  ASSUME Typed, NEW m \in Managers,
         \/ HsetMapping(m) \/ GetVersion(m) \/ HdelFields(m) \/ HdelMapping(m)
         \/ Hexists(m) \/ HgetOffset(m) \/ HgetAll(m) \/ HgetAllKeys(m)
  PROVE  Typed'
<1>. DEFINE c == call[m]
<1>1. /\ c \in CallType /\ c.ver \in Nat /\ c.keys \in SUBSET Replids
      /\ c.res \in Nat \union {None, Corrupted}
      /\ c.op # "none" => c.r \in Replids
      /\ c.at \in SaveSteps => c.op = "save"
      /\ c.at \in UpdateSteps => c.op = "update"
      /\ c.at \in DeleteSteps => c.op = "delete"
      /\ c.at \in {"exists", "hget", "hgetall", "keys"} => c.op \in ReadOps
  BY CallKnows
<1>2. /\ fields \in [Replids -> [FieldNames -> Nat \union {None}]]
      /\ mapping \subseteq Replids
      /\ call \in [Managers -> CallType]
  BY DEF Typed, TypeOK
<1>3. {"ret", "hget", "hgetall", "uOff", "dMap"} \subseteq Steps
  BY DEF Steps, HsetField
<1>4. CASE HsetMapping(m)
  <2>1. c.op # "none" /\ c.r \in Replids
    BY <1>1, <1>4 DEF HsetMapping, SaveSteps
  <2>. DEFINE d == [c EXCEPT !.at = "ret"]
  <2>3. call' = [call EXCEPT ![m] = d]
    BY <1>2, <1>4 DEF HsetMapping
  <2>4. d \in CallType /\ d.op = c.op /\ d.r = c.r /\ d.off = c.off /\ d.at = "ret"
    BY <1>1, <1>2, <1>3 DEF CallType
  <2>5. mapping' \subseteq Replids
    BY <1>2, <1>4, <2>1 DEF HsetMapping
  <2>. HIDE DEF d
  <2>. QED BY <1>1, <1>2, <1>4, <2>1, <2>3, <2>4, <2>5, TypedGoesOn DEF HsetMapping
<1>5. CASE HdelFields(m)
  <2>1. c.op = "delete" /\ c.r \in Replids
    BY <1>1, <1>5 DEF HdelFields, DeleteSteps
  <2>. DEFINE d == [c EXCEPT !.at = "dMap"]
  <2>3. call' = [call EXCEPT ![m] = d]
    BY <1>2, <1>5 DEF HdelFields
  <2>4. d \in CallType /\ d.op = c.op /\ d.r = c.r /\ d.off = c.off /\ d.at = "dMap"
    BY <1>1, <1>2, <1>3 DEF CallType
  <2>5. fields' \in [Replids -> [FieldNames -> Nat \union {None}]]
    BY <1>2, <1>5, <2>1 DEF HdelFields
  <2>6. UNCHANGED <<mapping, calls, faults, asked, saved>> /\ c.op # "none"
    BY <1>5, <2>1 DEF HdelFields
  <2>. HIDE DEF d
  <2>. QED BY <1>1, <1>2, <2>1, <2>3, <2>4, <2>5, <2>6, TypedGoesOn
<1>6. CASE HdelMapping(m)
  <2>1. c.op # "none"
    BY <1>1, <1>6 DEF HdelMapping, DeleteSteps
  <2>. DEFINE d == [c EXCEPT !.at = "ret"]
  <2>3. call' = [call EXCEPT ![m] = d]
    BY <1>2, <1>6 DEF HdelMapping
  <2>4. d \in CallType /\ d.op = c.op /\ d.r = c.r /\ d.off = c.off /\ d.at = "ret"
    BY <1>1, <1>2, <1>3 DEF CallType
  <2>5. mapping' \subseteq Replids
    BY <1>2, <1>6, <2>1 DEF HdelMapping
  <2>. HIDE DEF d
  <2>. QED BY <1>1, <1>2, <1>6, <2>1, <2>3, <2>4, <2>5, TypedGoesOn DEF HdelMapping
<1>7. CASE GetVersion(m)
  <2>1. c.op = "update" /\ c.r \in Replids
    BY <1>1, <1>7 DEF GetVersion, UpdateSteps
  <2>. DEFINE v == fields[c.r]["version"]
              n == (IF v = None THEN 0 ELSE v) + 1
  <2>2. n \in Nat
    <3>1. v \in Nat \union {None}
      BY <1>2, <2>1 DEF FieldNames
    <3>. QED BY <3>1 DEF None
  <2>. DEFINE d == [c EXCEPT !.at = "uOff", !.ver = n]
  <2>3. call' = [call EXCEPT ![m] = d]
    BY <1>2, <1>7 DEF GetVersion
  <2>. HIDE DEF v, n
  <2>4. d \in CallType /\ d.op = c.op /\ d.r = c.r /\ d.off = c.off /\ d.at = "uOff"
    BY <1>1, <1>2, <1>3, <2>2 DEF CallType
  <2>6. UNCHANGED <<fields, mapping, calls, faults, asked, saved>> /\ c.op # "none"
    BY <1>7, <2>1 DEF GetVersion
  <2>. HIDE DEF d
  <2>. QED BY <1>1, <1>2, <2>1, <2>3, <2>4, <2>6, TypedGoesOn
<1>8. CASE Hexists(m)
  <2>1. c.op \in ReadOps /\ c.op # "none"
    BY <1>1, <1>8 DEF Hexists, ReadOps
  <2>. DEFINE a == IF c.r \notin mapping THEN "ret"
                   ELSE IF c.op = "getPsync" THEN "hget" ELSE "hgetall"
  <2>2. a \in {"ret", "hget", "hgetall"} /\ a \in Steps
    BY <1>3
  <2>. DEFINE d == [c EXCEPT !.at = a]
  <2>3. call' = [call EXCEPT ![m] = d]
    BY <1>2, <1>8 DEF Hexists
  <2>. HIDE DEF a
  <2>4. d \in CallType /\ d.op = c.op /\ d.r = c.r /\ d.off = c.off /\ d.at \in {"ret", "hget", "hgetall"}
    BY <1>1, <1>2, <1>3, <2>2 DEF CallType
  <2>. HIDE DEF d
  <2>. QED BY <1>1, <1>2, <1>8, <2>1, <2>3, <2>4, TypedGoesOn DEF Hexists
<1>9. CASE HgetOffset(m)
  <2>1. c.op # "none" /\ c.r \in Replids
    BY <1>1, <1>9 DEF HgetOffset, ReadOps
  <2>. DEFINE v == fields[c.r]["offset"]
  <2>2. v \in Nat \union {None, Corrupted}
    BY <1>2, <2>1 DEF FieldNames
  <2>. DEFINE d == [c EXCEPT !.at = "ret", !.res = v]
  <2>3. call' = [call EXCEPT ![m] = d]
    BY <1>2, <1>9 DEF HgetOffset
  <2>. HIDE DEF v
  <2>4. d \in CallType /\ d.op = c.op /\ d.r = c.r /\ d.off = c.off /\ d.at = "ret"
    BY <1>1, <1>2, <1>3, <2>2 DEF CallType
  <2>. HIDE DEF d
  <2>. QED BY <1>1, <1>2, <1>9, <2>1, <2>3, <2>4, TypedGoesOn DEF HgetOffset
<1>10. CASE HgetAll(m)
  <2>1. c.op # "none" /\ c.r \in Replids
    BY <1>1, <1>10 DEF HgetAll, ReadOps
  <2>. DEFINE empty == \A r \in Replids, f \in FieldNames : fields[r][f] = None
              whole == \A f \in Needed : fields[c.r][f] # None
              v == IF empty THEN None ELSE IF whole THEN fields[c.r]["offset"] ELSE Corrupted
              k == IF ~empty /\ ~whole THEN {} ELSE c.keys
  <2>2. v \in Nat \union {None, Corrupted} /\ k \in SUBSET Replids
    BY <1>1, <1>2, <2>1 DEF FieldNames
  <2>. DEFINE d == [c EXCEPT !.at = "ret", !.res = v, !.keys = k]
  <2>3. call' = [call EXCEPT ![m] = d]
    BY <1>2, <1>10 DEF HgetAll
  <2>. HIDE DEF empty, whole, v, k
  <2>4. d \in CallType /\ d.op = c.op /\ d.r = c.r /\ d.off = c.off /\ d.at = "ret"
    BY <1>1, <1>2, <1>3, <2>2 DEF CallType
  <2>. HIDE DEF d
  <2>. QED BY <1>1, <1>2, <1>10, <2>1, <2>3, <2>4, TypedGoesOn DEF HgetAll
<1>11. CASE HgetAllKeys(m)
  <2>1. c.op # "none"
    BY <1>1, <1>11 DEF HgetAllKeys, ReadOps
  <2>. DEFINE d == [c EXCEPT !.at = "ret", !.keys = mapping]
  <2>3. call' = [call EXCEPT ![m] = d]
    BY <1>2, <1>11 DEF HgetAllKeys
  <2>4. d \in CallType /\ d.op = c.op /\ d.r = c.r /\ d.off = c.off /\ d.at = "ret"
    BY <1>1, <1>2, <1>3 DEF CallType
  <2>. HIDE DEF d
  <2>. QED BY <1>1, <1>2, <1>11, <2>1, <2>3, <2>4, TypedGoesOn DEF HgetAllKeys
<1>. QED BY <1>4, <1>5, <1>6, <1>7, <1>8, <1>9, <1>10, <1>11

LEMMA TypedNextKey ==
  ASSUME Typed, NEW m \in Managers, NextKey(m)
  PROVE  Typed'
<1>. DEFINE c == call[m]
<1>1. c \in CallType /\ CallOK(c) /\ c.op = "getAll"
  BY DEF NextKey, Typed, TypeOK
<1>2. PICK r \in c.keys : call' = [call EXCEPT ![m] = [c EXCEPT !.at = "exists", !.r = r,
                                                               !.keys = @ \ {r}]]
  BY DEF NextKey, Typed, TypeOK
<1>. DEFINE d == [c EXCEPT !.at = "exists", !.r = r, !.keys = c.keys \ {r}]
<1>3. r \in Replids
  BY <1>1 DEF CallType
<1>4. d \in CallType
  BY <1>1, <1>3 DEF CallType, Steps
<1>5. d.at = "exists" /\ d.op = c.op /\ d.r = r /\ d.off = c.off
  BY <1>1 DEF CallType
<1>6. CallOK(d)
  BY <1>1, <1>3, <1>5
     DEF CallOK, SaveSteps, PsyncSteps, UpdateSteps, DeleteSteps, WriteOps, ReadOps
<1>7. call' = [call EXCEPT ![m] = d]
  BY <1>2
<1>. HIDE DEF d
<1>. QED BY <1>4, <1>6, <1>7, TypedStep DEF NextKey, Typed, TypeOK

LEMMA TypedReturn ==
  ASSUME Typed, NEW m \in Managers, Return(m)
  PROVE  Typed'
<1>. DEFINE c == call[m]
<1>1. c.op = "save" => c.off \in Nat
  BY CallKnows DEF WriteOps
<1>2. saved' \in [Replids -> Nat \union {None}]
  BY <1>1 DEF Return, Typed, TypeOK
<1>3. call' = [call EXCEPT ![m] = Idle]
  BY DEF Return
<1>. QED BY <1>2, <1>3, IdleTyped, TypedStep DEF Return, Typed, TypeOK

LEMMA TypedFails ==
  ASSUME Typed, NEW m \in Managers, Fails(m)
  PROVE  Typed'
<1>1. call' = [call EXCEPT ![m] = Idle] /\ faults' \in Nat
  BY DEF Fails, Fault, Typed, TypeOK
<1>. QED BY <1>1, IdleTyped, TypedStep DEF Fails, Typed, TypeOK

LEMMA TypedNext == Typed /\ [Next]_vars => Typed'
<1>. SUFFICES ASSUME Typed, [Next]_vars PROVE Typed'
  OBVIOUS
<1>1. CASE UNCHANGED vars
  BY <1>1 DEF vars, Typed, TypeOK
<1>2. CASE Next
  <2>1. PICK m \in Managers :
          \/ \E op \in WriteOps, r \in Replids, off \in 0 .. MaxOffset :
               CallWrite(m, op, r, off)
          \/ \E op \in ReadOps, r \in Replids : CallRead(m, op, r)
          \/ Command(m) \/ Return(m) \/ Fails(m)
    BY <1>2 DEF Next
  <2>. QED BY <2>1, TypedCallWrite, TypedCallRead, TypedHset, TypedCommands, TypedNextKey,
              TypedReturn, TypedFails DEF Command
<1>. QED BY <1>1, <1>2

\* Every variable keeps its type.
THEOREM StoreTypeCorrect == Spec => []TypeOK
<1>1. Typed => TypeOK
  BY DEF Typed
<1>. QED BY <1>1, TypedInit, TypedNext, PTL DEF Spec

-----------------------------------------------------------------------------
(* The mapping is written last: AllComplete.                          *)

\* The fields a save has set when it gets to a step.
WrittenAt == [sRun |-> {"offset"}, sVer |-> {"offset", "runid"},
              sMtime |-> {"offset", "runid", "version"}, sMap |-> Stored]

\* Only the replids of Deleted are deleted; to the others the fields are only added.
Deletions == \A m \in Managers : call[m].op = "delete" => call[m].r \in Deleted
SavesGrow == \A m \in Managers : call[m].at \in DOMAIN WrittenAt /\ call[m].r \notin Deleted =>
               \A f \in WrittenAt[call[m].at] : fields[call[m].r][f] # None

AllComplete == \A r \in mapping \ Deleted : \A f \in Stored : fields[r][f] # None

CompleteInv == Typed /\ Deletions /\ SavesGrow /\ AllComplete

\* Every step changes the call of one manager at most.
LEMMA OthersWait ==
  ASSUME Typed, NEW m \in Managers,
         \/ \E op \in WriteOps, r \in Replids, off \in 0 .. MaxOffset :
              CallWrite(m, op, r, off)
         \/ \E op \in ReadOps, r \in Replids : CallRead(m, op, r)
         \/ Command(m) \/ Return(m) \/ Fails(m)
  PROVE  \A n \in Managers \ {m} : call'[n] = call[n]
  BY DEF Typed, TypeOK, CallWrite, CallRead, Command, Hset, HsetMapping, GetVersion, HdelFields,
         HdelMapping, Hexists, HgetOffset, HgetAll, HgetAllKeys, NextKey, Return, Fails

\* Where the commands that are not HSETs of a field lead to.
LEMMA GoesTo ==
  ASSUME Typed, NEW m \in Managers,
         \/ HsetMapping(m) \/ GetVersion(m) \/ Hexists(m) \/ HgetOffset(m) \/ HgetAll(m)
         \/ HgetAllKeys(m) \/ NextKey(m)
  PROVE  /\ call'[m].at \in {"ret", "uOff", "hget", "hgetall", "exists"}
         /\ call'[m].op = call[m].op
<1>1. call \in [Managers -> CallType] /\ call[m] \in CallType
  BY DEF Typed, TypeOK
<1>2. CASE HsetMapping(m)
  BY <1>1, <1>2 DEF HsetMapping, CallType
<1>3. CASE GetVersion(m)
  <2>1. PICK v : call'[m] = [call[m] EXCEPT !.at = "uOff", !.ver = v]
    BY <1>1, <1>3 DEF GetVersion
  <2>. QED BY <1>1, <2>1 DEF CallType
<1>4. CASE Hexists(m)
  <2>1. PICK a \in {"ret", "hget", "hgetall"} : call' = [call EXCEPT ![m].at = a]
    BY <1>4 DEF Hexists
  <2>. QED BY <1>1, <2>1 DEF CallType
<1>5. CASE HgetOffset(m)
  BY <1>1, <1>5 DEF HgetOffset, CallType
<1>6. CASE HgetAll(m)
  <2>1. PICK v, k : call'[m] = [call[m] EXCEPT !.at = "ret", !.res = v, !.keys = k]
    BY <1>1, <1>6 DEF HgetAll
  <2>. QED BY <1>1, <2>1 DEF CallType
<1>7. CASE HgetAllKeys(m)
  BY <1>1, <1>7 DEF HgetAllKeys, CallType
<1>8. CASE NextKey(m)
  <2>1. PICK r \in call[m].keys :
          call' = [call EXCEPT ![m] = [call[m] EXCEPT !.at = "exists", !.r = r, !.keys = @ \ {r}]]
    BY <1>1, <1>8 DEF NextKey
  <2>. QED BY <1>1, <2>1 DEF CallType
<1>. QED BY <1>2, <1>3, <1>4, <1>5, <1>6, <1>7, <1>8

LEMMA CompleteInit == Init => CompleteInv
<1>. SUFFICES ASSUME Init PROVE CompleteInv
  OBVIOUS
<1>1. \A m \in Managers : call[m].op = "none" /\ call[m].at = "ret"
  BY DEF Init, Idle
<1>2. Deletions /\ SavesGrow
  BY <1>1 DEF Deletions, SavesGrow, WrittenAt
<1>. QED BY <1>2, TypedInit DEF CompleteInv, AllComplete, Init

\* An HSET: the field it sets is there, the others are what they were, and a save gets
\* to its next step with one field more.
LEMMA CompleteHset ==
  ASSUME CompleteInv, NEW m \in Managers, Hset(m)
  PROVE  Deletions' /\ SavesGrow' /\ AllComplete'
<1>. DEFINE c == call[m]
            g == HsetField[c.at]
<1>1. /\ c \in CallType /\ CallOK(c) /\ c.at \in DOMAIN HsetField /\ c.op # "none"
      /\ c.r \in Replids
  BY DEF CompleteInv, Typed, TypeOK, Hset, CallOK
<1>2. HsetValue(c) \in Nat /\ g \in FieldNames
  BY <1>1, Values, Tables
<1>3. /\ \A r \in Replids, f \in FieldNames :
           fields'[r][f] = IF r = c.r /\ f = g THEN HsetValue(c) ELSE fields[r][f]
  BY <1>1, <1>2 DEF Hset, CompleteInv, Typed, TypeOK
<1>4. \A r \in Replids, f \in FieldNames : fields[r][f] # None => fields'[r][f] # None
  BY <1>2, <1>3 DEF None
<1>5. AllComplete'
  BY <1>4 DEF Hset, CompleteInv, AllComplete, Stored, FieldNames, Typed, TypeOK
<1>6. /\ \A n \in Managers \ {m} : call'[n] = call[n]
      /\ call'[m] = [c EXCEPT !.at = HsetAfter[c.at]]
  BY DEF Hset, CompleteInv, Typed, TypeOK
<1>7. call'[m].op = c.op /\ call'[m].r = c.r /\ call'[m].at = HsetAfter[c.at]
  BY <1>1, <1>6 DEF CallType
<1>8. Deletions'
  BY <1>6, <1>7 DEF Deletions, CompleteInv
<1>9. ASSUME NEW n \in Managers \ {m}, call'[n].at \in DOMAIN WrittenAt,
             call'[n].r \notin Deleted, NEW f \in WrittenAt[call'[n].at]
      PROVE  fields'[call'[n].r][f] # None
  <2>1. call'[n] = call[n] /\ fields[call[n].r][f] # None
    BY <1>6, <1>9 DEF CompleteInv, SavesGrow
  <2>2. call[n].r \in Replids /\ f \in FieldNames
    BY <2>1, <1>9 DEF WrittenAt, Stored, FieldNames, CompleteInv, Typed, CallOK, SaveSteps
  <2>. QED BY <2>1, <2>2, <1>4
<1>10. ASSUME HsetAfter[c.at] \in DOMAIN WrittenAt, c.r \notin Deleted, NEW f \in WrittenAt[HsetAfter[c.at]]
       PROVE  fields'[c.r][f] # None
  <2>1. \/ f = g
        \/ c.at \in DOMAIN WrittenAt /\ f \in WrittenAt[c.at]
    BY <1>1, <1>10 DEF WrittenAt, HsetAfter, HsetField, Stored
  <2>2. f \in FieldNames
    BY <1>10 DEF WrittenAt, Stored, FieldNames
  <2>3. CASE f = g
    BY <2>3, <1>1, <1>2, <1>3 DEF None
  <2>4. CASE c.at \in DOMAIN WrittenAt /\ f \in WrittenAt[c.at]
    BY <2>2, <2>4, <1>1, <1>4, <1>10 DEF CompleteInv, SavesGrow
  <2>. QED BY <2>1, <2>3, <2>4
<1>11. SavesGrow'
  BY <1>6, <1>7, <1>9, <1>10 DEF SavesGrow
<1>. QED BY <1>5, <1>8, <1>11

\* HDEL of the fields, or of the mapping, of a replid that may be deleted.
LEMMA CompleteHdel ==
  ASSUME CompleteInv, NEW m \in Managers, HdelFields(m) \/ HdelMapping(m)
  PROVE  Deletions' /\ SavesGrow' /\ AllComplete'
<1>. DEFINE c == call[m]
<1>1. Typed /\ c \in CallType /\ c.op = "delete" /\ c.r \in Replids /\ c.r \in Deleted
  <2>1. Typed /\ c.at \in DeleteSteps
    BY DEF CompleteInv, HdelFields, HdelMapping, DeleteSteps
  <2>2. c.op = "delete"
    BY <2>1, CallKnows
  <2>. QED BY <2>1, <2>2, CallKnows DEF CompleteInv, Deletions
<1>2. /\ \A n \in Managers \ {m} : call'[n] = call[n]
      /\ call'[m].op = c.op /\ call'[m].r = c.r /\ call'[m].at \in {"dMap", "ret"}
  <2>1. PICK a \in {"dMap", "ret"} : call' = [call EXCEPT ![m].at = a]
    BY DEF HdelFields, HdelMapping
  <2>2. call \in [Managers -> CallType]
    BY <1>1 DEF Typed, TypeOK
  <2>. QED BY <1>1, <2>1, <2>2 DEF CallType
<1>3. \A r \in Replids \ Deleted : fields'[r] = fields[r]
  BY <1>1 DEF HdelFields, HdelMapping, Typed, TypeOK
<1>4. mapping' \subseteq mapping /\ mapping \subseteq Replids
  BY <1>1 DEF HdelFields, HdelMapping, Typed, TypeOK
<1>5. Deletions'
  BY <1>1, <1>2 DEF Deletions, CompleteInv
<1>6. SavesGrow'
  <2>. SUFFICES ASSUME NEW n \in Managers, call'[n].at \in DOMAIN WrittenAt,
                       call'[n].r \notin Deleted, NEW f \in WrittenAt[call'[n].at]
                PROVE  fields'[call'[n].r][f] # None
    BY DEF SavesGrow
  <2>1. call'[n] = call[n]
    BY <1>1, <1>2
  <2>2. call[n].r \in Replids /\ fields[call[n].r][f] # None
    BY <1>1, <2>1, CallKnows DEF CompleteInv, SavesGrow, WrittenAt, SaveSteps
  <2>. QED BY <1>3, <2>1, <2>2
<1>7. AllComplete'
  BY <1>3, <1>4 DEF AllComplete, CompleteInv
<1>. QED BY <1>5, <1>6, <1>7

\* The other steps leave the fields alone, and none of them is inside a save.
LEMMA CompleteOther ==
  ASSUME CompleteInv, NEW m \in Managers,
         \/ \E op \in WriteOps, r \in Replids, off \in 0 .. MaxOffset : CallWrite(m, op, r, off)
         \/ \E op \in ReadOps, r \in Replids : CallRead(m, op, r)
         \/ HsetMapping(m) \/ GetVersion(m)
         \/ Hexists(m) \/ HgetOffset(m) \/ HgetAll(m) \/ HgetAllKeys(m) \/ NextKey(m)
         \/ Return(m) \/ Fails(m)
  PROVE  Deletions' /\ SavesGrow' /\ AllComplete'
<1>1. UNCHANGED fields
  BY DEF CallWrite, CallRead, HsetMapping, GetVersion, Hexists, HgetOffset, HgetAll,
         HgetAllKeys, NextKey, Return, Fails
<1>2. \A n \in Managers \ {m} : call'[n] = call[n]
  BY OthersWait DEF CompleteInv, Command
<1>3. call'[m].at \notin DOMAIN WrittenAt /\ (call'[m].op = "delete" => call'[m].r \in Deleted)
  <2>1. /\ call \in [Managers -> CallType]
    BY DEF CompleteInv, Typed, TypeOK
  <2>2. ASSUME NEW op \in WriteOps \union ReadOps
        PROVE  First[op] \notin DOMAIN WrittenAt
    BY DEF First, WriteOps, ReadOps, WrittenAt
  <2>3. CASE \E op \in WriteOps, r \in Replids, off \in 0 .. MaxOffset : CallWrite(m, op, r, off)
    <3>1. PICK op \in WriteOps, r \in Replids, off \in 0 .. MaxOffset : CallWrite(m, op, r, off)
      BY <2>3
    <3>2. call'[m].at = First[op] /\ call'[m].op = op /\ call'[m].r = r
      BY <2>1, <3>1 DEF CallWrite, Idle
    <3>3. op = "delete" => r \in Deleted
      BY <3>1 DEF CallWrite
    <3>. QED BY <2>2, <3>2, <3>3
  <2>4. CASE \E op \in ReadOps, r \in Replids : CallRead(m, op, r)
    <3>1. PICK op \in ReadOps, r \in Replids : CallRead(m, op, r)
      BY <2>4
    <3>2. call'[m].at = First[op] /\ call'[m].op = op
      BY <2>1, <3>1 DEF CallRead, Idle
    <3>3. op # "delete"
      BY DEF ReadOps
    <3>. QED BY <2>2, <3>2, <3>3
  <2>5. CASE HsetMapping(m) \/ GetVersion(m) \/ Hexists(m) \/ HgetOffset(m) \/ HgetAll(m)
             \/ HgetAllKeys(m) \/ NextKey(m)
    <3>1. /\ call'[m].at \in {"ret", "uOff", "hget", "hgetall", "exists"}
          /\ call'[m].op = call[m].op
      BY <2>1, <2>5, GoesTo DEF CompleteInv
    <3>2. call[m].op # "delete"
      <4>1. call[m].at \in SaveSteps \union UpdateSteps \union {"exists", "hget", "hgetall", "keys"}
            \/ call[m].op = "getAll"
        BY <2>5 DEF HsetMapping, GetVersion, Hexists, HgetOffset, HgetAll, HgetAllKeys, NextKey,
                    SaveSteps, UpdateSteps
      <4>. QED BY <4>1, CallKnows DEF CompleteInv, ReadOps
    <3>. QED BY <3>1, <3>2 DEF WrittenAt
  <2>9. CASE Return(m) \/ Fails(m)
    BY <2>1, <2>9 DEF Return, Fails, Idle, WrittenAt
  <2>. QED BY <2>3, <2>4, <2>5, <2>9
<1>4. Deletions' /\ SavesGrow'
  BY <1>1, <1>2, <1>3 DEF Deletions, SavesGrow, CompleteInv
<1>5. AllComplete'
  <2>1. CASE HsetMapping(m)
    BY <2>1, <1>1 DEF HsetMapping, CompleteInv, SavesGrow, AllComplete, WrittenAt
  <2>2. CASE UNCHANGED mapping
    BY <2>2, <1>1 DEF CompleteInv, AllComplete
  <2>. QED BY <2>1, <2>2 DEF CallWrite, CallRead, GetVersion, Hexists, HgetOffset, HgetAll,
                             HgetAllKeys, NextKey, Return, Fails
<1>. QED BY <1>4, <1>5

LEMMA CompleteNext == CompleteInv /\ [Next]_vars => CompleteInv'
<1>. SUFFICES ASSUME CompleteInv, [Next]_vars PROVE CompleteInv'
  OBVIOUS
<1>1. Typed'
  BY TypedNext DEF CompleteInv
<1>2. CASE UNCHANGED vars
  BY <1>1, <1>2 DEF vars, CompleteInv, Deletions, SavesGrow, AllComplete
<1>3. CASE Next
  <2>1. PICK m \in Managers :
          \/ \E op \in WriteOps, r \in Replids, off \in 0 .. MaxOffset : CallWrite(m, op, r, off)
          \/ \E op \in ReadOps, r \in Replids : CallRead(m, op, r)
          \/ Command(m) \/ Return(m) \/ Fails(m)
    BY <1>3 DEF Next
  <2>. QED BY <1>1, <2>1, CompleteHset, CompleteHdel, CompleteOther DEF CompleteInv, Command
<1>. QED BY <1>2, <1>3

\* A replid with a mapping has every field, for any number of writers and readers,
\* however often saves are interleaved or interrupted, whatever other replids are deleted.
THEOREM SaveIsAllOrNothing == Spec => []MappedIsComplete
<1>1. CompleteInv => MappedIsComplete
  BY DEF CompleteInv, AllComplete, MappedIsComplete
<1>. QED BY <1>1, CompleteInit, CompleteNext, PTL DEF Spec

-----------------------------------------------------------------------------
(* With one writer, what was saved is read: SavedIsRead.                   *)

Readings == {"getPsync", "get"}
OneWriter == \A a, b \in Writers : a = b

\* What the writer has done is there, as nobody else writes; a save and a deletion never meet.
WriteOK(n) == call[n].op \in WriteOps =>
  /\ n \in Writers
  /\ call[n].op # "delete" => call[n].off = asked[call[n].r]
  /\ call[n].op = "save" /\ call[n].at # "sOff" => fields[call[n].r]["offset"] = call[n].off
  /\ call[n].op = "save" /\ call[n].at = "ret" => call[n].r \in mapping
  /\ call[n].at = "dMap" => fields[call[n].r]["offset"] = None
\* What a reader of a replid that is not deleted may rely on.
ReadOK(n) ==
  /\ call[n].at = "keys" => call[n].op = "getAll"
  /\ call[n].at = "exists" /\ call[n].op \in Readings => call[n].res = None
  /\ call[n].op \in Readings /\ call[n].r \notin Deleted =>
       /\ call[n].at \in {"hget", "hgetall"} => call[n].r \in mapping
       /\ call[n].floor <= saved[call[n].r]
       /\ call[n].at = "ret" => call[n].res >= call[n].floor
SavedThere(r) == r \notin Deleted =>
  /\ saved[r] <= fields[r]["offset"]
  /\ saved[r] <= asked[r]
  /\ saved[r] # None => r \in mapping

ReadInv == /\ CompleteInv
           /\ \A r \in Replids : SavedThere(r)
           /\ \A n \in Managers : WriteOK(n) /\ ReadOK(n)

\* The values that are compared are integers.
LEMMA Values2 ==
  ASSUME Typed
  PROVE  /\ \A r \in Replids : /\ saved[r] \in Int /\ asked[r] \in Int
                               /\ fields[r]["offset"] \in Int
         /\ \A n \in Managers : /\ call[n].off \in Int /\ call[n].floor \in Int
                                /\ call[n].res \in Int
                                /\ call[n].op # "none" => call[n].r \in Replids
                                /\ call[n].op \in WriteOps => call[n].off \in Nat
                                /\ call[n] \in CallType
<1>1. {None, Corrupted} \subseteq Int
  BY DEF None, Corrupted
<1>2. \A r \in Replids : saved[r] \in Int /\ asked[r] \in Int /\ fields[r]["offset"] \in Int
  BY <1>1 DEF Typed, TypeOK, FieldNames
<1>3. ASSUME NEW n \in Managers
      PROVE  call[n].off \in Int /\ call[n].floor \in Int /\ call[n].res \in Int
  <2>1. call[n] \in CallType
    BY DEF Typed, TypeOK
  <2>. QED BY <2>1, <1>1 DEF CallType
<1>. QED BY <1>2, <1>3, CallKnows

\* A manager that is not acting keeps its part, when what it relies on is kept.
LEMMA OthersKeep ==
  ASSUME Typed, NEW n \in Managers, WriteOK(n), ReadOK(n), call'[n] = call[n],
         mapping \ Deleted \subseteq mapping',
         \A r \in Replids \ Deleted : saved'[r] \in Int /\ saved[r] <= saved'[r],
         n \in Writers => UNCHANGED <<fields, asked>> /\ mapping \subseteq mapping'
  PROVE  WriteOK(n)' /\ ReadOK(n)'
<1>1. WriteOK(n)'
  BY DEF WriteOK
<1>2. ReadOK(n)'
  <2>1. call[n].op \in Readings => call[n].r \in Replids
    BY Values2 DEF Readings
  <2>2. call[n].op \in Readings /\ call[n].r \notin Deleted => call[n].floor <= saved'[call[n].r]
    BY <2>1, Values2 DEF ReadOK
  <2>. QED BY <2>2 DEF ReadOK
<1>. QED BY <1>1, <1>2

LEMMA ReadInit == Init => ReadInv
<1>. SUFFICES ASSUME Init PROVE ReadInv
  OBVIOUS
<1>1. CompleteInv
  BY CompleteInit
<1>2. \A r \in Replids : SavedThere(r)
  BY DEF Init, SavedThere, FieldNames, None
<1>3. \A n \in Managers : call[n].op = "none" /\ call[n].at = "ret"
  BY DEF Init, Idle
<1>4. \A n \in Managers : WriteOK(n) /\ ReadOK(n)
  BY <1>3 DEF WriteOK, ReadOK, WriteOps, Readings
<1>. QED BY <1>1, <1>2, <1>4 DEF ReadInv

\* A new call of the writer: no other operation writes.
LEMMA ReadCallWrite ==
  ASSUME ReadInv, OneWriter, NEW m \in Managers, NEW op \in WriteOps, NEW r \in Replids, NEW off \in 0 .. MaxOffset, CallWrite(m, op, r, off)
  PROVE  (\A q \in Replids : SavedThere(q)) ' /\ (\A n \in Managers : WriteOK(n) /\ ReadOK(n))'
<1>1. Typed /\ call \in [Managers -> CallType] /\ off \in Nat
  BY StoreBoundsAssumption DEF ReadInv, CompleteInv, Typed, TypeOK
<1>2. /\ m \in Writers /\ call[m].op = "none"
      /\ op # "delete" => off >= asked[r]
      /\ asked' = [asked EXCEPT ![r] = IF op = "delete" THEN @ ELSE off]
      /\ UNCHANGED <<fields, mapping, saved>>
  BY DEF CallWrite
<1>3. /\ \A n \in Managers \ {m} : call'[n] = call[n]
      /\ call'[m].op = op /\ call'[m].r = r /\ call'[m].off = off /\ call'[m].at = First[op]
  BY <1>1 DEF CallWrite, Idle
<1>4. asked'[r] = (IF op = "delete" THEN asked[r] ELSE off) /\ \A q \in Replids \ {r} : asked'[q] = asked[q]
  BY <1>1, <1>2 DEF Typed, TypeOK
<1>5. ASSUME NEW q \in Replids PROVE SavedThere(q)'
  BY <1>1, <1>2, <1>4, Values2 DEF ReadInv, SavedThere
<1>6. ASSUME NEW n \in Managers \ {m} PROVE WriteOK(n)' /\ ReadOK(n)'
  <2>1. n \notin Writers
    BY <1>2 DEF OneWriter
  <2>2. \A q \in Replids \ Deleted : saved'[q] \in Int /\ saved[q] <= saved'[q]
    BY <1>1, <1>2, Values2
  <2>3. WriteOK(n) /\ ReadOK(n) /\ call'[n] = call[n] /\ mapping \ Deleted \subseteq mapping'
    BY <1>2, <1>3 DEF ReadInv
  <2>. QED BY <1>1, <2>1, <2>2, <2>3, OthersKeep
<1>7. WriteOK(m)' /\ ReadOK(m)'
  <2>1. /\ First[op] # "dMap"
        /\ First[op] = "sOff" \/ (op # "save" /\ First[op] \notin {"keys", "hget", "hgetall"})
    BY DEF First, WriteOps
  <2>2. op \notin Readings /\ First[op] \notin {"keys", "hget", "hgetall"}
    BY <2>1 DEF Readings, WriteOps
  <2>. QED BY <1>2, <1>3, <1>4, <2>1, <2>2 DEF WriteOK, ReadOK
<1>. QED BY <1>5, <1>6, <1>7

\* An HSET of the writer: of the offset, or of a field nothing here depends on.
LEMMA ReadHset ==
  ASSUME ReadInv, OneWriter, NEW m \in Managers, Hset(m)
  PROVE  (\A q \in Replids : SavedThere(q)) ' /\ (\A n \in Managers : WriteOK(n) /\ ReadOK(n))'
<1>. DEFINE c == call[m]
            g == HsetField[c.at]
<1>1. /\ Typed /\ c \in CallType /\ CallOK(c) /\ c.at \in DOMAIN HsetField
      /\ c.op \in WriteOps /\ c.r \in Replids
  <2>1. Typed /\ c.at \in DOMAIN HsetField /\ c.op # "none"
    BY DEF ReadInv, CompleteInv, Hset
  <2>2. c \in CallType /\ CallOK(c)
    BY <2>1 DEF Typed, TypeOK
  <2>3. c.at \in SaveSteps \union PsyncSteps \union UpdateSteps
    BY <2>1, Tables
  <2>. QED BY <2>1, <2>2, <2>3 DEF CallOK, WriteOps
<1>2. m \in Writers /\ c.off = asked[c.r]
  <2>1. c.at \in SaveSteps \union PsyncSteps \union UpdateSteps
    BY <1>1, Tables
  <2>2. c.op # "delete"
    BY <1>1, <2>1 DEF CallOK
  <2>. QED BY <1>1, <2>2 DEF ReadInv, WriteOK
<1>3. g \in FieldNames /\ HsetValue(c) \in Nat /\ (g = "offset" => HsetValue(c) = c.off)
  BY <1>1, Tables, Values DEF HsetValue
<1>4. /\ \A r \in Replids, f \in FieldNames :
           fields'[r][f] = IF r = c.r /\ f = g THEN HsetValue(c) ELSE fields[r][f]
      /\ UNCHANGED <<mapping, asked, saved>>
  BY <1>1, <1>3 DEF Hset, Typed, TypeOK
<1>5. \A r \in Replids : fields'[r]["offset"] = IF r = c.r /\ g = "offset"
                                               THEN c.off ELSE fields[r]["offset"]
  BY <1>3, <1>4 DEF FieldNames
<1>6. ASSUME NEW q \in Replids PROVE SavedThere(q)'
  BY <1>1, <1>2, <1>4, <1>5, Values2 DEF ReadInv, SavedThere
<1>7. /\ \A n \in Managers \ {m} : call'[n] = call[n]
      /\ call'[m] = [c EXCEPT !.at = HsetAfter[c.at]]
  BY <1>1 DEF Hset, Typed, TypeOK
<1>8. /\ call'[m].op = c.op /\ call'[m].r = c.r /\ call'[m].off = c.off
      /\ call'[m].at = HsetAfter[c.at]
  BY <1>1, <1>7 DEF CallType
<1>9. ASSUME NEW n \in Managers \ {m} PROVE WriteOK(n)' /\ ReadOK(n)'
  <2>1. n \notin Writers
    BY <1>2 DEF OneWriter
  <2>2. \A q \in Replids \ Deleted : saved'[q] \in Int /\ saved[q] <= saved'[q]
    BY <1>1, <1>4, Values2
  <2>3. WriteOK(n) /\ ReadOK(n) /\ call'[n] = call[n] /\ mapping \ Deleted \subseteq mapping'
    BY <1>4, <1>7 DEF ReadInv
  <2>. QED BY <1>1, <2>1, <2>2, <2>3, OthersKeep
<1>10. /\ HsetAfter[c.at] \notin {"keys", "hget", "hgetall", "dMap"} /\ c.op \notin Readings
       /\ c.op = "save" => c.at \in SaveSteps
       /\ c.at \in SaveSteps => HsetAfter[c.at] # "ret"
       /\ c.at = "sOff" => g = "offset"
       /\ c.at \in SaveSteps \ {"sOff"} => g # "offset"
  <2>1. c.at \in SaveSteps \union PsyncSteps \union UpdateSteps
    BY <1>1, Tables
  <2>2. c.op = "save" => c.at \in SaveSteps
    BY <1>1, <2>1 DEF CallOK
  <2>. QED BY <1>1, <2>1, <2>2 DEF HsetAfter, HsetField, SaveSteps, PsyncSteps, UpdateSteps,
                                   Readings, WriteOps
<1>11. WriteOK(m)' /\ ReadOK(m)'
  <2>1. c.op = "save" => fields'[c.r]["offset"] = c.off
    BY <1>1, <1>5, <1>10 DEF ReadInv, WriteOK
  <2>2. WriteOK(m)'
    BY <1>2, <1>4, <1>8, <1>10, <2>1 DEF WriteOK
  <2>. QED BY <1>8, <1>10, <2>2 DEF ReadOK
<1>. QED BY <1>6, <1>9, <1>11

\* The end of a save is when its offset counts as saved; another operation, or one that
\* fails, ends without a trace.
LEMMA ReadReturn ==
  ASSUME ReadInv, NEW m \in Managers, Return(m) \/ Fails(m)
  PROVE  (\A q \in Replids : SavedThere(q)) ' /\ (\A n \in Managers : WriteOK(n) /\ ReadOK(n))'
<1>. DEFINE c == call[m]
<1>1. /\ Typed /\ call \in [Managers -> CallType] /\ (c.op = "delete" => c.r \in Deleted)
  BY DEF ReadInv, CompleteInv, Deletions, Typed, TypeOK
<1>2. /\ \A n \in Managers \ {m} : call'[n] = call[n]
      /\ call'[m] = Idle
      /\ UNCHANGED <<fields, mapping, asked>>
  BY <1>1 DEF Return, Fails
<1>3. ASSUME NEW q \in Replids \ Deleted
      PROVE  saved'[q] = IF Return(m) /\ q = c.r /\ c.op = "save" /\ saved[q] < c.off
                         THEN c.off ELSE saved[q]
  BY <1>1 DEF Return, Fails
<1>4. \A q \in Replids \ Deleted : saved'[q] \in Int /\ saved[q] <= saved'[q]
  BY <1>1, <1>3, Values2
<1>5. ASSUME NEW q \in Replids \ Deleted PROVE SavedThere(q)'
  <2>1. CASE Return(m) /\ q = c.r /\ c.op = "save" /\ saved[q] < c.off
    <3>1. c.at = "ret"
      BY <2>1 DEF Return
    <3>2. WriteOK(m) /\ c.op \in WriteOps
      BY <2>1 DEF ReadInv, WriteOps
    <3>3. c.off = asked[q] /\ fields[q]["offset"] = c.off /\ q \in mapping
      BY <2>1, <3>1, <3>2 DEF WriteOK
    <3>. QED BY <1>1, <1>2, <1>3, <2>1, <3>3, Values2 DEF SavedThere
  <2>2. CASE ~(Return(m) /\ q = c.r /\ c.op = "save" /\ saved[q] < c.off)
    BY <1>2, <1>3, <2>2 DEF ReadInv, SavedThere
  <2>. QED BY <2>1, <2>2
<1>6. ASSUME NEW n \in Managers \ {m} PROVE WriteOK(n)' /\ ReadOK(n)'
  BY <1>1, <1>2, <1>4, OthersKeep DEF ReadInv
<1>7. WriteOK(m)' /\ ReadOK(m)'
  BY <1>2 DEF WriteOK, ReadOK, Idle, WriteOps, Readings
<1>8. \A q \in Replids : SavedThere(q)'
  BY <1>5 DEF SavedThere
<1>. QED BY <1>6, <1>7, <1>8

\* A new reader has to see what is saved now.
LEMMA ReadCallRead ==
  ASSUME ReadInv, NEW m \in Managers, NEW op \in ReadOps, NEW r \in Replids,
         CallRead(m, op, r)
  PROVE  (\A q \in Replids : SavedThere(q)) ' /\ (\A n \in Managers : WriteOK(n) /\ ReadOK(n))'
<1>1. Typed /\ call \in [Managers -> CallType]
  BY DEF ReadInv, CompleteInv, Typed, TypeOK
<1>2. /\ \A n \in Managers \ {m} : call'[n] = call[n]
      /\ call'[m].op = op /\ call'[m].r = r /\ call'[m].floor = saved[r]
      /\ call'[m].at = First[op] /\ call'[m].res = None
      /\ UNCHANGED <<fields, mapping, asked, saved>>
  BY <1>1 DEF CallRead, Idle
<1>3. \A q \in Replids : SavedThere(q)'
  BY <1>2 DEF ReadInv, SavedThere
<1>4. \A q \in Replids \ Deleted : saved'[q] \in Int /\ saved[q] <= saved'[q]
  BY <1>1, <1>2, Values2
<1>5. ASSUME NEW n \in Managers \ {m} PROVE WriteOK(n)' /\ ReadOK(n)'
  BY <1>1, <1>2, <1>4, OthersKeep DEF ReadInv
<1>6. op \notin WriteOps /\ First[op] \in {"exists", "keys"}
      /\ (First[op] = "keys" => op = "getAll")
  BY DEF ReadOps, WriteOps, First
<1>7. WriteOK(m)' /\ ReadOK(m)'
  BY <1>1, <1>2, <1>4, <1>6 DEF WriteOK, ReadOK
<1>. QED BY <1>3, <1>5, <1>7

\* A command of m that writes no field, when m's own part is kept.
LEMMA ReadCommand ==
  ASSUME ReadInv, NEW m \in Managers,
         \/ HsetMapping(m) \/ GetVersion(m) \/ Hexists(m) \/ HgetOffset(m) \/ HgetAll(m)
         \/ HgetAllKeys(m) \/ NextKey(m)
  PROVE  /\ \A q \in Replids : SavedThere(q)'
         /\ \A n \in Managers \ {m} : WriteOK(n)' /\ ReadOK(n)'
<1>1. Typed
  BY DEF ReadInv, CompleteInv
<1>2. UNCHANGED <<fields, asked, saved>> /\ mapping \subseteq mapping'
  BY DEF HsetMapping, GetVersion, Hexists, HgetOffset, HgetAll, HgetAllKeys, NextKey
<1>3. \A n \in Managers \ {m} : call'[n] = call[n]
  BY <1>1, OthersWait DEF Command
<1>4. \A q \in Replids : SavedThere(q)'
  BY <1>2 DEF ReadInv, SavedThere
<1>5. \A q \in Replids \ Deleted : saved'[q] \in Int /\ saved[q] <= saved'[q]
  BY <1>1, <1>2, Values2
<1>6. ASSUME NEW n \in Managers \ {m} PROVE WriteOK(n)' /\ ReadOK(n)'
  BY <1>1, <1>2, <1>3, <1>5, OthersKeep DEF ReadInv
<1>. QED BY <1>4, <1>6

\* What m has learnt from such a command.
LEMMA ReadOwn ==
  ASSUME ReadInv, NEW m \in Managers,
         \/ HsetMapping(m) \/ GetVersion(m) \/ Hexists(m) \/ HgetOffset(m) \/ HgetAll(m)
         \/ HgetAllKeys(m) \/ NextKey(m)
  PROVE  WriteOK(m)' /\ ReadOK(m)'
<1>. DEFINE c == call[m]
<1>1. /\ Typed /\ c \in CallType /\ CallOK(c) /\ call \in [Managers -> CallType]
      /\ WriteOK(m) /\ ReadOK(m) /\ AllComplete
  BY DEF ReadInv, CompleteInv, Typed, TypeOK
<1>2. CASE HsetMapping(m)
  <2>1. /\ c.op = "save" /\ c.at # "sOff" /\ c.op \notin Readings /\ c.op \in WriteOps
    BY <1>1, <1>2 DEF HsetMapping, CallOK, SaveSteps, Readings, WriteOps
  <2>2. call'[m].at = "ret" /\ call'[m].op = c.op /\ call'[m].r = c.r /\ call'[m].off = c.off
    BY <1>1, <1>2 DEF HsetMapping, CallType
  <2>3. c.r \in mapping' /\ UNCHANGED <<fields, asked, saved>>
    BY <1>2 DEF HsetMapping
  <2>. QED BY <1>1, <2>1, <2>2, <2>3 DEF WriteOK, ReadOK
<1>3. CASE GetVersion(m)
  <2>1. c.op = "update" /\ c.op \notin Readings
    BY <1>1, <1>3 DEF GetVersion, CallOK, UpdateSteps, Readings
  <2>2. PICK v : call'[m] = [c EXCEPT !.at = "uOff", !.ver = v]
    BY <1>1, <1>3 DEF GetVersion
  <2>3. call'[m].at = "uOff" /\ call'[m].op = c.op /\ call'[m].r = c.r /\ call'[m].off = c.off
    BY <1>1, <2>2 DEF CallType
  <2>4. UNCHANGED <<fields, mapping, asked, saved>>
    BY <1>3 DEF GetVersion
  <2>. QED BY <1>1, <2>1, <2>3, <2>4 DEF WriteOK, ReadOK
<1>4. CASE Hexists(m)
  <2>. DEFINE a == IF c.r \notin mapping THEN "ret"
                   ELSE IF c.op = "getPsync" THEN "hget" ELSE "hgetall"
  <2>1. c.op \in ReadOps /\ c.op \notin WriteOps /\ c.r \in Replids
    BY <1>1, <1>4 DEF Hexists, CallOK, ReadOps, WriteOps
  <2>2. call' = [call EXCEPT ![m].at = a]
    BY <1>4 DEF Hexists
  <2>. HIDE DEF a
  <2>3. /\ call'[m].at = a /\ call'[m].op = c.op /\ call'[m].r = c.r
        /\ call'[m].res = c.res /\ call'[m].floor = c.floor
    BY <1>1, <2>2 DEF CallType
  <2>4. UNCHANGED <<fields, mapping, asked, saved>>
    BY <1>4 DEF Hexists
  <2>5. a \in {"ret", "hget", "hgetall"} /\ (a # "ret" => c.r \in mapping)
    BY DEF a
  <2>6. ASSUME a = "ret", c.op \in Readings, c.r \notin Deleted PROVE c.res >= c.floor
    <3>1. saved[c.r] = None
      BY <2>1, <2>6 DEF a, ReadInv, SavedThere
    <3>2. c.floor <= None
      BY <1>1, <2>6, <3>1 DEF ReadOK
    <3>3. c.res = None
      BY <1>1, <1>4, <2>6 DEF Hexists, ReadOK
    <3>. QED BY <3>2, <3>3 DEF None
  <2>. QED BY <1>1, <2>1, <2>3, <2>4, <2>5, <2>6 DEF WriteOK, ReadOK
<1>5. CASE HgetOffset(m)
  <2>1. c.op \in ReadOps /\ c.op \notin WriteOps /\ c.r \in Replids
    BY <1>1, <1>5 DEF HgetOffset, CallOK, ReadOps, WriteOps
  <2>2. call' = [call EXCEPT ![m].at = "ret", ![m].res = fields[c.r]["offset"]]
    BY <1>5 DEF HgetOffset
  <2>3. /\ call'[m].at = "ret" /\ call'[m].op = c.op /\ call'[m].r = c.r
        /\ call'[m].res = fields[c.r]["offset"] /\ call'[m].floor = c.floor
    BY <1>1, <2>2 DEF CallType
  <2>4. UNCHANGED <<fields, mapping, asked, saved>>
    BY <1>5 DEF HgetOffset
  <2>5. c.op \in Readings /\ c.r \notin Deleted => fields[c.r]["offset"] >= c.floor
    BY <1>1, <2>1, Values2 DEF ReadInv, SavedThere, ReadOK
  <2>. QED BY <1>1, <2>1, <2>3, <2>4, <2>5 DEF WriteOK, ReadOK
<1>6. CASE HgetAll(m)
  <2>. DEFINE empty == \A r \in Replids, f \in FieldNames : fields[r][f] = None
              whole == \A f \in Needed : fields[c.r][f] # None
              v == IF empty THEN None ELSE IF whole THEN fields[c.r]["offset"] ELSE Corrupted
              k == IF ~empty /\ ~whole THEN {} ELSE c.keys
  <2>1. c.op \in ReadOps /\ c.op \notin WriteOps /\ c.r \in Replids
    BY <1>1, <1>6 DEF HgetAll, CallOK, ReadOps, WriteOps
  <2>2. ASSUME c.op \in Readings, c.r \notin Deleted PROVE v = fields[c.r]["offset"]
    <3>1. whole
      BY <1>1, <1>6, <2>1, <2>2 DEF AllComplete, ReadOK, HgetAll, Stored, Needed
    <3>2. fields[c.r]["offset"] # None /\ "offset" \in FieldNames
      BY <3>1 DEF Needed, FieldNames
    <3>. QED BY <2>1, <3>1, <3>2
  <2>3. call' = [call EXCEPT ![m].at = "ret", ![m].res = v, ![m].keys = k]
    BY <1>6 DEF HgetAll
  <2>. HIDE DEF v, k
  <2>4. /\ call'[m].at = "ret" /\ call'[m].op = c.op /\ call'[m].r = c.r
        /\ call'[m].res = v /\ call'[m].floor = c.floor
    BY <1>1, <2>3 DEF CallType
  <2>5. UNCHANGED <<fields, mapping, asked, saved>>
    BY <1>6 DEF HgetAll
  <2>6. c.op \in Readings /\ c.r \notin Deleted => v >= c.floor
    BY <1>1, <2>1, <2>2, Values2 DEF ReadInv, SavedThere, ReadOK
  <2>. QED BY <1>1, <2>1, <2>4, <2>5, <2>6 DEF WriteOK, ReadOK
<1>7. CASE HgetAllKeys(m) \/ NextKey(m)
  <2>1. c.op = "getAll"
    BY <1>1, <1>7 DEF HgetAllKeys, NextKey, ReadOK
  <2>2. call'[m].at \in {"ret", "uOff", "hget", "hgetall", "exists"} /\ call'[m].op = c.op
    BY <1>1, <1>7, GoesTo
  <2>3. call'[m].at \in {"ret", "exists"}
    <3>1. CASE HgetAllKeys(m)
      BY <1>1, <3>1 DEF HgetAllKeys, CallType
    <3>2. CASE NextKey(m)
      <4>1. PICK r \in c.keys :
              call' = [call EXCEPT ![m] = [c EXCEPT !.at = "exists", !.r = r,
                                                    !.keys = @ \ {r}]]
        BY <1>1, <3>2 DEF NextKey
      <4>. QED BY <1>1, <4>1 DEF CallType
    <3>. QED BY <1>7, <3>1, <3>2
  <2>. QED BY <2>1, <2>2, <2>3 DEF WriteOK, ReadOK, WriteOps, Readings
<1>. QED BY <1>2, <1>3, <1>4, <1>5, <1>6, <1>7

\* A deletion by the writer: it disturbs no save, and none of the replids that are not deleted.
LEMMA ReadHdel ==
  ASSUME ReadInv, OneWriter, NEW m \in Managers, HdelFields(m) \/ HdelMapping(m)
  PROVE  (\A q \in Replids : SavedThere(q)) ' /\ (\A n \in Managers : WriteOK(n) /\ ReadOK(n))'
<1>. DEFINE c == call[m]
<1>1. /\ Typed /\ c \in CallType /\ c.op = "delete" /\ c.r \in Replids /\ c.r \in Deleted
      /\ call \in [Managers -> CallType] /\ m \in Writers
  <2>1. Typed /\ c.at \in DeleteSteps /\ Deletions
    BY DEF ReadInv, CompleteInv, HdelFields, HdelMapping, DeleteSteps
  <2>2. c.op = "delete" /\ c.op \in WriteOps
    BY <2>1, CallKnows DEF WriteOps
  <2>3. m \in Writers
    BY <2>2 DEF ReadInv, WriteOK
  <2>. QED BY <2>1, <2>2, <2>3, CallKnows DEF Deletions, Typed, TypeOK
<1>2. /\ \A n \in Managers \ {m} : call'[n] = call[n]
      /\ call'[m].op = c.op /\ call'[m].r = c.r /\ call'[m].at \in {"dMap", "ret"}
      /\ call'[m].at = "dMap" => HdelFields(m)
  <2>1. ASSUME NEW a \in {"dMap", "ret"}, call' = [call EXCEPT ![m].at = a]
        PROVE  /\ \A n \in Managers \ {m} : call'[n] = call[n]
               /\ call'[m].op = c.op /\ call'[m].r = c.r /\ call'[m].at = a
    BY <1>1, <2>1 DEF CallType
  <2>2. CASE HdelFields(m)
    <3>1. call' = [call EXCEPT ![m].at = "dMap"]
      BY <2>2 DEF HdelFields
    <3>. QED BY <2>1, <2>2, <3>1
  <2>3. CASE HdelMapping(m)
    <3>1. call' = [call EXCEPT ![m].at = "ret"]
      BY <2>3 DEF HdelMapping
    <3>. QED BY <2>1, <2>3, <3>1
  <2>. QED BY <2>2, <2>3
<1>3. /\ \A r \in Replids \ Deleted : fields'[r] = fields[r]
      /\ HdelFields(m) => fields'[c.r]["offset"] = None
      /\ UNCHANGED <<asked, saved>> /\ mapping \ Deleted \subseteq mapping'
  <2>1. CASE HdelFields(m)
    <3>1. fields' = [fields EXCEPT ![c.r] = [f \in FieldNames |-> IF f \in Stored THEN None ELSE @[f]]]
      BY <2>1 DEF HdelFields
    <3>2. fields \in [Replids -> [FieldNames -> Nat \union {None}]]
      BY <1>1 DEF Typed, TypeOK
    <3>3. fields'[c.r]["offset"] = None
      BY <1>1, <3>1, <3>2 DEF FieldNames, Stored
    <3>. QED BY <1>1, <2>1, <3>1, <3>2, <3>3 DEF HdelFields
  <2>2. CASE HdelMapping(m)
    <3>1. c.at = "dMap" /\ UNCHANGED fields /\ c.op \in WriteOps
      BY <1>1, <2>2 DEF HdelMapping, WriteOps
    <3>2. fields[c.r]["offset"] = None
      BY <3>1 DEF ReadInv, WriteOK
    <3>. QED BY <1>1, <2>2, <3>1, <3>2 DEF HdelMapping
  <2>. QED BY <2>1, <2>2
<1>4. \A q \in Replids : SavedThere(q)'
  BY <1>3 DEF ReadInv, SavedThere
<1>5. ASSUME NEW n \in Managers \ {m} PROVE WriteOK(n)' /\ ReadOK(n)'
  <2>1. n \notin Writers
    BY <1>1 DEF OneWriter
  <2>2. \A q \in Replids \ Deleted : saved'[q] \in Int /\ saved[q] <= saved'[q]
    BY <1>1, <1>3, Values2
  <2>3. WriteOK(n) /\ ReadOK(n) /\ call'[n] = call[n] /\ mapping \ Deleted \subseteq mapping'
    BY <1>2, <1>3 DEF ReadInv
  <2>. QED BY <1>1, <2>1, <2>2, <2>3, OthersKeep
<1>6. WriteOK(m)' /\ ReadOK(m)'
  BY <1>1, <1>2, <1>3 DEF WriteOK, ReadOK, Readings
<1>. QED BY <1>4, <1>5, <1>6

LEMMA ReadNext ==
  ASSUME OneWriter
  PROVE  ReadInv /\ [Next]_vars => ReadInv'
<1>. SUFFICES ASSUME ReadInv, [Next]_vars PROVE ReadInv'
  OBVIOUS
<1>1. CompleteInv'
  BY CompleteNext DEF ReadInv
<1>2. CASE UNCHANGED vars
  BY <1>1, <1>2 DEF vars, ReadInv, SavedThere, WriteOK, ReadOK
<1>3. CASE Next
  <2>. SUFFICES (\A q \in Replids : SavedThere(q))'
                /\ (\A n \in Managers : WriteOK(n) /\ ReadOK(n))'
    BY <1>1 DEF ReadInv
  <2>2. PICK m \in Managers :
           \/ \E op \in WriteOps, r \in Replids, off \in 0 .. MaxOffset : CallWrite(m, op, r, off)
           \/ \E op \in ReadOps, r \in Replids : CallRead(m, op, r)
           \/ Command(m) \/ Return(m) \/ Fails(m)
    BY <1>3 DEF Next
  <2>3. CASE \/ HsetMapping(m) \/ GetVersion(m) \/ Hexists(m) \/ HgetOffset(m) \/ HgetAll(m)
             \/ HgetAllKeys(m) \/ NextKey(m)
    BY <2>3, ReadCommand, ReadOwn
  <2>. QED BY <2>2, <2>3, ReadCallWrite, ReadCallRead, ReadHset, ReadHdel, ReadReturn DEF Command
<1>. QED BY <1>2, <1>3

\* With one writer, whoever reads a checkpoint gets what a save that has returned has saved,
\* or something later, whatever other replids are deleted meanwhile.
THEOREM SavedCheckpointIsRead ==
  ASSUME OneWriter
  PROVE  Spec => []SavedIsRead
<1>1. ReadInv => SavedIsRead
  BY DEF ReadInv, ReadOK, SavedIsRead, Readings
<1>. QED BY <1>1, ReadInit, ReadNext, PTL DEF Spec
-----------------------------------------------------------------------------
(* With one writer, the two hashes are a map: each command is a step of    *)
(* CheckpointMap or none at all.                                           *)

\* What the map sees of the calls.
View == [m \in Managers |-> [op |-> call[m].op, r |-> call[m].r, off |-> call[m].off]]

LEMMA MapInit == Init => Map!Init
<1>. SUFFICES ASSUME Init PROVE Map!Init
  OBVIOUS
<1>1. Entry = [r \in Replids |-> None]
  BY DEF Init, Entry
<1>2. \A m \in Managers : View[m].op = "none"
  BY DEF Init, View, Idle
<1>. QED BY <1>1, <1>2 DEF Map!Init, Map!None, None, View

\* A command changes no call that the map can tell.
LEMMA SameView ==
  ASSUME Typed, NEW m \in Managers,
         \A n \in Managers \ {m} : call'[n] = call[n],
         call'[m].op = call[m].op, call'[m].r = call[m].r, call'[m].off = call[m].off
  PROVE  View' = View
<1>1. \A n \in Managers : /\ call'[n].op = call[n].op /\ call'[n].r = call[n].r
                          /\ call'[n].off = call[n].off
  OBVIOUS
<1>. QED BY <1>1 DEF View

\* The calls and the returns leave the entries alone.
LEMMA MapCalls ==
  ASSUME Typed, NEW m \in Managers, UNCHANGED <<fields, mapping>>,
         \A n \in Managers \ {m} : call'[n] = call[n]
  PROVE  Map!Calls
<1>1. Entry' = Entry
  BY DEF Entry
<1>2. \A n \in Managers \ {m} : View'[n] = View[n]
  BY DEF View
<1>. QED BY <1>1, <1>2 DEF Map!Calls, View

LEMMA MapStutter == ASSUME Entry' = Entry, View' = View PROVE UNCHANGED Map!vars
  BY DEF Map!vars, View

\* A write under way replaces the entry of its replid.
LEMMA MapCommit ==
  ASSUME NEW m \in Managers, View' = View, call[m].op \in {"save", "psync", "update"},
         Entry' = [Entry EXCEPT ![call[m].r] = call[m].off]
  PROVE  Map!Commit(m)
<1>1. View[m].op = call[m].op /\ View[m].r = call[m].r /\ View[m].off = call[m].off
  BY DEF View
<1>. QED BY <1>1 DEF Map!Commit, View

LEMMA MapRemove ==
  ASSUME NEW m \in Managers, View' = View, call[m].op = "delete",
         Entry' = [Entry EXCEPT ![call[m].r] = None]
  PROVE  Map!Remove(m)
<1>1. View[m].op = call[m].op /\ View[m].r = call[m].r
  BY DEF View
<1>. QED BY <1>1 DEF Map!Remove, Map!None, None, View

\* The HSET of the offset of a replid with a mapping is the moment its entry changes; without
\* one, and for the other fields, nothing is to be seen.
LEMMA MapHset ==
  ASSUME ReadInv, NEW m \in Managers, Hset(m)
  PROVE  Map!Commit(m) \/ UNCHANGED Map!vars
<1>. DEFINE c == call[m]
            g == HsetField[c.at]
<1>1. /\ Typed /\ c \in CallType /\ CallOK(c) /\ c.at \in DOMAIN HsetField
      /\ c.op # "none" /\ c.r \in Replids
  BY DEF ReadInv, CompleteInv, Typed, TypeOK, Hset, CallOK
<1>2. c.op \in {"save", "psync", "update"}
  <2>1. c.at \in SaveSteps \union PsyncSteps \union UpdateSteps
    BY <1>1, Tables
  <2>. QED BY <1>1, <2>1 DEF CallOK
<1>3. g \in FieldNames /\ (g = "offset" => HsetValue(c) = c.off)
  BY <1>1, Tables DEF HsetValue
<1>4. /\ \A r \in Replids, f \in FieldNames :
           fields'[r][f] = IF r = c.r /\ f = g THEN HsetValue(c) ELSE fields[r][f]
      /\ UNCHANGED mapping
  BY <1>1, <1>3 DEF Hset, Typed, TypeOK
<1>5. \A r \in Replids : fields'[r]["offset"] = IF r = c.r /\ g = "offset"
                                               THEN c.off ELSE fields[r]["offset"]
  BY <1>3, <1>4 DEF FieldNames
<1>6. View' = View
  <2>1. /\ \A n \in Managers \ {m} : call'[n] = call[n]
        /\ call'[m] = [c EXCEPT !.at = HsetAfter[c.at]]
    BY <1>1 DEF Hset, Typed, TypeOK
  <2>2. call'[m].op = c.op /\ call'[m].r = c.r /\ call'[m].off = c.off
    BY <1>1, <2>1 DEF CallType
  <2>. QED BY <1>1, <2>1, <2>2, SameView
<1>7. CASE g = "offset" /\ c.r \in mapping
  <2>1. Entry' = [Entry EXCEPT ![c.r] = c.off]
    BY <1>1, <1>4, <1>5, <1>7 DEF Entry
  <2>. QED BY <1>2, <1>6, <2>1, MapCommit
<1>8. CASE ~(g = "offset" /\ c.r \in mapping)
  <2>1. Entry' = Entry
    BY <1>4, <1>5, <1>8 DEF Entry
  <2>. QED BY <1>6, <2>1, MapStutter
<1>. QED BY <1>7, <1>8

\* The mapping makes a first save visible, with the offset it has written.
LEMMA MapHsetMapping ==
  ASSUME ReadInv, NEW m \in Managers, HsetMapping(m)
  PROVE  Map!Commit(m) \/ UNCHANGED Map!vars
<1>. DEFINE c == call[m]
<1>1. /\ Typed /\ c \in CallType /\ c.op = "save" /\ c.r \in Replids /\ c.at = "sMap"
      /\ call \in [Managers -> CallType]
  <2>1. Typed /\ c.at = "sMap" /\ c.at \in SaveSteps
    BY DEF ReadInv, CompleteInv, HsetMapping, SaveSteps
  <2>2. call \in [Managers -> CallType]
    BY <2>1 DEF Typed, TypeOK
  <2>. QED BY <2>1, <2>2, CallKnows
<1>2. fields[c.r]["offset"] = c.off
  BY <1>1 DEF ReadInv, WriteOK, WriteOps
<1>3. mapping' = mapping \union {c.r} /\ UNCHANGED fields
  BY DEF HsetMapping
<1>4. View' = View
  <2>1. /\ \A n \in Managers \ {m} : call'[n] = call[n]
        /\ call'[m] = [c EXCEPT !.at = "ret"]
    BY <1>1 DEF HsetMapping
  <2>2. call'[m].op = c.op /\ call'[m].r = c.r /\ call'[m].off = c.off
    BY <1>1, <2>1 DEF CallType
  <2>. QED BY <1>1, <2>1, <2>2, SameView
<1>5. Entry' = [Entry EXCEPT ![c.r] = c.off]
  BY <1>1, <1>2, <1>3 DEF Entry
<1>. QED BY <1>1, <1>4, <1>5, MapCommit

\* The HDEL of the fields takes the entry away, the one of the mapping finds it gone.
LEMMA MapHdel ==
  ASSUME ReadInv, NEW m \in Managers, HdelFields(m) \/ HdelMapping(m)
  PROVE  Map!Remove(m) \/ UNCHANGED Map!vars
<1>. DEFINE c == call[m]
<1>1. /\ Typed /\ c \in CallType /\ c.op = "delete" /\ c.r \in Replids /\ c.op \in WriteOps
      /\ call \in [Managers -> CallType]
  <2>1. Typed /\ c.at \in DeleteSteps
    BY DEF ReadInv, CompleteInv, HdelFields, HdelMapping, DeleteSteps
  <2>2. call \in [Managers -> CallType]
    BY <2>1 DEF Typed, TypeOK
  <2>3. c.op = "delete" /\ c.r \in Replids
    BY <2>1, CallKnows
  <2>. QED BY <2>1, <2>2, <2>3 DEF WriteOps
<1>2. View' = View
  <2>1. PICK a : call' = [call EXCEPT ![m].at = a]
    BY DEF HdelFields, HdelMapping
  <2>2. /\ \A n \in Managers \ {m} : call'[n] = call[n]
        /\ call'[m] = [c EXCEPT !.at = a]
    BY <1>1, <2>1
  <2>3. call'[m].op = c.op /\ call'[m].r = c.r /\ call'[m].off = c.off
    BY <1>1, <2>2 DEF CallType
  <2>. QED BY <1>1, <2>2, <2>3, SameView
<1>3. CASE HdelFields(m)
  <2>1. /\ fields' = [fields EXCEPT ![c.r] = [f \in FieldNames |-> IF f \in Stored THEN None ELSE @[f]]]
        /\ UNCHANGED mapping
    BY <1>3 DEF HdelFields
  <2>2. fields \in [Replids -> [FieldNames -> Nat \union {None}]]
    BY <1>1 DEF Typed, TypeOK
  <2>3. /\ fields'[c.r]["offset"] = None
        /\ \A r \in Replids \ {c.r} : fields'[r] = fields[r]
    BY <1>1, <2>1, <2>2 DEF FieldNames, Stored
  <2>4. CASE c.r \in mapping
    <3>1. \A r \in Replids : fields'[r]["offset"] = IF r = c.r THEN None ELSE fields[r]["offset"]
      BY <2>3
    <3>2. mapping' = mapping /\ c.r \in Replids /\ c.r \in mapping
      BY <1>1, <2>1, <2>4
    <3>3. Entry' = [Entry EXCEPT ![c.r] = None]
      BY <3>1, <3>2 DEF Entry
    <3>. QED BY <1>1, <1>2, <3>3, MapRemove
  <2>5. CASE c.r \notin mapping
    <3>1. Entry' = Entry
      BY <2>1, <2>3, <2>5 DEF Entry
    <3>. QED BY <1>2, <3>1, MapStutter
  <2>. QED BY <2>4, <2>5
<1>4. CASE HdelMapping(m)
  <2>1. c.at = "dMap" /\ mapping' = mapping \ {c.r} /\ UNCHANGED fields
    BY <1>4 DEF HdelMapping
  <2>2. fields[c.r]["offset"] = None
    BY <1>1, <2>1 DEF ReadInv, WriteOK
  <2>3. Entry' = Entry
    BY <2>1, <2>2 DEF Entry
  <2>. QED BY <1>2, <2>3, MapStutter
<1>. QED BY <1>3, <1>4

\* The reads, the calls and the returns.
LEMMA MapOther ==
  ASSUME Typed, NEW m \in Managers,
         \/ \E op \in WriteOps, r \in Replids, off \in 0 .. MaxOffset : CallWrite(m, op, r, off)
         \/ \E op \in ReadOps, r \in Replids : CallRead(m, op, r)
         \/ GetVersion(m) \/ Hexists(m) \/ HgetOffset(m) \/ HgetAll(m) \/ HgetAllKeys(m)
         \/ NextKey(m) \/ Return(m) \/ Fails(m)
  PROVE  Map!Calls
<1>1. UNCHANGED <<fields, mapping>>
  BY DEF CallWrite, CallRead, GetVersion, Hexists, HgetOffset, HgetAll, HgetAllKeys, NextKey,
         Return, Fails
<1>2. \A n \in Managers \ {m} : call'[n] = call[n]
  BY OthersWait DEF Command
<1>. QED BY <1>1, <1>2, MapCalls

LEMMA MapNext == ReadInv /\ [Next]_vars => [Map!Next]_(Map!vars)
<1>. SUFFICES ASSUME ReadInv, [Next]_vars PROVE [Map!Next]_(Map!vars)
  OBVIOUS
<1>0. Typed
  BY DEF ReadInv, CompleteInv
<1>1. CASE UNCHANGED vars
  <2>1. Entry' = Entry /\ View' = View
    BY <1>1 DEF vars, Entry, View
  <2>. QED BY <2>1, MapStutter
<1>2. CASE Next
  <2>1. PICK m \in Managers :
           \/ \E op \in WriteOps, r \in Replids, off \in 0 .. MaxOffset : CallWrite(m, op, r, off)
           \/ \E op \in ReadOps, r \in Replids : CallRead(m, op, r)
           \/ Command(m) \/ Return(m) \/ Fails(m)
    BY <1>2 DEF Next
  <2>2. Map!Calls \/ Map!Commit(m) \/ Map!Remove(m) \/ UNCHANGED Map!vars
    BY <1>0, <2>1, MapOther, MapHset, MapHsetMapping, MapHdel DEF Command
  <2>. QED BY <2>2 DEF Map!Next
<1>. QED BY <1>1, <1>2

\* With one writer, a user of CheckpointManager sees a map whose entries change at one moment
\* each, by the call that is under way for them: though each operation is a sequence of
\* commands, any of which may be the last, and readers and deletions come between.
THEOREM ImplementsCheckpointMap ==
  ASSUME OneWriter
  PROVE  Spec => IsCheckpointMap
<1>1. Init => Map!Init
  BY MapInit
<1>2. ReadInv /\ [Next]_vars => [Map!Next]_(Map!vars)
  BY MapNext
<1>. QED BY <1>1, <1>2, ReadInit, ReadNext, PTL DEF Spec, IsCheckpointMap, Map!Spec
=============================================================================
