---------------------------- MODULE CheckpointMap ----------------------------
(***************************************************************************)
(* What the users of CheckpointManager need of the two hashes: a map from  *)
(* replication ids to offsets, in which a call that is under way may       *)
(* replace, or a deletion remove, the entry of the id it was called with,  *)
(* at one moment, and in which nothing else ever changes an entry.         *)
(***************************************************************************)
EXTENDS Integers

CONSTANTS Managers, Replids

VARIABLES
  entry,   \* the offset of a replication id, or None
  call     \* what each manager is doing: [op, r, off]

None == -1
vars == <<entry, call>>

Init == /\ entry = [r \in Replids |-> None]
        /\ \A m \in Managers : call[m].op = "none"

Calls == /\ UNCHANGED entry
         /\ \E m \in Managers : \A n \in Managers \ {m} : call'[n] = call[n]

Commit(m) == /\ call[m].op \in {"save", "psync", "update"}
             /\ entry' = [entry EXCEPT ![call[m].r] = call[m].off]
             /\ call' = call

Remove(m) == /\ call[m].op = "delete"
             /\ entry' = [entry EXCEPT ![call[m].r] = None]
             /\ call' = call

Next == Calls \/ \E m \in Managers : Commit(m) \/ Remove(m)
Spec == Init /\ [][Next]_vars
=============================================================================
