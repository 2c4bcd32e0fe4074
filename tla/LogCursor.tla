------------------------------ MODULE LogCursor ------------------------------
(***************************************************************************)
(* What resuming from a checkpoint relies on, for one history of the       *)
(* source: a cursor moves over a log that only grows; while it is attached *)
(* it never moves back and never beyond the end of the log; the only value *)
(* ever saved is where the cursor is.  Between two attachments the saved   *)
(* value is all that remains.                                              *)
(***************************************************************************)
EXTENDS Integers

VARIABLES
  produced,   \* labels the log has given out
  cursor,     \* the next label to forward, or None
  saved       \* the checkpoint, or None

None == -1
vars == <<produced, cursor, saved>>

Init == produced \in Nat /\ cursor = None /\ saved = None

Produce == /\ produced' \in Nat /\ produced' >= produced
           /\ UNCHANGED <<cursor, saved>>

Attach  == /\ cursor = None
           /\ cursor' \in Nat /\ cursor' <= produced
           /\ UNCHANGED <<produced, saved>>

Advance == /\ cursor # None
           /\ cursor' \in Nat /\ cursor <= cursor' /\ cursor' <= produced
           /\ UNCHANGED <<produced, saved>>

Save    == /\ cursor # None
           /\ saved' = cursor
           /\ UNCHANGED <<produced, cursor>>

Detach  == /\ cursor' = None
           /\ UNCHANGED <<produced, saved>>

Next == Produce \/ Attach \/ Advance \/ Save \/ Detach
Spec == Init /\ [][Next]_vars
=============================================================================
