----------------------------- MODULE MCElection -----------------------------
(* The instance of Election that TLC checks. *)
EXTENDS Election
=============================================================================
