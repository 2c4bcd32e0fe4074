--------------------------- MODULE MCSyncPipeline ---------------------------
(* Small instances of SyncPipeline for TLC; the sizes are in the cfg files. *)
EXTENDS SyncPipeline
=============================================================================
