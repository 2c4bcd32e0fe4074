-------------------------- MODULE MCCheckpointStore --------------------------
(* Small instances of CheckpointStore for TLC: the operations main() and the   *)
(* forwarder call, and all of them.                                            *)
EXTENDS CheckpointStore

SyncOps == {"save", "psync", "getPsync", "get"}
KeepOps == {"save", "psync", "update", "getPsync", "get", "getAll"}
AllOps  == WriteOps \union ReadOps
=============================================================================
