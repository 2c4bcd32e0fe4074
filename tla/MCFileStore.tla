----------------------------- MODULE MCFileStore -----------------------------
(* Small instances of FileStore for TLC; the operations are in the cfg files. *)
EXTENDS FileStore
=============================================================================
