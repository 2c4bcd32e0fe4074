----------------------------- MODULE MCLifecycle -----------------------------
(* Small instances of Lifecycle for TLC: the requests are interchangeable.    *)
EXTENDS Lifecycle, TLC

Symmetry == Permutations(Handlers)
=============================================================================
