------------------------------ MODULE MCRefresh ------------------------------
(* Small instances of Refresh for TLC. *)
EXTENDS RefreshInv, TLC

Interchangeable == Permutations(Pods) \cup Permutations(Callers)
=============================================================================
