--------------------------- MODULE MCManagedWrite ---------------------------
(***************************************************************************)
(* Small instances of the managed-write lock for TLC.                      *)
(***************************************************************************)
EXTENDS ManagedWrite, TLC

Interchangeable == Permutations(Process)
=============================================================================
