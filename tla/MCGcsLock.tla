----------------------------- MODULE MCGcsLock -----------------------------
(***************************************************************************)
(* Instances of GcsLock for TLC: mutexes are interchangeable.              *)
(***************************************************************************)
EXTENDS GcsLock, TLC

CONSTANTS m1, m2, m3

Perms == Permutations(Mutex)
=============================================================================
