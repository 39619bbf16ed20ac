------------------------- MODULE MCSyncTaskLifecycle -------------------------
(* Constants of SyncTaskLifecycle for TLC. *)
EXTENDS SyncTaskLifecycle, TLC

CONSTANTS i1, i2, r1, r2

Interchangeable == Permutations(Instances) \cup Permutations(Requests)
=============================================================================
