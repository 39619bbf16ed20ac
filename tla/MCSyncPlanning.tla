---------------------------- MODULE MCSyncPlanning ----------------------------
(* Constants of SyncPlanning for TLC. *)
EXTENDS SyncPlanning, TLC

CONSTANTS everflow1, airwallex, k1, k2, d1

Interchangeable == Permutations(Checks)
=============================================================================
