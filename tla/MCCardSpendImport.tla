-------------------------- MODULE MCCardSpendImport --------------------------
(* Constants of CardSpendImport for TLC. *)
EXTENDS CardSpendImport, TLC
CONSTANTS c1, e1, e2, w1, w2, d1, d2
OneTransaction == {[card |-> c1, date |-> 1]}
Interchangeable == Permutations(Employees) \cup Permutations(Workers) \cup Permutations(Admins)
=============================================================================
