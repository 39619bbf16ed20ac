--------------------------- MODULE MCIncomeImport ---------------------------
(* Constants of IncomeImport for TLC. *)
EXTENDS IncomeImport, TLC

CONSTANTS e1, e2

Interchangeable == Permutations(Employees)
=============================================================================
