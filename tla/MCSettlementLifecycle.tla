------------------------ MODULE MCSettlementLifecycle ------------------------
(* Constants of SettlementLifecycle for TLC. *)
EXTENDS SettlementLifecycle, TLC

CONSTANTS r1, r2, e1

Losses == {-1}
LossOrProfit == {-1, 1}
Interchangeable == Permutations(Requests)

IdsOf(kind, months, copies) ==
    [kind : {kind}, month : months, employee : Employees, copy : copies]

\* One imported row per month and employee, room for two roll-forwards of each loss.
ImportedOnly == IdsOf("imported", Months, {1}) \cup IdsOf("rolled", Months, {1, 2})
\* A single imported row, for month 1, and a single loss to roll.
ImportedOne == IdsOf("imported", {1}, {1}) \cup IdsOf("rolled", {1}, {1})
\* One row typed in per month and employee.
EnteredOnly == IdsOf("entered", Months, {1}) \cup IdsOf("rolled", Months, {1})

Everything == Ids
NoIds == {}
=============================================================================
