-------------------------- MODULE MCSettlementPage --------------------------
(* What administrators see: the settlement page over two months, with one  *)
(* warning code and few clicks, or one report on the rows of a month, or   *)
(* two readers of the audit log, one after the other.                      *)
EXTENDS SettlementPage, Reports

CONSTANTS a, b

VARIABLE view

MCRow(id, e, key, amount) ==
    [id |-> id, employee |-> e, key |-> key, amount |-> amount, status |-> "confirmed"]

MCRows == [income |-> {MCRow(1, a, "everflow", 3), MCRow(2, Nobody, "cake", 5),
                       MCRow(3, b, "manual", 20)},
           spend |-> {MCRow(1, b, "airwallex", 7), MCRow(2, Nobody, "photonpay", 11)},
           manual |-> {[MCRow(1, a, "manual", 40) EXCEPT !.status = "draft"]}]

MCEntry(seq, id, at) ==
    [id |-> id, at |-> at, action |-> "other", rows |-> 0, seq |-> seq]

MCLog == {MCEntry(1, 4, 1), MCEntry(2, 2, 2), MCEntry(3, 5, 2)}

MCInit == /\ view \in {"page", "month", "log"}
          /\ PageInit /\ ReportsInit
          /\ view # "page" => canView /\ \A m \in Months : book[m].warnings = {}

MCNext == /\ UNCHANGED view
          /\ \/ view = "page" /\ PageNext /\ UNCHANGED reportVars
             \/ view = "month" /\ MonthReading /\ asked' <= 1 /\ UNCHANGED pageVars
             \/ view = "log" /\ LogReading /\ UNCHANGED pageVars

\* Fairness of SettlementPage, in its view.
MCFairness ==
    /\ WF_pageVars(view = "page" /\ \E r \in requests : Serve(r) \/ ServeFailure(r))
    /\ WF_pageVars(view = "page" /\ \E r \in requests : Take(r))

MCSpec == MCInit /\ [][MCNext]_<<view, pageVars, reportVars>> /\ MCFairness
=============================================================================
