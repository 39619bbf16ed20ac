----------------------------- MODULE MonthLedger -----------------------------
(***************************************************************************)
(* What the month lock promises, without a handler in sight: each month    *)
(* has a page in the book, pages are rewritten freely until their month is *)
(* sealed, and sealing is for ever.                                        *)
(***************************************************************************)
VARIABLES book, sealed

Init == sealed = {}

Next ==
    /\ sealed \subseteq sealed'
    /\ \A m \in sealed : book'[m] = book[m]

Spec == Init /\ [][Next]_<<book, sealed>>
=============================================================================
