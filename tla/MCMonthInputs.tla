---------------------------- MODULE MCMonthInputs ----------------------------
(* A month with a rate, incomes, a card spend and a group, and a later month *)
(* that may be locked.                                                      *)
EXTENDS MonthInputs, TLC

CONSTANTS i1, i2, i3, c1, s1, h1, x1, x2, f1, e1, e2, e3, g1, k1

MCKind == [id \in Ids |->
    CASE id \in {i1, i2, i3} -> "income" [] id = c1 -> "cardSpend" [] id = s1 -> "salaryItem"
      [] id = h1 -> "loss" [] id \in {x1, x2} -> "exchangeRate" [] id = f1 -> "feeRate"]

MCRows == [id \in Ids |->
    CASE id = i1 -> Patched(Blank, [employee |-> e1, amount |-> 4000, status |-> "confirmed"])
      [] id = i2 -> Patched(Blank, [employee |-> e2, amount |-> 16000])
      [] id = c1 -> Patched(Blank, [employee |-> e2, settled |-> 1000, amount |-> 1000 * One])
      [] id = x1 -> Patched(Blank, [amount |-> 7, status |-> "active"])
      [] id = f1 -> Patched(Blank, [key |-> "airwallex", amount |-> 1, status |-> "active"])
      [] OTHER -> None]

MCConfigs == [c \in Configs |->
    IF c = k1 THEN [type |-> "addition", status |-> "active"] ELSE None]

MCGroups == [g \in Groups |-> IF g = g1 THEN [month |-> 1, status |-> "active"] ELSE None]

MCMembers == MemberRows(g1, 1, [e \in {e1, e2} |-> IF e = e1 THEN 60 ELSE 40])

MCSymmetry == Permutations(Requests)

MCRosters == {[e \in {e1} |-> 100],
              [e \in {e1, e2} |-> IF e = e1 THEN 60 ELSE 40],
              [e \in {e2, e3} |-> 50],
              [e \in {e1, e2, e3} |-> IF e = e1 THEN 34 ELSE 33],
              [e \in {e1, e3} |-> 40]}

Event(e) == [id |-> "event", month |-> 1, employee |-> e, key |-> "airwallex", amount |-> 1000]

MCFacts == {[events |-> {Event(e2)}, staleAdjustments |-> {}, openUnmatched |-> {1},
             openTasks |-> {}, attendance |-> {e3}, absent |-> {}],
            [events |-> {}, staleAdjustments |-> {1}, openUnmatched |-> {}, openTasks |-> {2},
             attendance |-> {}, absent |-> {e2}]}

MCLocked == {{}, {2}}
=============================================================================
