-------------------------- MODULE SalaryCalculator --------------------------
(***************************************************************************)
(* The calculation of a month: SettlementCalculatorService, as operators   *)
(* on the read model a generation hands to it.                             *)
(*                                                                         *)
(* Decimals are exact integers here.  A rate or a share is a number of     *)
(* One-ths, so the amount of a fee or of an allocation carries One or      *)
(* One * One as its unit: an entered amount is in USD, a card spend and a  *)
(* profit in USD / One, an allocated profit in USD / (One * One), and the  *)
(* amounts in RMB in 1 / RmbUnit.                                          *)
(*                                                                         *)
(* A read model b has the confirmed income and card spend rows             *)
(* (b.incomes, b.events, b.cards), the rates of the month (b.fees), the    *)
(* members of its groups (b.members), the carried losses (b.losses), the   *)
(* manual items (b.items), the exchange rate (b.exchange), and the         *)
(* employees whose attendance was given (b.attendance) or is not full      *)
(* (b.absent).  Rows are told apart by their id.                           *)
(***************************************************************************)
EXTENDS Integers, FiniteSets, FiniteSetsExt

CONSTANTS
    One,            \* the number that stands for 1 in a rate or a share
    None            \* no employee, no group

UsdUnit == One * One
RmbUnit == 100 * UsdUnit

Total(rows, amount(_)) == MapThenSumSet(amount, rows)

-----------------------------------------------------------------------------
(* Who is paid, and from what.                                             *)

\* variant: an employee who only carries a loss is forgotten
EmployeesWithoutLosses(b) ==
    {x.employee : x \in b.incomes \cup b.events \cup b.cards \cup b.items
                        \cup b.members} \cup b.attendance

collectEmployeeIds(b) ==
    ({x.employee : x \in b.incomes \cup b.events \cup b.cards \cup b.losses
                        \cup b.items \cup b.members} \cup b.attendance) \ {None}

Owned(rows, e) == {x \in rows : x.employee = e}

feeOf(b, provider) ==
    LET rates == {x \in b.fees : x.key = provider} IN
    IF rates = {} THEN 0 ELSE (CHOOSE x \in rates : TRUE).amount

calculateEmployeeProfits(b) ==
    [e \in collectEmployeeIds(b) |->
        One * Total(Owned(b.incomes, e), LAMBDA x : x.amount)
          - Total(Owned(b.events, e),
                  LAMBDA x : x.amount * (One + feeOf(b, x.key)))
          - Total(Owned(b.cards, e), LAMBDA x : x.amount)]

buildGroupsByEmployee(b, e) ==
    LET mine == Owned(b.members, e) IN
    IF mine = {} THEN None ELSE CHOOSE m \in mine : TRUE

calculateGroupTotals(b, g) ==
    LET profits == calculateEmployeeProfits(b) IN
    Total({m \in b.members : m.group = g}, LAMBDA m : profits[m.employee])

sumHistoricalNegativeProfits(b, e) ==
    Total(Owned(b.losses, e), LAMBDA x : x.amount) * UsdUnit

sumManualSalaryItems(b, e) ==
    Total(Owned(b.items, e),
          LAMBDA x : IF x.type = "addition" THEN x.amount ELSE -x.amount) * RmbUnit

-----------------------------------------------------------------------------
(* From a profit to a salary.                                              *)

applyNegativeCarryover(allocated, carried) ==
    IF allocated >= carried
    THEN [commission |-> allocated - carried, remaining |-> 0]
    ELSE [commission |-> 0, remaining |-> carried - allocated]

Tier(base, star, percent) == [base |-> base, star |-> star, percent |-> percent]

calculateSalaryTier(profit, mode) ==
    LET below(n) == profit < n * UsdUnit IN
    CASE below(3000) -> Tier(2500, 0, 0)
      [] ~below(3000) /\ below(5000) ->
            IF mode = "single" THEN Tier(3000, 300, 4) ELSE Tier(3000, 0, 0)
      [] ~below(5000) /\ below(15000) -> Tier(3000, 500, 6)
      [] ~below(15000) /\ below(30000) -> Tier(3000, 1000, 8)
      [] ~below(30000) /\ below(50000) -> Tier(3000, 2000, 10)
      [] ~below(50000) /\ below(100000) -> Tier(3000, 3000, 14)
      [] OTHER -> Tier(3000, 4000, 18)

calculateAttendanceBonus(full) == IF full THEN 500 ELSE 0

calculateFinalSalary(tier, bonus, commissionRmb, manual) ==
    (tier.base + tier.star + bonus) * RmbUnit + commissionRmb + manual

-----------------------------------------------------------------------------
(* The precheck and the results.                                           *)

sharesOf(b, g) == Total({m \in b.members : m.group = g}, LAMBDA m : m.share)

\* What SettlementCalculatorService.precheck and the checks of the read model refuse.
precheck(b) ==
    {code \in {"unassignedIncome", "unassignedSpend", "feeRate", "membership", "shares"} :
        CASE code = "unassignedIncome" -> None \in {x.employee : x \in b.incomes}
          [] code = "unassignedSpend" -> None \in {x.employee : x \in b.events}
          [] code = "feeRate" -> ~({x.key : x \in b.events} \subseteq {x.key : x \in b.fees})
          [] code = "membership" ->
                \E m, n \in b.members : m # n /\ m.employee = n.employee
          [] code = "shares" ->
                \E m \in b.members : sharesOf(b, m.group) # One}

\* The result of one employee: what a detail row and its snapshot hold.
Result(b, e, profits) ==
    LET member == buildGroupsByEmployee(b, e)
        mode == IF member = None THEN "single" ELSE "group"
        allocated == IF member = None THEN profits[e] * One
                     ELSE calculateGroupTotals(b, member.group) * member.share
        carried == sumHistoricalNegativeProfits(b, e)
        after == applyNegativeCarryover(allocated, carried)
        tier == calculateSalaryTier(after.commission, mode)
        commissionRmb == after.commission * tier.percent * b.exchange
        manual == sumManualSalaryItems(b, e)
    IN  [mode |-> mode, original |-> profits[e], allocated |-> allocated,
         carried |-> carried, commission |-> after.commission,
         remaining |-> after.remaining, manual |-> manual,
         full |-> e \notin b.absent,
         final |-> calculateFinalSalary(tier, calculateAttendanceBonus(e \notin b.absent),
                                        commissionRmb, manual)]

calculate(b) ==
    LET profits == calculateEmployeeProfits(b) IN
    [e \in collectEmployeeIds(b) |-> Result(b, e, profits)]
=============================================================================
