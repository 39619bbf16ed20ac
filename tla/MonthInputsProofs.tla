-------------------------- MODULE MonthInputsProofs --------------------------
(***************************************************************************)
(* What the lock check of the manual services protects, and what a month is*)
(* calculated from, for any number of months, rows, groups and requests;   *)
(* and what the reports of a month show of it.                             *)
(***************************************************************************)
EXTENDS MonthInputs, Reports, TLAPS, FiniteSetTheorems, SequenceTheorems,
        WellFoundedInduction

-----------------------------------------------------------------------------
(* The inductive invariant.                                                *)

OpenMonths == Months \ locked

Columns == {"month", "status", "employee", "key", "amount", "settled", "fee"}

\* The columns of a table that a request may submit, with a value of their type.
ColumnsOK(kind, patch) ==
    /\ DOMAIN patch \subseteq Columns
    /\ "month" \in DOMAIN patch => patch["month"] \in Months
    /\ "status" \in DOMAIN patch => patch["status"] \in StatusesOf(kind)
    /\ "employee" \in DOMAIN patch => patch["employee"] \in EmployeeOf(kind)
    /\ "key" \in DOMAIN patch => patch["key"] \in Providers \cup Configs \cup {None}
    /\ "amount" \in DOMAIN patch => patch["amount"] \in Nat
    /\ "settled" \in DOMAIN patch => patch["settled"] \in Nat
    /\ "fee" \in DOMAIN patch => patch["fee"] \in Nat

\* The columns a request has been let through with.
PatchOK(kind, patch) ==
    ColumnsOK(kind, patch) /\ ("month" \in DOMAIN patch => patch["month"] \in OpenMonths)

\* A row a request will write is in an open month, and so is the month it names.
InsertOK(job) ==
    job.do = "insert" =>
        /\ job.kind \in Kinds /\ job.row \in Row
        /\ job.row.status \in StatusesOf(job.kind) /\ job.row.employee \in EmployeeOf(job.kind)
        /\ job.row.month \in OpenMonths

UpdateOK(job) ==
    job.do = "update" =>
        /\ job.id \in Ids
        /\ rows[job.id] # None /\ rows[job.id].month \in OpenMonths
        /\ PatchOK(Kind[job.id], job.patch)

\* A group a request will write is in an open month, and so is the month it names; only
\* with new members does a group change its month, and a new one has a month.
GroupOK(job) ==
    job.do \in {"checkGroup", "writeGroup"} =>
        /\ job.group \in Groups
        /\ DOMAIN job.roster \subseteq Employees /\ job.roster \in [DOMAIN job.roster -> Nat]
        /\ groups[job.group] # None => groups[job.group].month \in OpenMonths
        /\ DOMAIN job.patch \subseteq {"month", "status"}
        /\ "month" \in DOMAIN job.patch => job.patch["month"] \in OpenMonths /\ job.roster # NoRoster
        /\ "status" \in DOMAIN job.patch => job.patch["status"] \in {"active", "disabled"}
        /\ groups[job.group] = None => job.patch \in GroupRow
        /\ job.roster # NoRoster => job.roster \in Rosters /\ validateMembers(job.roster)

JobOK(job) ==
    /\ job.do \in {"insert", "update", "checkGroup", "writeGroup"}
    /\ InsertOK(job) /\ UpdateOK(job) /\ GroupOK(job)

WorkOK ==
    /\ work = [r \in Requests |-> work[r]]
    /\ \A r \in Requests : work[r] # None => JobOK(work[r])

\* A month has one exchange rate, and one fee rate for each provider.
UniqueRates == \A id \in Ids : rows[id] # None => UniqueRate(id, rows[id])

IInv == TypeOK /\ WorkOK /\ UniqueRates /\ OneGroupPerMonth /\ MembersFollowTheirGroup

-----------------------------------------------------------------------------
(* The rows and jobs that operations make.                                 *)

\* A row with some columns replaced by values of their type is a row, with the month, the
\* status and the employee it was given or else those it had.
LEMMA PatchedRow ==
    ASSUME NEW row \in Row, NEW kind, NEW patch, ColumnsOK(kind, patch)
    PROVE  /\ Patched(row, patch) \in Row
           /\ Patched(row, patch).month
                = IF "month" \in DOMAIN patch THEN patch["month"] ELSE row.month
           /\ Patched(row, patch).status
                = IF "status" \in DOMAIN patch THEN patch["status"] ELSE row.status
           /\ Patched(row, patch).employee
                = IF "employee" \in DOMAIN patch THEN patch["employee"] ELSE row.employee
<1>1. DOMAIN row = Columns
  BY DEF Row, Columns
<1>2. \A c \in Columns :
         Patched(row, patch)[c] = IF c \in DOMAIN patch THEN patch[c] ELSE row[c]
  BY <1>1 DEF Patched
<1>3. "status" \in DOMAIN patch => patch["status"] \in {"draft", "active", "confirmed", "disabled"}
  BY DEF ColumnsOK, StatusesOf
<1>4. \A c \in Columns : Patched(row, patch)[c] \in
         CASE c = "month" -> Months
           [] c = "status" -> {"draft", "active", "confirmed", "disabled"}
           [] c = "employee" -> Employees \cup {None}
           [] c = "key" -> Providers \cup Configs \cup {None}
           [] OTHER -> Nat
  BY <1>2, <1>3 DEF Row, Columns, ColumnsOK, EmployeeOf
<1>5. Patched(row, patch) = [c \in Columns |-> Patched(row, patch)[c]]
  BY <1>1 DEF Patched
<1>6. Patched(row, patch) \in Row
  BY <1>4, <1>5 DEF Row, Columns
<1> QED
  BY <1>2, <1>6 DEF Columns

\* A row is inserted as it was submitted.
LEMMA InsertionIsOK ==
    ASSUME NEW kind \in Kinds, NEW patch, PatchOK(kind, patch),
           "month" \in DOMAIN patch, "status" \in DOMAIN patch,
           "employee" \in DOMAIN patch \/ EmployeeOf(kind) # Employees
    PROVE  JobOK(Insertion(kind, patch))
<1> DEFINE row == [Blank EXCEPT !.month = patch["month"]]
<1>1. row \in Row /\ DOMAIN row = Columns
  BY DEF Row, Blank, Columns, PatchOK, ColumnsOK
<1>2. Patched(Blank, patch) = Patched(row, patch)
  BY DEF Patched, Blank, Columns
<1>3. /\ Patched(Blank, patch) \in Row
      /\ Patched(Blank, patch).month \in OpenMonths
      /\ Patched(Blank, patch).status \in StatusesOf(kind)
      /\ Patched(Blank, patch).employee \in EmployeeOf(kind)
  BY <1>1, <1>2, PatchedRow DEF PatchOK, ColumnsOK, EmployeeOf, Blank
<1> QED
  BY <1>3 DEF JobOK, InsertOK, UpdateOK, GroupOK, Insertion

\* What was let through as an update has both months open.
LEMMA UpdateIsOK ==
    ASSUME NEW r, NEW id \in Ids, NEW patch, TypeOK, ColumnsOK(Kind[id], patch),
           StartUpdate(r, id, patch)
    PROVE  \E job : JobOK(job) /\ Start(r, job)
<1>1. rows[id] # None /\ rows[id] \in Row /\ BothWritable(id, patch)
  BY DEF StartUpdate, TypeOK
<1>2. rows[id].month \in OpenMonths /\ PatchOK(Kind[id], patch)
  BY <1>1 DEF BothWritable, NextMonth, Writable, OpenMonths, Row, PatchOK, ColumnsOK
<1>3. JobOK(Change(id, patch))
  BY <1>1, <1>2 DEF JobOK, InsertOK, UpdateOK, GroupOK, Change
<1> QED
  BY <1>3 DEF StartUpdate

\* Each patch that names one column, by the column.
LEMMA OneColumn ==
    ASSUME NEW kind, NEW v
    PROVE  /\ v \in Months => ColumnsOK(kind, Column("month", v))
           /\ v \in StatusesOf(kind) => ColumnsOK(kind, Column("status", v))
           /\ v \in EmployeeOf(kind) => ColumnsOK(kind, Column("employee", v))
           /\ v \in Providers \cup Configs => ColumnsOK(kind, Column("key", v))
           /\ v \in Nat => ColumnsOK(kind, Column("amount", v))
  BY DEF ColumnsOK, Column, Columns

\* Every request but one for a configuration only leaves a job, and only if the months it
\* is about are open.
LEMMA IncomesStart ==
    ASSUME TypeOK, NEW r, ManualIncomeRecords(r)
    PROVE  \E job : JobOK(job) /\ Start(r, job)
<1>1. CASE createIncome(r)
  <2>1. PICK m \in Months, e \in Employees \cup {None}, a \in Amounts, s \in {"draft", "confirmed"} :
           /\ Writable(m)
           /\ Start(r, Insertion("income",
                   [month |-> m, employee |-> e, amount |-> a, status |-> s]))
    BY <1>1 DEF createIncome
  <2>2. PatchOK("income", [month |-> m, employee |-> e, amount |-> a, status |-> s])
    BY <2>1, InputsAssumption DEF PatchOK, ColumnsOK, Columns, OpenMonths, Writable, StatusesOf,
        EmployeeOf
  <2> QED
    BY <2>1, <2>2, InsertionIsOK, NoneIsNoRow DEF Kinds, EmployeeOf
<1>2. CASE updateIncome(r)
  <2>1. PICK id \in Of("income"), patch \in IncomePatches : StartUpdate(r, id, patch)
    BY <1>2 DEF updateIncome
  <2>2. ColumnsOK("income", patch)
    BY OneColumn, InputsAssumption DEF IncomePatches, EmployeeOf
  <2> QED
    BY <2>1, <2>2, UpdateIsOK DEF Of
<1>3. CASE confirmIncome(r) \/ disableIncome(r)
  <2>1. PICK id \in Of("income"), s \in {"confirmed", "disabled"} :
           StartUpdate(r, id, Column("status", s))
    BY <1>3 DEF confirmIncome, disableIncome, StartStatus
  <2>2. ColumnsOK("income", Column("status", s))
    BY OneColumn DEF StatusesOf
  <2> QED
    BY <2>1, <2>2, UpdateIsOK DEF Of
<1> QED
  BY <1>1, <1>2, <1>3 DEF ManualIncomeRecords

\* Card spend: the spend computed from the entered columns is a column too.
LEMMA CardSpendStarts ==
    ASSUME TypeOK, NEW r, ManualCardSpendEntries(r)
    PROVE  \E job : JobOK(job) /\ Start(r, job)
<1>1. \A a, f \in Nat : calculateActualSpend(a, f) \in Nat
  BY InputsAssumption DEF calculateActualSpend
<1>2. CASE createCardSpend(r)
  <2>1. PICK m \in Months, e \in Employees, a \in Amounts, f \in Rates, s \in {"draft", "confirmed"} :
           /\ Writable(m)
           /\ Start(r, Insertion("cardSpend",
                   [month |-> m, employee |-> e, settled |-> a, fee |-> f,
                    amount |-> calculateActualSpend(a, f), status |-> s]))
    BY <1>2 DEF createCardSpend
  <2>2. PatchOK("cardSpend", [month |-> m, employee |-> e, settled |-> a, fee |-> f,
                              amount |-> calculateActualSpend(a, f), status |-> s])
    BY <1>1, <2>1, InputsAssumption DEF PatchOK, ColumnsOK, Columns, OpenMonths, Writable, StatusesOf,
        EmployeeOf
  <2> QED
    BY <2>1, <2>2, InsertionIsOK, NoneIsNoRow DEF Kinds, EmployeeOf
<1>3. CASE updateCardSpend(r)
  <2>1. PICK id \in Of("cardSpend") :
           rows[id] # None /\ \E patch \in CardSpendPatches(rows[id]) : StartUpdate(r, id, patch)
    BY <1>3 DEF updateCardSpend
  <2>2. PICK patch \in CardSpendPatches(rows[id]) : StartUpdate(r, id, patch)
    BY <2>1
  <2>3. rows[id].fee \in Nat /\ rows[id].settled \in Nat
    BY <2>1 DEF TypeOK, Of, Row
  <2>4. ASSUME NEW a \in Amounts
        PROVE  ColumnsOK("cardSpend",
                    [settled |-> a, amount |-> calculateActualSpend(a, rows[id].fee)])
    BY <1>1, <2>3, InputsAssumption DEF ColumnsOK, Columns
  <2>5. ASSUME NEW f \in Rates
        PROVE  ColumnsOK("cardSpend",
                    [fee |-> f, amount |-> calculateActualSpend(rows[id].settled, f)])
    BY <1>1, <2>3, InputsAssumption DEF ColumnsOK, Columns
  <2>6. ColumnsOK("cardSpend", patch)
    BY <2>2, <2>4, <2>5, OneColumn DEF CardSpendPatches, EmployeeOf
  <2> QED
    BY <2>2, <2>6, UpdateIsOK DEF Of
<1>4. CASE confirmCardSpend(r) \/ disableCardSpend(r)
  <2>1. PICK id \in Of("cardSpend"), s \in {"confirmed", "draft"} :
           StartUpdate(r, id, Column("status", s))
    BY <1>4 DEF confirmCardSpend, disableCardSpend, StartStatus
  <2>2. ColumnsOK("cardSpend", Column("status", s))
    BY OneColumn DEF StatusesOf
  <2> QED
    BY <2>1, <2>2, UpdateIsOK DEF Of
<1> QED
  BY <1>2, <1>3, <1>4 DEF ManualCardSpendEntries

\* Salary items.
LEMMA SalaryItemsStart ==
    ASSUME TypeOK, NEW r, MonthlySalaryManualItems(r)
    PROVE  \E job : JobOK(job) /\ Start(r, job)
<1>1. CASE createSalaryItem(r)
  <2>1. PICK m \in Months, e \in Employees, c \in Configs, a \in Amounts :
           /\ Writable(m)
           /\ Start(r, Insertion("salaryItem",
                   [month |-> m, employee |-> e, key |-> c, amount |-> a, status |-> "active"]))
    BY <1>1 DEF createSalaryItem
  <2>2. PatchOK("salaryItem", [month |-> m, employee |-> e, key |-> c, amount |-> a,
                               status |-> "active"])
    BY <2>1, InputsAssumption DEF PatchOK, ColumnsOK, Columns, OpenMonths, Writable, StatusesOf,
        EmployeeOf
  <2> QED
    BY <2>1, <2>2, InsertionIsOK, NoneIsNoRow DEF Kinds, EmployeeOf
<1>2. CASE updateSalaryItem(r)
  <2>1. PICK id \in Of("salaryItem"), patch \in SalaryItemPatches : StartUpdate(r, id, patch)
    BY <1>2 DEF updateSalaryItem
  <2>2. ColumnsOK("salaryItem", patch)
    BY OneColumn, InputsAssumption DEF SalaryItemPatches, EmployeeOf
  <2> QED
    BY <2>1, <2>2, UpdateIsOK DEF Of
<1>3. CASE disableSalaryItem(r)
  <2>1. PICK id \in Of("salaryItem") : StartUpdate(r, id, Column("status", "disabled"))
    BY <1>3 DEF disableSalaryItem, StartStatus
  <2>2. ColumnsOK("salaryItem", Column("status", "disabled"))
    BY OneColumn DEF StatusesOf
  <2> QED
    BY <2>1, <2>2, UpdateIsOK DEF Of
<1> QED
  BY <1>1, <1>2, <1>3 DEF MonthlySalaryManualItems

\* Carried losses.
LEMMA LossesStart ==
    ASSUME TypeOK, NEW r, HistoricalNegativeProfits(r)
    PROVE  \E job : JobOK(job) /\ Start(r, job)
<1>1. CASE createLoss(r)
  <2>1. PICK m \in Months, e \in Employees, a \in Amounts, s \in {"active", "disabled"} :
           /\ Writable(m)
           /\ Start(r, Insertion("loss",
                   [month |-> m, employee |-> e, amount |-> a, status |-> s]))
    BY <1>1 DEF createLoss
  <2>2. PatchOK("loss", [month |-> m, employee |-> e, amount |-> a, status |-> s])
    BY <2>1, InputsAssumption DEF PatchOK, ColumnsOK, Columns, OpenMonths, Writable, StatusesOf,
        EmployeeOf
  <2> QED
    BY <2>1, <2>2, InsertionIsOK, NoneIsNoRow DEF Kinds, EmployeeOf
<1>2. CASE updateLoss(r)
  <2>1. PICK id \in Of("loss"), patch \in LossPatches : StartUpdate(r, id, patch)
    BY <1>2 DEF updateLoss
  <2>2. ColumnsOK("loss", patch)
    BY OneColumn, InputsAssumption DEF LossPatches, EmployeeOf
  <2> QED
    BY <2>1, <2>2, UpdateIsOK DEF Of
<1>3. CASE disableLoss(r)
  <2>1. PICK id \in Of("loss") : StartUpdate(r, id, Column("status", "disabled"))
    BY <1>3 DEF disableLoss, StartStatus
  <2>2. ColumnsOK("loss", Column("status", "disabled"))
    BY OneColumn DEF StatusesOf
  <2> QED
    BY <2>1, <2>2, UpdateIsOK DEF Of
<1> QED
  BY <1>1, <1>2, <1>3 DEF HistoricalNegativeProfits

\* Exchange and fee rates.
LEMMA RatesStart ==
    ASSUME TypeOK, NEW r, MonthlyExchangeRates(r) \/ MonthlyCardProviderFeeRates(r)
    PROVE  \E job : JobOK(job) /\ Start(r, job)
<1>1. CASE createExchangeRate(r)
  <2>1. PICK m \in Months, a \in Rates, s \in RateStatuses :
           /\ Writable(m)
           /\ Start(r, Insertion("exchangeRate", [month |-> m, amount |-> a, status |-> s]))
    BY <1>1 DEF createExchangeRate
  <2>2. PatchOK("exchangeRate", [month |-> m, amount |-> a, status |-> s])
    BY <2>1, InputsAssumption
    DEF PatchOK, ColumnsOK, Columns, OpenMonths, Writable, StatusesOf, RateStatuses, EmployeeOf
  <2> QED
    BY <2>1, <2>2, InsertionIsOK, NoneIsNoRow DEF Kinds, EmployeeOf
<1>2. CASE createFeeRate(r)
  <2>1. PICK m \in Months, p \in Providers, a \in Rates, s \in RateStatuses :
           /\ Writable(m)
           /\ Start(r, Insertion("feeRate",
                   [month |-> m, key |-> p, amount |-> a, status |-> s]))
    BY <1>2 DEF createFeeRate
  <2>2. PatchOK("feeRate", [month |-> m, key |-> p, amount |-> a, status |-> s])
    BY <2>1, InputsAssumption
    DEF PatchOK, ColumnsOK, Columns, OpenMonths, Writable, StatusesOf, RateStatuses, EmployeeOf
  <2> QED
    BY <2>1, <2>2, InsertionIsOK, NoneIsNoRow DEF Kinds, EmployeeOf
<1>3. CASE updateExchangeRate(r) \/ disableExchangeRate(r)
  <2>1. PICK id \in Of("exchangeRate"), patch \in ExchangeRatePatches : StartUpdate(r, id, patch)
    BY <1>3 DEF updateExchangeRate, disableExchangeRate, StartStatus, ExchangeRatePatches, RateStatuses
  <2>2. ColumnsOK("exchangeRate", patch)
    BY OneColumn, InputsAssumption DEF ExchangeRatePatches, RateStatuses, StatusesOf
  <2> QED
    BY <2>1, <2>2, UpdateIsOK DEF Of
<1>4. CASE updateFeeRate(r) \/ disableFeeRate(r)
  <2>1. PICK id \in Of("feeRate"), patch \in FeeRatePatches : StartUpdate(r, id, patch)
    BY <1>4 DEF updateFeeRate, disableFeeRate, StartStatus, FeeRatePatches, RateStatuses
  <2>2. ColumnsOK("feeRate", patch)
    BY OneColumn, InputsAssumption DEF FeeRatePatches, RateStatuses, StatusesOf
  <2> QED
    BY <2>1, <2>2, UpdateIsOK DEF Of
<1> QED
  BY <1>1, <1>2, <1>3, <1>4 DEF MonthlyExchangeRates, MonthlyCardProviderFeeRates

\* Performance groups.
LEMMA GroupsStart ==
    ASSUME TypeOK, NEW r, PerformanceGroups(r)
    PROVE  \E job : JobOK(job) /\ Start(r, job)
<1> USE DEF JobOK, InsertOK, UpdateOK, GroupOK, GroupJob
<1>1. CASE createGroup(r)
  <2>1. PICK g \in Groups, m \in Months, roster \in Rosters :
           /\ groups[g] = None /\ validateMembers(roster) /\ Writable(m)
           /\ Start(r, GroupJob("checkGroup", g, [month |-> m, status |-> "active"], roster, m))
    BY <1>1 DEF createGroup
  <2>2. roster # NoRoster
    BY <2>1 DEF validateMembers, NoRoster
  <2>3. DOMAIN roster \subseteq Employees /\ roster \in [DOMAIN roster -> Nat]
    BY InputsAssumption
  <2>4. [month |-> m, status |-> "active"] \in GroupRow
    BY DEF GroupRow
  <2>5. JobOK(GroupJob("checkGroup", g, [month |-> m, status |-> "active"], roster, m))
    BY <2>1, <2>2, <2>3, <2>4 DEF OpenMonths, Writable
  <2> QED
    BY <2>1, <2>5
<1>2. CASE updateGroup(r)
  <2>1. PICK g \in Groups, roster \in Rosters \cup {NoRoster},
             patch \in {NoColumns} \cup {Column("month", m) : m \in Months}
                         \cup {Column("status", s) : s \in {"active", "disabled"}} :
           /\ groups[g] # None
           /\ roster = NoRoster => "month" \notin DOMAIN patch
           /\ roster # NoRoster => validateMembers(roster)
           /\ Writable(groups[g].month) /\ Writable(Patched(groups[g], patch).month)
           /\ Start(r, GroupJob(IF roster = NoRoster THEN "writeGroup" ELSE "checkGroup",
                                g, patch, roster, Patched(groups[g], patch).month))
    BY <1>2 DEF updateGroup
  <2> DEFINE job == GroupJob(IF roster = NoRoster THEN "writeGroup" ELSE "checkGroup",
                             g, patch, roster, Patched(groups[g], patch).month)
  <2>2. DOMAIN roster \subseteq Employees /\ roster \in [DOMAIN roster -> Nat]
    BY InputsAssumption DEF NoRoster
  <2>3. groups[g] \in GroupRow /\ groups[g].month \in OpenMonths
    BY <2>1 DEF TypeOK, GroupRow, OpenMonths, Writable
  <2>4. /\ DOMAIN patch \subseteq {"month", "status"}
        /\ "month" \in DOMAIN patch => patch["month"] \in Months
        /\ "status" \in DOMAIN patch => patch["status"] \in {"active", "disabled"}
    BY DEF NoColumns, Column
  <2>5. "month" \in DOMAIN patch => patch["month"] \in OpenMonths
    BY <2>1, <2>3, <2>4 DEF Patched, GroupRow, OpenMonths, Writable
  <2>6. JobOK(job)
    BY <2>1, <2>2, <2>3, <2>4, <2>5
  <2> QED
    BY <2>1, <2>6
<1>3. CASE disableGroup(r)
  <2>1. PICK g \in Groups :
           /\ groups[g] # None /\ Writable(groups[g].month)
           /\ Start(r, GroupJob("writeGroup", g, Column("status", "disabled"), NoRoster,
                                groups[g].month))
    BY <1>3 DEF disableGroup
  <2>2. groups[g].month \in OpenMonths
    BY <2>1 DEF TypeOK, GroupRow, OpenMonths, Writable
  <2>3. JobOK(GroupJob("writeGroup", g, Column("status", "disabled"), NoRoster,
                       groups[g].month))
    BY <2>1, <2>2 DEF Column, NoRoster
  <2> QED
    BY <2>1, <2>3
<1> QED
  BY <1>1, <1>2, <1>3 DEF PerformanceGroups

\* A change of a configuration, which has no month, writes at once.
LEMMA ConfigsChange ==
    ASSUME TypeOK, NEW r, SalaryItemConfigs(r)
    PROVE  \E c \in Configs, config \in ConfigRow : ChangeConfig(r, c, config)
<1>1. CASE createConfig(r) \/ updateConfig(r)
  <2>1. PICK c \in Configs, t \in {"addition", "deduction"}, s \in {"active", "disabled"} :
           ChangeConfig(r, c, [type |-> t, status |-> s])
    BY <1>1 DEF createConfig, updateConfig
  <2>2. [type |-> t, status |-> s] \in ConfigRow
    BY DEF ConfigRow
  <2> QED
    BY <2>1, <2>2
<1>2. CASE disableConfig(r)
  <2>1. PICK c \in Configs :
           configs[c] # None /\ ChangeConfig(r, c, [configs[c] EXCEPT !.status = "disabled"])
    BY <1>2 DEF disableConfig
  <2>2. [configs[c] EXCEPT !.status = "disabled"] \in ConfigRow
    BY <2>1 DEF TypeOK, ConfigRow
  <2> QED
    BY <2>1, <2>2
<1> QED
  BY <1>1, <1>2 DEF SalaryItemConfigs

-----------------------------------------------------------------------------
(* The steps.                                                              *)

Kept ==
    \A m \in locked :
        /\ RowsAt(m)' = RowsAt(m)
        /\ {x \in members : x.month = m}' = {x \in members : x.month = m}

\* The tables hold what the services leave before any request.
LEMMA InputsInit == Init => IInv
<1> SUFFICES ASSUME Init PROVE IInv
  OBVIOUS
<1>1. TypeOK
  <2>1. /\ rows \in [Ids -> Row \cup {None}]
        /\ \A id \in Ids : rows[id] # None =>
              rows[id].status \in StatusesOf(Kind[id]) /\ rows[id].employee \in EmployeeOf(Kind[id])
    BY InitialAssumption DEF Init
  <2>2. groups \in [Groups -> GroupRow \cup {None}] /\ members \subseteq Member
    BY InitialAssumption DEF Init
  <2>3. configs \in [Configs -> ConfigRow \cup {None}] /\ started \in 0 .. MaxOperations
    BY InitialAssumption, InputsAssumption DEF Init
  <2> QED
    BY <2>1, <2>2, <2>3 DEF TypeOK
<1>2. WorkOK
  BY DEF Init, WorkOK
<1>3. OneGroupPerMonth /\ MembersFollowTheirGroup
  BY InitialAssumption DEF Init, OneGroupPerMonth, MembersFollowTheirGroup
<1>4. UniqueRates
  BY InitialAssumption DEF Init, UniqueRates, UniqueRate, Of
<1> QED
  BY <1>1, <1>2, <1>3, <1>4 DEF IInv

\* A step that only leaves or drops a job, or moves it on, changes no table.
LEMMA OnlyWork ==
    ASSUME IInv, NEW r, NEW job, job # None => JobOK(job),
           work' = [work EXCEPT ![r] = job],
           started' \in 0 .. MaxOperations,
           UNCHANGED <<rows, groups, members, configs, locked>>
    PROVE  IInv' /\ Kept
<1>1. TypeOK' /\ UniqueRates' /\ OneGroupPerMonth' /\ MembersFollowTheirGroup'
  BY DEF IInv, TypeOK, UniqueRates, UniqueRate, OneGroupPerMonth, MembersFollowTheirGroup
<1>2. WorkOK'
  <2>1. work' = [q \in Requests |-> work'[q]]
    BY DEF IInv, WorkOK
  <2>2. ASSUME NEW q \in Requests, work'[q] # None
        PROVE  JobOK(work[q])'
    <3>1. JobOK(work'[q])
      BY <2>2 DEF IInv, WorkOK
    <3> QED
      BY <3>1 DEF JobOK, InsertOK, UpdateOK, GroupOK, PatchOK, OpenMonths
  <2> QED
    BY <2>1, <2>2 DEF WorkOK
<1>3. Kept
  BY DEF Kept, RowsAt
<1> QED
  BY <1>1, <1>2, <1>3 DEF IInv

\* A step that writes one row of an open month, or is refused by an index.
LEMMA OneRow ==
    ASSUME IInv, NEW r, NEW id \in Ids, NEW row \in Row,
           row.status \in StatusesOf(Kind[id]), row.employee \in EmployeeOf(Kind[id]),
           row.month \in OpenMonths,
           rows[id] # None => rows[id].month \in OpenMonths,
           rows' = rows \/ (UniqueRate(id, row) /\ rows' = [rows EXCEPT ![id] = row]),
           work' = [work EXCEPT ![r] = None],
           UNCHANGED <<groups, members, configs, started, locked>>
    PROVE  IInv' /\ Kept
<1>1. row # None
  BY NoneIsNoRow
<1>2. rows \in [Ids -> Row \cup {None}]
  BY DEF IInv, TypeOK
<1>3. TypeOK' /\ OneGroupPerMonth' /\ MembersFollowTheirGroup'
  <2>1. rows' \in [Ids -> Row \cup {None}]
    BY <1>2
  <2>2. \A i \in Ids : rows'[i] # None =>
            rows'[i].status \in StatusesOf(Kind[i]) /\ rows'[i].employee \in EmployeeOf(Kind[i])
    BY <1>2 DEF IInv, TypeOK
  <2> QED
    BY <2>1, <2>2 DEF IInv, TypeOK, OneGroupPerMonth, MembersFollowTheirGroup
<1>4. \A i \in Ids : rows[i] # None /\ rows[i].month \in OpenMonths
                        => rows'[i] # None /\ rows'[i].month \in OpenMonths'
  BY <1>1, <1>2 DEF OpenMonths
<1>5. WorkOK'
  <2>1. work' = [q \in Requests |-> work'[q]]
    BY DEF IInv, WorkOK
  <2>2. ASSUME NEW q \in Requests, work'[q] # None
        PROVE  JobOK(work[q])'
    <3>1. work'[q] = work[q] /\ JobOK(work[q])
      BY <2>2 DEF IInv, WorkOK
    <3>2. InsertOK(work[q])' /\ GroupOK(work[q])'
      BY <3>1 DEF JobOK, InsertOK, GroupOK, OpenMonths
    <3>3. UpdateOK(work[q])'
      BY <3>1, <1>4 DEF JobOK, UpdateOK, PatchOK, OpenMonths
    <3> QED
      BY <3>1, <3>2, <3>3 DEF JobOK
  <2> QED
    BY <2>1, <2>2 DEF WorkOK
<1>6. Kept
  <2>1. ASSUME NEW m \in locked PROVE RowsAt(m)' = RowsAt(m)
    <3>1. \A i \in Ids : (rows'[i] # None /\ rows'[i].month = m)
                            <=> (rows[i] # None /\ rows[i].month = m)
      BY <1>1, <1>2, <2>1 DEF OpenMonths
    <3>2. \A i \in Ids : rows[i] # None /\ rows[i].month = m => rows'[i] = rows[i]
      BY <1>2, <2>1 DEF OpenMonths
    <3> QED
      BY <3>1, <3>2 DEF RowsAt
  <2> QED
    BY <2>1 DEF Kept
<1>7. UniqueRates'
  <2>1. CASE rows' = rows
    BY <2>1 DEF IInv, UniqueRates, UniqueRate
  <2>2. CASE UniqueRate(id, row) /\ rows' = [rows EXCEPT ![id] = row]
    <3> SUFFICES ASSUME NEW i \in Ids, NEW j \in Of(Kind[i]) \ {i}, rows'[i] # None,
                        rows'[j] # None,
                        Kind[i] \in {"exchangeRate", "feeRate"}
                 PROVE  <<rows'[j].month, rows'[j].key>> # <<rows'[i].month, rows'[i].key>>
      BY DEF UniqueRates, UniqueRate
    <3>1. /\ rows'[id] = row /\ \A k \in Ids \ {id} : rows'[k] = rows[k]
          /\ j \in Ids /\ Kind[j] = Kind[i]
      BY <1>2, <2>2 DEF Of
    <3>2. CASE i = id \/ j = id
      BY <2>2, <3>1, <3>2 DEF UniqueRate, Of
    <3>3. CASE i # id /\ j # id
      BY <3>1, <3>3 DEF IInv, UniqueRates, UniqueRate, Of
    <3> QED
      BY <3>2, <3>3
  <2> QED
    BY <2>1, <2>2
<1> QED
  BY <1>3, <1>5, <1>6, <1>7 DEF IInv

\* A row that is inserted is as it was let through.
LEMMA InsertRowKeeps ==
    ASSUME IInv, NEW r \in Requests, InsertRow(r)
    PROVE  IInv' /\ Kept
<1>1. work[r] # None /\ JobOK(work[r]) /\ work[r].do = "insert"
  BY DEF InsertRow, IInv, WorkOK
<1>2. PICK id \in Of(work[r].kind) :
         /\ rows[id] = None
         /\ \/ rows' = rows
            \/ UniqueRate(id, work[r].row) /\ rows' = [rows EXCEPT ![id] = work[r].row]
  BY DEF InsertRow
<1>3. id \in Ids /\ Kind[id] = work[r].kind
  BY <1>2 DEF Of
<1>4. /\ work[r].row \in Row /\ work[r].row.month \in OpenMonths
      /\ work[r].row.status \in StatusesOf(Kind[id])
      /\ work[r].row.employee \in EmployeeOf(Kind[id])
  BY <1>1, <1>3 DEF JobOK, InsertOK
<1>5. /\ work' = [work EXCEPT ![r] = None]
      /\ UNCHANGED <<groups, members, configs, started, locked>>
  BY DEF InsertRow
<1> QED
  BY <1>2, <1>3, <1>4, <1>5, OneRow

\* A row that is updated has the columns it has by then, but for the submitted ones.
LEMMA UpdateRowKeeps ==
    ASSUME IInv, NEW r \in Requests, UpdateRow(r)
    PROVE  IInv' /\ Kept
<1> DEFINE id == work[r].id
           row == Patched(rows[id], work[r].patch)
<1>1. work[r] # None /\ JobOK(work[r]) /\ work[r].do = "update"
  BY DEF UpdateRow, IInv, WorkOK
<1>2. id \in Ids /\ rows[id] # None /\ rows[id].month \in OpenMonths /\ PatchOK(Kind[id], work[r].patch)
  BY <1>1 DEF JobOK, UpdateOK
<1>3. /\ rows[id] \in Row /\ rows[id].status \in StatusesOf(Kind[id])
      /\ rows[id].employee \in EmployeeOf(Kind[id])
  BY <1>2 DEF IInv, TypeOK
<1>4. /\ row \in Row /\ row.month \in OpenMonths /\ row.status \in StatusesOf(Kind[id])
      /\ row.employee \in EmployeeOf(Kind[id])
  BY <1>2, <1>3, PatchedRow DEF PatchOK, ColumnsOK
<1>5. /\ rows' = rows \/ (UniqueRate(id, row) /\ rows' = [rows EXCEPT ![id] = row])
      /\ work' = [work EXCEPT ![r] = None]
      /\ UNCHANGED <<groups, members, configs, started, locked>>
  BY DEF UpdateRow
<1> QED
  BY <1>2, <1>4, <1>5, OneRow

\* The check for duplicate members passes a group on as it was submitted.
LEMMA CheckGroupKeeps ==
    ASSUME IInv, NEW r \in Requests, CheckGroup(r)
    PROVE  IInv' /\ Kept
<1>1. work[r] # None /\ JobOK(work[r]) /\ work[r].do = "checkGroup"
  BY DEF CheckGroup, IInv, WorkOK
<1>2. PICK job \in {None, [work[r] EXCEPT !.do = "writeGroup"]} :
         work' = [work EXCEPT ![r] = job]
  BY DEF CheckGroup
<1>3. JobOK([work[r] EXCEPT !.do = "writeGroup"])
  BY <1>1 DEF JobOK, InsertOK, UpdateOK, GroupOK
<1>4. started' \in 0 .. MaxOperations /\ UNCHANGED <<rows, groups, members, configs, locked>>
  BY DEF CheckGroup, IInv, TypeOK
<1> QED
  BY <1>2, <1>3, <1>4, OnlyWork

\* A job that is dropped leaves the tables as they are.
LEMMA AbandonKeeps ==
    ASSUME IInv, NEW r \in Requests, Abandon(r)
    PROVE  IInv' /\ Kept
<1>1. /\ work' = [work EXCEPT ![r] = None] /\ started' \in 0 .. MaxOperations
      /\ UNCHANGED <<rows, groups, members, configs, locked>>
  BY DEF Abandon, IInv, TypeOK
<1> QED
  BY <1>1, OnlyWork

\* The transaction of a group: its row moves among open months, and the members it has
\* afterwards are of the month the row is in.
LEMMA WriteGroupKeeps ==
    ASSUME IInv, NEW r \in Requests, WriteGroup(r)
    PROVE  IInv' /\ Kept
<1> DEFINE job == work[r]
           g == job.group
           row == IF groups[g] = None THEN job.patch ELSE Patched(groups[g], job.patch)
           after == KeptMembers(g, job)
                        \cup MemberRows(g, MemberMonth(row, job), job.roster)
<1>1. job # None /\ JobOK(job) /\ job.do = "writeGroup"
  BY DEF WriteGroup, IInv, WorkOK
<1>2. /\ g \in Groups
      /\ DOMAIN job.roster \subseteq Employees /\ job.roster \in [DOMAIN job.roster -> Nat]
      /\ groups[g] # None => groups[g].month \in OpenMonths
      /\ DOMAIN job.patch \subseteq {"month", "status"}
      /\ "month" \in DOMAIN job.patch => job.patch["month"] \in OpenMonths /\ job.roster # NoRoster
      /\ "status" \in DOMAIN job.patch => job.patch["status"] \in {"active", "disabled"}
      /\ groups[g] = None => job.patch \in GroupRow
  BY <1>1 DEF JobOK, GroupOK
<1>3. groups[g] # None => groups[g] \in GroupRow
  BY <1>2 DEF IInv, TypeOK
<1>4. row \in GroupRow /\ row # None /\ row.month \in OpenMonths /\ row.month \in Months
  <2>1. CASE groups[g] = None
    BY <1>2, <2>1, NoneIsNoRow DEF GroupRow, OpenMonths
  <2>2. CASE groups[g] # None
    <3>1. row = [month |-> row.month, status |-> row.status]
      BY <1>3, <2>2 DEF Patched, GroupRow
    <3>2. row.month \in OpenMonths /\ row.status \in {"active", "disabled"}
      BY <1>2, <1>3, <2>2 DEF Patched, GroupRow
    <3> QED
      BY <3>1, <3>2, NoneIsNoRow DEF GroupRow, OpenMonths
  <2> QED
    BY <2>1, <2>2
<1>5. job.roster = NoRoster /\ groups[g] # None => row.month = groups[g].month
  BY <1>2, <1>3 DEF Patched, GroupRow
<1>6. ASSUME NEW x \in after
      PROVE  \/ x \in members /\ (x.group = g => row.month = x.month)
             \/ x \in Member /\ x.group = g /\ x.month = row.month
  <2>1. CASE x \in KeptMembers(g, job)
    <3>1. x \in members /\ (x.group = g => job.roster = NoRoster)
      BY <2>1 DEF KeptMembers, MembersOf
    <3> QED
      BY <3>1, <1>5 DEF IInv, MembersFollowTheirGroup
  <2>2. CASE x \in MemberRows(g, MemberMonth(row, job), job.roster)
    <3>1. PICK e \in DOMAIN job.roster :
             x = [group |-> g, month |-> row.month, employee |-> e,
                  share |-> StoredShare(job.roster[e])]
      BY <2>2 DEF MemberRows, MemberMonth
    <3>2. job.roster[e] \in Nat
      BY <1>2
    <3>3. StoredShare(job.roster[e]) \in Nat
      BY <3>2, InputsAssumption DEF StoredShare
    <3> QED
      BY <1>2, <1>4, <3>1, <3>3 DEF Member
  <2> QED
    BY <2>1, <2>2
<1>7. \A x \in members : x.group = g => groups[g] # None /\ x.month = groups[g].month
  BY DEF IInv, MembersFollowTheirGroup
<1>8. \A x \in members \ after : x.group = g
  BY DEF KeptMembers, MembersOf
<1>9. /\ \/ UNCHANGED <<members, groups>>
         \/ IndexAllows(after) /\ members' = after /\ groups' = [groups EXCEPT ![g] = row]
      /\ work' = [work EXCEPT ![r] = None]
      /\ UNCHANGED <<rows, configs, started, locked>>
  BY DEF WriteGroup
<1> HIDE DEF job, g, row, after
<1>10. CASE UNCHANGED <<members, groups>>
  <2>1. started' \in 0 .. MaxOperations
    BY <1>9 DEF IInv, TypeOK
  <2> QED
    BY <1>9, <1>10, <2>1, OnlyWork
<1>11. CASE IndexAllows(after) /\ members' = after /\ groups' = [groups EXCEPT ![g] = row]
  <2>1. groups \in [Groups -> GroupRow \cup {None}] /\ members \subseteq Member
    BY DEF IInv, TypeOK
  <2>2. /\ groups' \in [Groups -> GroupRow \cup {None}]
        /\ groups'[g] = row /\ \A h \in Groups \ {g} : groups'[h] = groups[h]
    BY <1>2, <1>4, <1>11, <2>1
  <2>3. members' \subseteq Member
    BY <1>6, <1>11, <2>1
  <2>4. TypeOK'
    BY <1>9, <2>2, <2>3 DEF IInv, TypeOK
  <2>5. OneGroupPerMonth'
    BY <1>11 DEF IndexAllows, OneGroupPerMonth
  <2>6. MembersFollowTheirGroup'
    <3> SUFFICES ASSUME NEW x \in after
                 PROVE  groups'[x.group] # None /\ x.month = groups'[x.group].month
      BY <1>11 DEF MembersFollowTheirGroup
    <3>1. CASE x.group = g
      BY <1>4, <1>6, <2>2, <3>1
    <3>2. CASE x.group # g
      <4>1. x \in members /\ x.group \in Groups
        BY <1>6, <2>1, <3>2 DEF Member
      <4> QED
        BY <2>2, <3>2, <4>1 DEF IInv, MembersFollowTheirGroup
    <3> QED
      BY <3>1, <3>2
  <2>7. WorkOK'
    <3>1. work' = [q \in Requests |-> work'[q]]
      BY <1>9 DEF IInv, WorkOK
    <3>2. ASSUME NEW q \in Requests, work'[q] # None
          PROVE  JobOK(work[q])'
      <4>1. work'[q] = work[q] /\ JobOK(work[q])
        BY <1>9, <3>2 DEF IInv, WorkOK
      <4>2. InsertOK(work[q])' /\ UpdateOK(work[q])'
        BY <1>9, <4>1 DEF JobOK, InsertOK, UpdateOK, PatchOK, OpenMonths
      <4>3. GroupOK(work[q])'
        BY <1>4, <1>9, <2>2, <4>1 DEF JobOK, GroupOK, OpenMonths
      <4> QED
        BY <4>1, <4>2, <4>3 DEF JobOK
    <3> QED
      BY <3>1, <3>2 DEF WorkOK
  <2>8. Kept
    <3>1. ASSUME NEW m \in locked
          PROVE  {x \in members : x.month = m}' = {x \in members : x.month = m}
      <4>1. ASSUME NEW x \in members, x.month = m PROVE x \in after
        BY <1>2, <1>7, <1>8, <3>1, <4>1 DEF OpenMonths
      <4>2. ASSUME NEW x \in after, x.month = m PROVE x \in members
        BY <1>4, <1>6, <3>1, <4>2 DEF OpenMonths
      <4> QED
        BY <1>11, <4>1, <4>2
    <3>2. ASSUME NEW m \in locked PROVE RowsAt(m)' = RowsAt(m)
      BY <1>9 DEF RowsAt
    <3> QED
      BY <3>1, <3>2 DEF Kept
  <2>9. UniqueRates'
    BY <1>9 DEF IInv, UniqueRates, UniqueRate
  <2> QED
    BY <2>4, <2>5, <2>6, <2>7, <2>8, <2>9 DEF IInv
<1> QED
  BY <1>9, <1>10, <1>11

\* An operation leaves a job or changes a configuration.
LEMMA OperationKeeps ==
    ASSUME IInv, NEW r \in Requests, Operation(r)
    PROVE  IInv' /\ Kept
<1>1. TypeOK
  BY DEF IInv
<1>2. CASE \E job : JobOK(job) /\ Start(r, job)
  <2>1. PICK job : JobOK(job) /\ Start(r, job)
    BY <1>2
  <2>2. started' \in 0 .. MaxOperations
    BY <1>1, <2>1, InputsAssumption DEF Start, TypeOK
  <2> QED
    BY <2>1, <2>2, OnlyWork DEF Start
<1>3. CASE SalaryItemConfigs(r)
  <2>1. PICK c \in Configs, config \in ConfigRow : ChangeConfig(r, c, config)
    BY <1>1, <1>3, ConfigsChange
  <2>2. started' \in 0 .. MaxOperations
    BY <1>1, <2>1, InputsAssumption DEF ChangeConfig, TypeOK
  <2>3. configs' \in [Configs -> ConfigRow \cup {None}]
    BY <1>1, <2>1 DEF ChangeConfig, TypeOK
  <2>4. UNCHANGED <<rows, groups, members, work, locked>>
    BY <2>1 DEF ChangeConfig
  <2>5. TypeOK' /\ UniqueRates' /\ OneGroupPerMonth' /\ MembersFollowTheirGroup'
    BY <2>2, <2>3, <2>4 DEF IInv, TypeOK, UniqueRates, UniqueRate, OneGroupPerMonth, MembersFollowTheirGroup
  <2>6. WorkOK'
    BY <2>4 DEF IInv, WorkOK, JobOK, InsertOK, UpdateOK, GroupOK, PatchOK, OpenMonths
  <2>7. Kept
    BY <2>4 DEF Kept, RowsAt
  <2> QED
    BY <2>5, <2>6, <2>7 DEF IInv
<1> QED
  BY <1>1, <1>2, <1>3, IncomesStart, CardSpendStarts, SalaryItemsStart, LossesStart,
     RatesStart, GroupsStart
  DEF Operation

\* Every step keeps the invariant and the locked months.
LEMMA InputsStep == IInv /\ [Next]_vars => IInv' /\ Kept
<1> SUFFICES ASSUME IInv, [Next]_vars PROVE IInv' /\ Kept
  OBVIOUS
<1>1. CASE UNCHANGED vars
  <2>1. TypeOK' /\ UniqueRates' /\ OneGroupPerMonth' /\ MembersFollowTheirGroup'
    BY <1>1 DEF vars, IInv, TypeOK, UniqueRates, UniqueRate, OneGroupPerMonth, MembersFollowTheirGroup
  <2>2. WorkOK'
    BY <1>1 DEF vars, IInv, WorkOK, JobOK, InsertOK, UpdateOK, GroupOK, PatchOK, OpenMonths
  <2>3. Kept
    BY <1>1 DEF vars, Kept, RowsAt
  <2> QED
    BY <2>1, <2>2, <2>3 DEF IInv
<1> QED
  BY <1>1, OperationKeeps, InsertRowKeeps, UpdateRowKeeps, CheckGroupKeeps, WriteGroupKeeps,
     AbandonKeeps
  DEF Next

-----------------------------------------------------------------------------
(* Sums over finite sets.  Induction is over the size of the set: among    *)
(* the sizes at which a claim fails there would be a least one.            *)

Less == {p \in Nat \X Nat : p[1] < p[2]}

\* A set of natural numbers has a least element: induction without an operator.
LEMMA Least ==
    ASSUME NEW T, T \subseteq Nat, T # {}
    PROVE  \E n \in T : \A m \in T : n <= m
<1>1. IsWellFoundedOn(Less, Nat)
  BY NatLessThanWellFounded DEF OpToRel, Less
<1>2. PICK n \in T : \A m \in T : ~(<<m, n>> \in Less)
  BY <1>1, WFMin, Zenon
<1>3. ASSUME NEW m \in T PROVE n <= m
  <2>1. m \in Nat /\ n \in Nat
    OBVIOUS
  <2>2. m < n => <<m, n>> \in Less
    BY <2>1 DEF Less
  <2> QED
    BY <1>2, <2>1, <2>2
<1> QED
  BY <1>3

(* The sum of f over a finite set D is defined by a recursive function on  *)
(* the subsets of D, which exists and is determined by its equations.      *)
SumOf(f, D) == MapThenSumSet(LAMBDA x : f[x], D)

SumsTo(iter, f, s) ==
    iter[s] = IF s = {} THEN 0 ELSE f[CHOOSE x \in s : TRUE] + iter[s \ {CHOOSE x \in s : TRUE}]

IsSum(iter, f, D) ==
    iter = [s \in SUBSET D |->
                IF s = {} THEN 0 ELSE f[CHOOSE x \in s : TRUE] + iter[s \ {CHOOSE x \in s : TRUE}]]

\* What is left of a set without one element is smaller.
LEMMA Smaller ==
    ASSUME NEW s, IsFiniteSet(s), s # {}
    PROVE  LET rest == s \ {CHOOSE x \in s : TRUE} IN
           /\ rest \in SUBSET s /\ IsFiniteSet(rest)
           /\ Cardinality(s) \in Nat /\ Cardinality(rest) \in Nat
           /\ Cardinality(rest) = Cardinality(s) - 1
  BY FS_RemoveElement, FS_CardinalityType

\* The recursive function exists...
LEMMA SumExists ==
    ASSUME NEW f, NEW D, IsFiniteSet(D)
    PROVE  \E iter : IsSum(iter, f, D)
<1> DEFINE Upto(n, g) == \A s \in SUBSET D : Cardinality(s) <= n => SumsTo(g, f, s)
           Bad == {n \in Nat : ~ \E g : Upto(n, g)}
<1>1. \A s \in SUBSET D : IsFiniteSet(s) /\ Cardinality(s) \in Nat
  BY FS_Subset, FS_CardinalityType
<1>2. Bad = {}
  <2> SUFFICES ASSUME Bad # {} PROVE FALSE
    OBVIOUS
  <2>1. PICK n \in Bad : \A m \in Bad : n <= m
    BY Least
  <2>2. CASE n = 0
    <3> DEFINE g == [s \in SUBSET D |-> 0]
    <3>1. ASSUME NEW s \in SUBSET D, Cardinality(s) <= 0 PROVE SumsTo(g, f, s)
      <4>1. s = {}
        BY <1>1, <3>1, FS_EmptySet
      <4> QED
        BY <4>1 DEF SumsTo
    <3> QED
      BY <2>2, <3>1
  <2>3. CASE n # 0
    <3>1. n - 1 \in Nat /\ n - 1 \notin Bad
      BY <2>1, <2>3
    <3>2. PICK g : Upto(n - 1, g)
      BY <3>1
    <3> DEFINE h == [s \in SUBSET D |->
                        IF Cardinality(s) < n THEN g[s]
                        ELSE IF s = {} THEN 0
                        ELSE f[CHOOSE x \in s : TRUE] + g[s \ {CHOOSE x \in s : TRUE}]]
    <3>3. ASSUME NEW s \in SUBSET D, Cardinality(s) <= n PROVE SumsTo(h, f, s)
      <4> DEFINE rest == s \ {CHOOSE x \in s : TRUE}
      <4>1. h[s] = IF s = {} THEN 0 ELSE f[CHOOSE x \in s : TRUE] + g[rest]
        <5>1. CASE Cardinality(s) < n
          <6>1. Cardinality(s) <= n - 1
            BY <1>1, <2>1, <5>1
          <6>2. SumsTo(g, f, s)
            BY <3>2, <6>1
          <6>3. h[s] = g[s]
            BY <5>1
          <6> HIDE DEF h
          <6> QED
            BY <6>2, <6>3 DEF SumsTo
        <5>2. CASE ~(Cardinality(s) < n)
          BY <5>2
        <5> QED
          BY <5>1, <5>2
      <4>2. CASE s = {}
        BY <4>1, <4>2 DEF SumsTo
      <4>3. CASE s # {}
        <5>1. rest \in SUBSET D /\ Cardinality(rest) < n
          BY <1>1, <3>3, <4>3, Smaller
        <5>2. h[rest] = g[rest]
          BY <5>1
        <5> HIDE DEF h, rest
        <5> QED
          BY <4>1, <4>3, <5>2 DEF SumsTo, rest
      <4> QED
        BY <4>2, <4>3
    <3> QED
      BY <2>1, <3>3
  <2> QED
    BY <2>2, <2>3
<1>3. PICK g : Upto(Cardinality(D), g)
  BY <1>1, <1>2
<1>4. \A s \in SUBSET D : SumsTo(g, f, s)
  BY <1>1, <1>3, FS_Subset
<1> DEFINE iter == [s \in SUBSET D |-> g[s]]
<1>5. \A s \in SUBSET D : SumsTo(iter, f, s)
  <2> SUFFICES ASSUME NEW s \in SUBSET D PROVE SumsTo(iter, f, s)
    OBVIOUS
  <2>1. s \ {CHOOSE x \in s : TRUE} \in SUBSET D
    OBVIOUS
  <2> QED
    BY <1>4, <2>1 DEF SumsTo
<1>6. IsSum(iter, f, D)
  BY <1>5 DEF SumsTo, IsSum
<1> QED
  BY <1>6

\* ...two of them agree on every set both are defined on...
LEMMA SumUnique ==
    ASSUME NEW f, NEW D, NEW T \in SUBSET D, IsFiniteSet(D), NEW g, NEW h,
           IsSum(g, f, D), IsSum(h, f, T)
    PROVE  g[T] = h[T]
<1> DEFINE Bad == {n \in Nat : \E s \in SUBSET T : Cardinality(s) = n /\ g[s] # h[s]}
<1>1. \A s \in SUBSET T : IsFiniteSet(s) /\ Cardinality(s) \in Nat
  BY FS_Subset, FS_CardinalityType
<1>2. Bad = {}
  <2> SUFFICES ASSUME Bad # {} PROVE FALSE
    OBVIOUS
  <2>1. PICK n \in Bad : \A m \in Bad : n <= m
    BY Least
  <2>2. PICK s \in SUBSET T : Cardinality(s) = n /\ g[s] # h[s]
    BY <2>1
  <2> DEFINE rest == s \ {CHOOSE x \in s : TRUE}
  <2>3. /\ g[s] = IF s = {} THEN 0 ELSE f[CHOOSE x \in s : TRUE] + g[rest]
        /\ h[s] = IF s = {} THEN 0 ELSE f[CHOOSE x \in s : TRUE] + h[rest]
    BY DEF IsSum
  <2>4. s # {} /\ g[rest] # h[rest]
    BY <2>2, <2>3
  <2>5. rest \in SUBSET T /\ Cardinality(rest) \in Nat /\ Cardinality(rest) = n - 1
    BY <1>1, <2>2, <2>4, Smaller
  <2>6. Cardinality(rest) \in Bad
    BY <2>4, <2>5
  <2> QED
    BY <2>1, <2>5, <2>6
<1> QED
  BY <1>1, <1>2

\* ...and the sum is the value of one.
LEMMA SumIsSum ==
    ASSUME NEW f, NEW D, IsFiniteSet(D)
    PROVE  \E iter : IsSum(iter, f, D) /\ SumOf(f, D) = iter[D]
<1>1. SumOf(f, D) = (CHOOSE iter : IsSum(iter, f, D))[D]
  BY DEF SumOf, MapThenSumSet, MapThenFoldSet, IsSum
<1>2. IsSum(CHOOSE iter : IsSum(iter, f, D), f, D)
  BY SumExists, Zenon
<1> QED
  BY <1>1, <1>2

\* The first step of a sum, and its value on the empty set.
LEMMA SumStep ==
    ASSUME NEW f, NEW D, IsFiniteSet(D)
    PROVE  LET c == CHOOSE x \in D : TRUE IN
           SumOf(f, D) = IF D = {} THEN 0 ELSE f[c] + SumOf(f, D \ {c})
<1> DEFINE c == CHOOSE x \in D : TRUE
<1>1. PICK g : IsSum(g, f, D) /\ SumOf(f, D) = g[D]
  BY SumIsSum
<1>2. IsFiniteSet(D \ {c}) /\ D \ {c} \in SUBSET D
  BY FS_RemoveElement
<1>3. PICK h : IsSum(h, f, D \ {c}) /\ SumOf(f, D \ {c}) = h[D \ {c}]
  BY <1>2, SumIsSum
<1>4. g[D \ {c}] = h[D \ {c}]
  BY <1>1, <1>2, <1>3, SumUnique
<1>5. g[D] = IF D = {} THEN 0 ELSE f[c] + g[D \ {c}]
  BY <1>1 DEF IsSum
<1> QED
  BY <1>1, <1>3, <1>4, <1>5

\* A sum of integers is an integer.
LEMMA SumOfIntegers ==
    ASSUME NEW f, NEW D, IsFiniteSet(D), \A x \in D : f[x] \in Int
    PROVE  SumOf(f, D) \in Int
<1> DEFINE Bad == {n \in Nat : \E s \in SUBSET D : Cardinality(s) = n /\ SumOf(f, s) \notin Int}
<1>1. \A s \in SUBSET D : IsFiniteSet(s) /\ Cardinality(s) \in Nat
  BY FS_Subset, FS_CardinalityType
<1>2. Bad = {}
  <2> SUFFICES ASSUME Bad # {} PROVE FALSE
    OBVIOUS
  <2>1. PICK n \in Bad : \A m \in Bad : n <= m
    BY Least
  <2>2. PICK s \in SUBSET D : Cardinality(s) = n /\ SumOf(f, s) \notin Int
    BY <2>1
  <2> DEFINE c == CHOOSE x \in s : TRUE
  <2>3. SumOf(f, s) = IF s = {} THEN 0 ELSE f[c] + SumOf(f, s \ {c})
    BY <1>1, SumStep
  <2>4. s # {}
    BY <2>2, <2>3
  <2>5. f[c] \in Int
    BY <2>4
  <2>6. s \ {c} \in SUBSET D /\ Cardinality(s \ {c}) \in Nat /\ Cardinality(s \ {c}) = n - 1
    BY <1>1, <2>2, <2>4, Smaller
  <2>7. SumOf(f, s \ {c}) \notin Int
    BY <2>2, <2>3, <2>4, <2>5
  <2> QED
    BY <2>1, <2>6, <2>7
<1> QED
  BY <1>1, <1>2

\* Any element of a set may be the one that is added first.
LEMMA SumWithout ==
    ASSUME NEW f, NEW D, IsFiniteSet(D), \A x \in D : f[x] \in Int, NEW e \in D
    PROVE  SumOf(f, D) = f[e] + SumOf(f, D \ {e})
<1> DEFINE Bad == {n \in Nat : \E s \in SUBSET D :
                      Cardinality(s) = n /\ (\E x \in s : SumOf(f, s) # f[x] + SumOf(f, s \ {x}))}
<1>1. \A s \in SUBSET D : IsFiniteSet(s) /\ Cardinality(s) \in Nat
  BY FS_Subset, FS_CardinalityType
<1>2. Bad = {}
  <2> SUFFICES ASSUME Bad # {} PROVE FALSE
    OBVIOUS
  <2>1. PICK n \in Bad : \A m \in Bad : n <= m
    BY Least
  <2>2. PICK s \in SUBSET D : Cardinality(s) = n /\ (\E x \in s : SumOf(f, s) # f[x] + SumOf(f, s \ {x}))
    BY <2>1
  <2>20. PICK x \in s : SumOf(f, s) # f[x] + SumOf(f, s \ {x})
    BY <2>2
  <2> DEFINE c == CHOOSE y \in s : TRUE
             both == s \ {c, x}
  <2>3. c \in s /\ SumOf(f, s) = f[c] + SumOf(f, s \ {c})
    BY <1>1, <2>2, <2>20, SumStep
  <2>4. c # x
    BY <2>20, <2>3
  <2>5. /\ s \ {c} \in SUBSET D /\ Cardinality(s \ {c}) = n - 1 /\ n - 1 \in Nat
        /\ s \ {x} \in SUBSET D /\ Cardinality(s \ {x}) = n - 1
    <3>1. IsFiniteSet(s) /\ n \in Nat /\ s # {}
      BY <1>1, <2>1, <2>2, <2>3
    <3>2. Cardinality(s \ {c}) = n - 1 /\ Cardinality(s \ {x}) = n - 1
      BY <2>2, <2>20, <2>3, <3>1, FS_RemoveElement
    <3>3. Cardinality(s \ {c}) \in Nat
      BY <1>1
    <3> QED
      BY <3>2, <3>3
  <2>6. n - 1 \notin Bad
    BY <2>1, <2>5
  <2>7. SumOf(f, s \ {c}) = f[x] + SumOf(f, both)
    <3>1. x \in s \ {c} /\ (s \ {c}) \ {x} = both
      BY <2>20, <2>4
    <3> QED
      BY <2>5, <2>6, <3>1
  <2>8. SumOf(f, s \ {x}) = f[c] + SumOf(f, both)
    <3>1. c \in s \ {x} /\ (s \ {x}) \ {c} = both
      BY <2>3, <2>4
    <3> QED
      BY <2>5, <2>6, <3>1
  <2>9. f[c] \in Int /\ f[x] \in Int /\ SumOf(f, both) \in Int
    <3>1. both \in SUBSET D /\ IsFiniteSet(both)
      BY <1>1
    <3> QED
      BY <2>20, <2>3, <3>1, SumOfIntegers
  <2> QED
    BY <2>2, <2>20, <2>3, <2>7, <2>8, <2>9
<1> QED
  BY <1>1, <1>2

\* Every function that is a sum on the subsets of D has the sum at D.
LEMMA SumChosen ==
    ASSUME NEW f, NEW D, IsFiniteSet(D), NEW g, IsSum(g, f, D)
    PROVE  g[D] = SumOf(f, D)
<1>1. PICK h : IsSum(h, f, D) /\ SumOf(f, D) = h[D]
  BY SumIsSum
<1> QED
  BY <1>1, SumUnique

\* A function of the subsets of D that starts at 0 and adds f of the element taken out is
\* the sum.
LEMMA SumMade ==
    ASSUME NEW f, NEW D, IsFiniteSet(D), NEW F,
           \A s \in SUBSET D : SumsTo(F, f, s)
    PROVE  F[D] = SumOf(f, D)
<1> DEFINE G == [s \in SUBSET D |-> F[s]]
<1>1. \A s \in SUBSET D : SumsTo(G, f, s)
  <2> SUFFICES ASSUME NEW s \in SUBSET D PROVE SumsTo(G, f, s)
    OBVIOUS
  <2>1. s \ {CHOOSE x \in s : TRUE} \in SUBSET D
    OBVIOUS
  <2> QED
    BY <2>1 DEF SumsTo
<1>2. IsSum(G, f, D)
  BY <1>1 DEF SumsTo, IsSum
<1> QED
  BY <1>2, SumChosen

\* The sum over the empty set.
LEMMA SumOfNothing == \A f : SumOf(f, {}) = 0
  BY SumStep, FS_EmptySet

\* A function that is one function and a multiple of another has their sums.
LEMMA SumLinear ==
    ASSUME NEW D, IsFiniteSet(D), NEW f, NEW g, NEW h, NEW k \in Int,
           \A x \in D : f[x] \in Int /\ g[x] \in Int /\ h[x] = f[x] + k * g[x]
    PROVE  SumOf(h, D) = SumOf(f, D) + k * SumOf(g, D)
<1> DEFINE F == [s \in SUBSET D |-> SumOf(f, s) + k * SumOf(g, s)]
<1>1. ASSUME NEW s \in SUBSET D PROVE SumsTo(F, h, s)
  <2> DEFINE c == CHOOSE x \in s : TRUE
             r == s \ {c}
  <2>1. IsFiniteSet(s) /\ IsFiniteSet(r) /\ r \in SUBSET D
    BY FS_Subset
  <2>2. CASE s = {}
    <3>1. F[s] = 0
      BY <2>2, SumOfNothing
    <3> QED
      BY <2>2, <3>1 DEF SumsTo
  <2>3. CASE s # {}
    <3>1. SumOf(f, s) = f[c] + SumOf(f, r) /\ SumOf(g, s) = g[c] + SumOf(g, r)
      BY <2>1, <2>3, SumStep
    <3>2. SumOf(f, r) \in Int /\ SumOf(g, r) \in Int
      BY <2>1, SumOfIntegers
    <3>3. c \in D
      BY <2>3
    <3>4. F[s] = SumOf(f, s) + k * SumOf(g, s) /\ F[r] = SumOf(f, r) + k * SumOf(g, r)
      BY <2>1
    <3>5. f[c] \in Int /\ g[c] \in Int /\ h[c] = f[c] + k * g[c]
      BY <3>3
    <3> HIDE DEF F
    <3>6. F[s] = h[c] + F[r]
      <4> DEFINE a == SumOf(f, r)
                 b == SumOf(g, r)
                 x == f[c]
                 y == g[c]
      <4>1. a \in Int /\ b \in Int /\ x \in Int /\ y \in Int
        BY <3>2, <3>5
      <4>2. F[s] = (x + a) + k * (y + b) /\ F[r] = a + k * b /\ h[c] = x + k * y
        BY <3>1, <3>4, <3>5
      <4> HIDE DEF a, b, x, y, c
      <4>3. (x + a) + k * (y + b) = (x + k * y) + (a + k * b)
        BY <4>1
      <4> QED
        BY <4>2, <4>3
    <3> QED
      BY <2>3, <3>6 DEF SumsTo
  <2> QED
    BY <2>2, <2>3
<1>2. F[D] = SumOf(f, D) + k * SumOf(g, D)
  OBVIOUS
<1> HIDE DEF F
<1> QED
  BY <1>1, <1>2, SumMade

\* Only the values of a function matter.
LEMMA SumSame ==
    ASSUME NEW D, IsFiniteSet(D), NEW f, NEW h, \A x \in D : f[x] \in Int /\ h[x] = f[x]
    PROVE  SumOf(h, D) = SumOf(f, D)
<1>1. SumOf(h, D) = SumOf(f, D) + 0 * SumOf(f, D)
  BY SumLinear
<1>2. SumOf(f, D) \in Int
  BY SumOfIntegers
<1> QED
  BY <1>1, <1>2

\* The sum of two functions,
LEMMA SumAdd ==
    ASSUME NEW D, IsFiniteSet(D), NEW f, NEW g, NEW h,
           \A x \in D : f[x] \in Int /\ g[x] \in Int /\ h[x] = f[x] + g[x]
    PROVE  SumOf(h, D) = SumOf(f, D) + SumOf(g, D)
<1>1. SumOf(h, D) = SumOf(f, D) + 1 * SumOf(g, D)
  BY SumLinear
<1>2. SumOf(g, D) \in Int
  BY SumOfIntegers
<1> QED
  BY <1>1, <1>2

\* A function that is 0 everywhere,
LEMMA SumZero ==
    ASSUME NEW D, IsFiniteSet(D), NEW f, \A x \in D : f[x] = 0
    PROVE  SumOf(f, D) = 0
<1>1. SumOf(f, D) = SumOf(f, D) + 1 * SumOf(f, D)
  BY SumLinear
<1>2. SumOf(f, D) \in Int
  BY SumOfIntegers
<1>3. \A v \in Int : v = v + 1 * v => v = 0
  OBVIOUS
<1> QED
  BY <1>1, <1>2, <1>3

\* a multiple of a function,
LEMMA SumTimes ==
    ASSUME NEW D, IsFiniteSet(D), NEW f, NEW h, NEW k \in Int,
           \A x \in D : f[x] \in Int /\ h[x] = k * f[x]
    PROVE  SumOf(h, D) = k * SumOf(f, D)
<1> DEFINE z == [x \in D |-> 0]
<1>1. \A x \in D : z[x] = 0
  OBVIOUS
<1> HIDE DEF z
<1>2. SumOf(h, D) = SumOf(z, D) + k * SumOf(f, D)
  <2>1. \A x \in D : z[x] \in Int /\ f[x] \in Int /\ h[x] = z[x] + k * f[x]
    BY <1>1
  <2> QED
    BY <2>1, SumLinear
<1>3. SumOf(z, D) = 0 /\ SumOf(f, D) \in Int
  BY <1>1, SumZero, SumOfIntegers
<1> QED
  BY <1>2, <1>3

\* and a sum of one term.
LEMMA SumOfOne ==
    ASSUME NEW f, NEW e, f[e] \in Int
    PROVE  SumOf(f, {e}) = f[e]
<1>1. IsFiniteSet({e}) /\ {e} \ {e} = {}
  BY FS_Singleton
<1>2. SumOf(f, {e}) = f[e] + SumOf(f, {})
  BY <1>1, SumWithout
<1> QED
  BY <1>2, SumOfNothing

\* A function that is 0 but at e.
LEMMA SumPoint ==
    ASSUME NEW T, IsFiniteSet(T), NEW e \in T, NEW v \in Int, NEW f,
           \A t \in T : f[t] = IF t = e THEN v ELSE 0
    PROVE  SumOf(f, T) = v
<1>1. SumOf(f, T) = f[e] + SumOf(f, T \ {e})
  BY SumWithout
<1>2. IsFiniteSet(T \ {e})
  BY FS_Subset
<1>3. SumOf(f, T \ {e}) = 0
  BY <1>2, SumZero
<1> QED
  BY <1>1, <1>3

Part(p, D, t) == {x \in D : p[x] = t}

\* A sum may be taken part by part.
LEMMA SumByParts ==
    ASSUME NEW D, IsFiniteSet(D), NEW T, IsFiniteSet(T), NEW p, \A x \in D : p[x] \in T,
           NEW f, \A x \in D : f[x] \in Int
    PROVE  SumOf([t \in T |-> SumOf(f, Part(p, D, t))], T) = SumOf(f, D)
<1> DEFINE Of2(s) == [t \in T |-> SumOf(f, Part(p, s, t))]
           F == [s \in SUBSET D |-> SumOf(Of2(s), T)]
<1>1. ASSUME NEW s \in SUBSET D PROVE SumsTo(F, f, s)
  <2> DEFINE c == CHOOSE x \in s : TRUE
             r == s \ {c}
             d == [t \in T |-> IF t = p[c] THEN f[c] ELSE 0]
  <2>1. IsFiniteSet(s) /\ IsFiniteSet(r) /\ r \in SUBSET D
    BY FS_Subset
  <2>2. CASE s = {}
    <3>1. \A t \in T : Of2(s)[t] = 0
      BY <2>2, SumOfNothing DEF Part
    <3> HIDE DEF Of2
    <3>2. SumOf(Of2(s), T) = 0
      BY <3>1, SumZero
    <3>3. F[s] = 0
      BY <3>2
    <3> QED
      BY <2>2, <3>3 DEF SumsTo
  <2>3. CASE s # {}
    <3>1. c \in s /\ c \in D /\ f[c] \in Int /\ p[c] \in T
      BY <2>3
    <3>2. ASSUME NEW t \in T
          PROVE  /\ SumOf(f, Part(p, r, t)) \in Int
                 /\ SumOf(f, Part(p, s, t)) = SumOf(f, Part(p, r, t)) + d[t]
      <4>1. IsFiniteSet(Part(p, s, t)) /\ IsFiniteSet(Part(p, r, t))
        BY <2>1, FS_Subset DEF Part
      <4>2. /\ \A x \in Part(p, s, t) : f[x] \in Int
            /\ \A x \in Part(p, r, t) : f[x] \in Int
        BY DEF Part
      <4>3. SumOf(f, Part(p, r, t)) \in Int
        BY <4>1, <4>2, SumOfIntegers
      <4>4. CASE t = p[c]
        <5>1. c \in Part(p, s, t) /\ Part(p, s, t) \ {c} = Part(p, r, t)
          BY <3>1, <4>4 DEF Part
        <5>2. SumOf(f, Part(p, s, t)) = f[c] + SumOf(f, Part(p, r, t))
          <6> HIDE DEF c, r
          <6> QED
            BY <4>1, <4>2, <5>1, SumWithout
        <5> QED
          BY <3>1, <4>3, <4>4, <5>2
      <4>5. CASE t # p[c]
        <5>1. Part(p, s, t) = Part(p, r, t)
          BY <4>5 DEF Part
        <5> QED
          BY <4>3, <4>5, <5>1
      <4> QED
        BY <4>3, <4>4, <4>5
    <3>3. \A t \in T : Of2(r)[t] \in Int /\ d[t] \in Int /\ Of2(s)[t] = Of2(r)[t] + d[t]
      BY <3>1, <3>2
    <3>4. \A t \in T : d[t] = IF t = p[c] THEN f[c] ELSE 0
      OBVIOUS
    <3> HIDE DEF Of2, d
    <3>5. SumOf(Of2(s), T) = SumOf(Of2(r), T) + SumOf(d, T)
      BY <3>3, SumAdd
    <3>6. SumOf(d, T) = f[c]
      BY <3>1, <3>4, SumPoint
    <3>7. SumOf(Of2(r), T) \in Int
      BY <3>3, SumOfIntegers
    <3>8. F[s] = f[c] + F[r]
      BY <2>1, <3>1, <3>5, <3>6, <3>7
    <3> HIDE DEF F
    <3> QED
      BY <2>3, <3>8 DEF SumsTo
  <2> QED
    BY <2>2, <2>3
<1>2. F[D] = SumOf([t \in T |-> SumOf(f, Part(p, D, t))], T)
  OBVIOUS
<1> HIDE DEF F
<1> QED
  BY <1>1, <1>2, SumMade

\* A sum over rows is the sum over what was read from each.
LEMMA SumMoved ==
    ASSUME NEW D, IsFiniteSet(D), NEW q, NEW E, E = {q[x] : x \in D},
           \A x, y \in D : q[x] = q[y] => x = y,
           NEW f, NEW g, \A x \in D : f[x] \in Int /\ g[q[x]] = f[x]
    PROVE  IsFiniteSet(E) /\ SumOf(g, E) = SumOf(f, D)
<1> DEFINE Img(s) == {q[x] : x \in s}
           F == [s \in SUBSET D |-> SumOf(g, Img(s))]
<1>1. ASSUME NEW s \in SUBSET D PROVE IsFiniteSet(Img(s))
  <2> DEFINE qs == [x \in s |-> q[x]]
  <2>1. qs \in Surjection(s, Img(s))
    BY DEF Surjection
  <2>2. IsFiniteSet(s)
    BY FS_Subset
  <2> QED
    BY <2>1, <2>2, FS_Surjection
<1>2. ASSUME NEW s \in SUBSET D PROVE SumsTo(F, f, s)
  <2> DEFINE c == CHOOSE x \in s : TRUE
             r == s \ {c}
  <2>2. CASE s = {}
    <3>1. F[s] = 0
      BY <2>2, SumOfNothing
    <3> QED
      BY <2>2, <3>1 DEF SumsTo
  <2>3. CASE s # {}
    <3>1. c \in s /\ c \in D /\ r \in SUBSET D
      BY <2>3
    <3>2. q[c] \in Img(s) /\ Img(s) \ {q[c]} = Img(r)
      <4>1. \A x \in s : x = c \/ x \in r
        OBVIOUS
      <4>2. \A x \in r : x \in s /\ x # c /\ x \in D
        BY <3>1
      <4> HIDE DEF c, r
      <4>3. \A x \in r : q[x] # q[c]
        BY <3>1, <4>2
      <4> QED
        BY <3>1, <4>1, <4>2, <4>3
    <3>3. \A y \in Img(s) : g[y] \in Int
      OBVIOUS
    <3>4. IsFiniteSet(Img(s))
      BY <1>1
    <3>5. SumOf(g, Img(s)) = g[q[c]] + SumOf(g, Img(r))
      <4> HIDE DEF Img
      <4> QED
        BY <3>2, <3>3, <3>4, SumWithout
    <3>6. F[s] = f[c] + F[r]
      BY <3>1, <3>5
    <3> HIDE DEF F
    <3> QED
      BY <2>3, <3>6 DEF SumsTo
  <2> QED
    BY <2>2, <2>3
<1>3. F[D] = SumOf(g, E)
  OBVIOUS
<1>4. IsFiniteSet(E)
  BY <1>1
<1> HIDE DEF F
<1> QED
  BY <1>2, <1>3, <1>4, SumMade

-----------------------------------------------------------------------------
(* The shares of a group.                                                  *)

RowOf(g, m, roster, e) ==
    [group |-> g, month |-> m, employee |-> e, share |-> StoredShare(roster[e])]

RowsFor(g, m, roster, s) == {RowOf(g, m, roster, e) : e \in s}

\* A share is stored as the nearest of what can be stored.
LEMMA Rounding ==
    ASSUME NEW fine \in Nat
    PROVE  /\ StoredShare(fine) \in Nat
           /\ 2 * fine - Fine <= 2 * Fine * StoredShare(fine)
           /\ 2 * Fine * StoredShare(fine) <= 2 * fine + Fine
<1> DEFINE q == (2 * fine + Fine) \div (2 * Fine)
<1>1. /\ q \in Nat
      /\ 2 * Fine * q <= 2 * fine + Fine
      /\ 2 * fine + Fine < 2 * Fine * q + 2 * Fine
  BY InputsAssumption
<1>2. Fine \in Nat \ {0}
  BY InputsAssumption
<1> HIDE DEF q
<1>3. 2 * fine - Fine <= 2 * Fine * q
  BY <1>1, <1>2
<1> QED
  BY <1>1, <1>3 DEF StoredShare, q

\* One more share adds one more rounding.
LEMMA RoundingsAdd ==
    ASSUME NEW F \in Nat, NEW a \in Int, NEW b \in Int, NEW n \in Nat, NEW q \in Int, NEW f \in Int,
           2 * f - F <= 2 * F * q, 2 * F * q <= 2 * f + F,
           2 * (F * a - b) <= F * n, -(F * n) <= 2 * (F * a - b)
    PROVE  /\ 2 * (F * (q + a) - (f + b)) <= F * (n + 1)
           /\ -(F * (n + 1)) <= 2 * (F * (q + a) - (f + b))
  OBVIOUS

\* The stored shares of some of the employees of a list differ from the submitted ones by
\* half a unit each at most.
LEMMA StoredShares ==
    ASSUME NEW roster \in Rosters, NEW g, NEW m,
           NEW shares, \A e \in DOMAIN roster :
                shares[RowOf(g, m, roster, e)] = StoredShare(roster[e])
    PROVE  LET all == DOMAIN roster
               stored == SumOf(shares, RowsFor(g, m, roster, all))
           IN  /\ stored \in Int /\ SumOf(roster, all) \in Int
               /\ IsFiniteSet(RowsFor(g, m, roster, all))
               /\ Cardinality(RowsFor(g, m, roster, all)) = Cardinality(all)
               /\ 2 * (Fine * stored - SumOf(roster, all)) <= Fine * Cardinality(all)
               /\ -(Fine * Cardinality(all)) <= 2 * (Fine * stored - SumOf(roster, all))
<1> DEFINE R(s) == RowsFor(g, m, roster, s)
           Near(s) == /\ SumOf(shares, R(s)) \in Int /\ SumOf(roster, s) \in Int
                      /\ IsFiniteSet(R(s)) /\ Cardinality(R(s)) = Cardinality(s)
                      /\ 2 * (Fine * SumOf(shares, R(s)) - SumOf(roster, s))
                            <= Fine * Cardinality(s)
                      /\ -(Fine * Cardinality(s))
                            <= 2 * (Fine * SumOf(shares, R(s)) - SumOf(roster, s))
           Bad == {n \in Nat : \E s \in SUBSET DOMAIN roster : Cardinality(s) = n /\ ~Near(s)}
<1>1. /\ IsFiniteSet(DOMAIN roster) /\ Fine \in Nat
      /\ \A e \in DOMAIN roster : roster[e] \in Nat
  BY InputsAssumption
<1>2. \A s \in SUBSET DOMAIN roster : IsFiniteSet(s) /\ Cardinality(s) \in Nat
  BY <1>1, FS_Subset, FS_CardinalityType
<1>3. Bad = {}
  <2> SUFFICES ASSUME Bad # {} PROVE FALSE
    OBVIOUS
  <2>1. PICK n \in Bad : \A k \in Bad : n <= k
    BY Least
  <2>2. PICK s \in SUBSET DOMAIN roster : Cardinality(s) = n /\ ~Near(s)
    BY <2>1
  <2>3. CASE s = {}
    <3>1. R(s) = {}
      BY <2>3 DEF RowsFor
    <3>2. IsFiniteSet({}) /\ Cardinality({}) = 0
      BY FS_EmptySet
    <3>3. SumOf(shares, {}) = 0 /\ SumOf(roster, {}) = 0
      BY <3>2, SumStep
    <3> QED
      BY <1>1, <2>2, <2>3, <3>1, <3>2, <3>3
  <2>4. CASE s # {}
    <3>1. PICK e \in s : TRUE
      BY <2>4
    <3> DEFINE rest == s \ {e}
               row == RowOf(g, m, roster, e)
    <3>2. rest \in SUBSET DOMAIN roster /\ IsFiniteSet(s) /\ IsFiniteSet(rest)
      BY <1>2
    <3>3. Cardinality(rest) \in Nat /\ Cardinality(s) = Cardinality(rest) + 1
      BY <1>2, <3>1, <3>2, FS_RemoveElement
    <3>4. Near(rest)
      <4>1. Cardinality(rest) \notin Bad
        <5> HIDE DEF Bad, Near, rest
        <5> QED
          BY <2>1, <2>2, <3>3
      <4> HIDE DEF Near
      <4> QED
        BY <3>2, <3>3, <4>1
    <3>5. R(s) = R(rest) \cup {row} /\ row \notin R(rest) /\ R(s) \ {row} = R(rest)
      <4>1. R(s) = R(rest) \cup {row}
        BY <3>1 DEF RowsFor
      <4>2. \A d \in rest : RowOf(g, m, roster, d) # row
        BY DEF RowOf
      <4>3. row \notin R(rest)
        BY <4>2 DEF RowsFor
      <4> HIDE DEF R, row
      <4> QED
        BY <4>1, <4>3
    <3>6. IsFiniteSet(R(s)) /\ Cardinality(R(s)) = Cardinality(s)
      <4>1. IsFiniteSet(R(rest)) /\ Cardinality(R(rest)) = Cardinality(rest)
        BY <3>4
      <4> HIDE DEF R, row, rest, Bad, Near
      <4> QED
        BY <3>3, <3>5, <4>1, FS_AddElement
    <3>7. roster[e] \in Nat /\ shares[row] = StoredShare(roster[e])
      BY <1>1, <3>1
    <3>8. SumOf(roster, s) = roster[e] + SumOf(roster, rest)
      BY <1>1, <3>1, <3>2, SumWithout
    <3>9. SumOf(shares, R(s)) = shares[row] + SumOf(shares, R(rest))
      <4>1. \A x \in R(s) : shares[x] \in Int
        <5> SUFFICES ASSUME NEW d \in s PROVE shares[RowOf(g, m, roster, d)] \in Int
          BY DEF RowsFor
        <5>1. d \in DOMAIN roster /\ roster[d] \in Nat
          BY <1>1
        <5> QED
          BY <5>1, Rounding
      <4> HIDE DEF R, row, rest, Bad, Near
      <4> QED
        BY <3>5, <3>6, <4>1, SumWithout
    <3>10. StoredShare(roster[e]) \in Nat
      BY <3>7, Rounding
    <3> DEFINE a == SumOf(shares, R(rest))
               b == SumOf(roster, rest)
               c == Cardinality(rest)
    <3>11. /\ 2 * (Fine * (shares[row] + a) - (roster[e] + b)) <= Fine * (c + 1)
           /\ -(Fine * (c + 1)) <= 2 * (Fine * (shares[row] + a) - (roster[e] + b))
      <4>1. /\ a \in Int /\ b \in Int /\ c \in Nat
            /\ 2 * (Fine * a - b) <= Fine * c /\ -(Fine * c) <= 2 * (Fine * a - b)
        BY <3>3, <3>4
      <4>2. /\ 2 * roster[e] - Fine <= 2 * Fine * shares[row]
            /\ 2 * Fine * shares[row] <= 2 * roster[e] + Fine
            /\ shares[row] \in Int /\ roster[e] \in Int
        BY <3>7, Rounding
      <4> HIDE DEF a, b, c, row
      <4> QED
        BY <1>1, <4>1, <4>2, RoundingsAdd
    <3>12. a \in Int /\ b \in Int
      BY <3>4
    <3>13. Near(s)
      BY <3>3, <3>6, <3>7, <3>8, <3>9, <3>10, <3>11, <3>12
    <3> QED
      BY <2>2, <3>13
  <2> QED
    BY <2>3, <2>4
<1>4. Near(DOMAIN roster)
  BY <1>2, <1>3
<1> QED
  BY <1>4

\* The sum over a group's members, as a sum of a function.
LEMMA SumOfShares ==
    ASSUME NEW all, IsFiniteSet(all)
    PROVE  MapThenSumSet(LAMBDA x : x.share, all) = SumOf([x \in all |-> x.share], all)
<1> DEFINE f == [x \in all |-> x.share]
           Adds(iter) == iter = [s \in SUBSET all |->
                IF s = {} THEN 0
                ELSE (CHOOSE x \in s : TRUE).share + iter[s \ {CHOOSE x \in s : TRUE}]]
           made == CHOOSE iter : Adds(iter)
<1>1. MapThenSumSet(LAMBDA x : x.share, all) = made[all]
  BY DEF MapThenSumSet, MapThenFoldSet
<1>2. ASSUME NEW iter PROVE Adds(iter) <=> IsSum(iter, f, all)
  <2>1. \A s \in SUBSET all : s # {} =>
           f[CHOOSE x \in s : TRUE] = (CHOOSE x \in s : TRUE).share
    OBVIOUS
  <2> HIDE DEF f
  <2> QED
    BY <2>1 DEF IsSum
<1> HIDE DEF f, Adds
<1>3. Adds(made)
  <2>1. \E iter : Adds(iter)
    BY <1>2, SumExists
  <2> QED
    BY <2>1, Zenon
<1> HIDE DEF made
<1> QED
  BY <1>1, <1>2, <1>3, SumChosen DEF f

\* Members that are those of one submitted list have shares that add up to 1 but for their
\* rounding.
LEMMA OneRosterAddsUp ==
    ASSUME NEW g \in Groups, OfOneRoster(MembersOf(g), g), MembersOf(g) # {}
    PROVE  LET off == MapThenSumSet(LAMBDA x : x.share, MembersOf(g)) - One IN
           2 * off \in -Cardinality(MembersOf(g)) .. Cardinality(MembersOf(g))
<1>1. PICK roster \in Rosters, m \in Months :
         validateMembers(roster) /\ MembersOf(g) = MemberRows(g, m, roster)
  BY DEF OfOneRoster
<1> DEFINE all == MembersOf(g)
           shares == [x \in all |-> x.share]
           stored == SumOf(shares, all)
           n == Cardinality(DOMAIN roster)
<1>2. all = RowsFor(g, m, roster, DOMAIN roster)
  BY <1>1 DEF MemberRows, RowsFor, RowOf
<1>3. \A e \in DOMAIN roster : shares[RowOf(g, m, roster, e)] = StoredShare(roster[e])
  BY <1>2 DEF RowsFor, RowOf
<1>4. SumOf(roster, DOMAIN roster) = One * Fine
  BY <1>1 DEF validateMembers, SumOf
<1> HIDE DEF shares, all
<1>5. /\ stored \in Int /\ IsFiniteSet(all) /\ Cardinality(all) = n
      /\ 2 * (Fine * stored - One * Fine) <= Fine * n
      /\ -(Fine * n) <= 2 * (Fine * stored - One * Fine)
  BY <1>2, <1>3, <1>4, StoredShares
<1>6. IsFiniteSet(DOMAIN roster) /\ n \in Nat
  BY InputsAssumption, FS_CardinalityType
<1>7. MapThenSumSet(LAMBDA x : x.share, all) = stored
  BY <1>5, SumOfShares DEF shares
<1> HIDE DEF stored, n
<1>8. 2 * (stored - One) <= n /\ -n <= 2 * (stored - One)
  <2>1. Fine \in Nat \ {0} /\ One \in Nat
    BY InputsAssumption
  <2>2. Fine * (2 * (stored - One)) <= Fine * n /\ Fine * (-n) <= Fine * (2 * (stored - One))
    BY <1>5, <1>6, <2>1
  <2>3. \A a, b \in Int : Fine * a <= Fine * b => a <= b
    BY <2>1
  <2> QED
    BY <1>5, <1>6, <2>1, <2>2, <2>3
<1> QED
  BY <1>5, <1>6, <1>7, <1>8, InputsAssumption DEF all

FromOneRoster == \A g \in Groups : OfOneRoster(MembersOf(g), g)

\* Members change only when a transaction replaces those of one group by a submitted list.
LEMMA RostersStep ==
    ASSUME IInv, FromOneRoster, [Next]_vars
    PROVE  FromOneRoster'
<1>1. CASE UNCHANGED members
  BY <1>1 DEF FromOneRoster, MembersOf
<1>2. ASSUME NEW r \in Requests, Operation(r) PROVE UNCHANGED members
  <2>1. CASE \E job : Start(r, job)
    BY <2>1 DEF Start
  <2>2. CASE SalaryItemConfigs(r)
    BY <2>2, ConfigsChange DEF IInv, ChangeConfig
  <2> QED
    BY <1>2, <2>1, <2>2, IncomesStart, CardSpendStarts, SalaryItemsStart, LossesStart,
       RatesStart, GroupsStart
    DEF Operation, IInv
<1>3. ASSUME NEW r \in Requests, WriteGroup(r) PROVE FromOneRoster'
  <2> DEFINE job == work[r]
             g == job.group
             row == IF groups[g] = None THEN job.patch ELSE Patched(groups[g], job.patch)
             new == MemberRows(g, MemberMonth(row, job), job.roster)
  <2>1. GroupOK(job) /\ job.do = "writeGroup"
    BY <1>3 DEF WriteGroup, IInv, WorkOK, JobOK
  <2>2. g \in Groups /\ (job.roster # NoRoster => job.roster \in Rosters /\ validateMembers(job.roster))
    BY <2>1 DEF GroupOK
  <2>3. members' = members \/ members' = KeptMembers(g, job) \cup new
    BY <1>3 DEF WriteGroup
  <2>4. row.month \in Months
    <3>1. groups[g] # None => groups[g] \in GroupRow
      BY <2>2 DEF IInv, TypeOK
    <3> QED
      BY <2>1, <3>1 DEF GroupOK, GroupRow, Patched, OpenMonths
  <2>5. \A x \in new : x.group = g
    BY DEF MemberRows
  <2>6. CASE members' = KeptMembers(g, job) \cup new
    <3> SUFFICES ASSUME NEW h \in Groups
                 PROVE  OfOneRoster({x \in members' : x.group = h}, h)
      BY DEF FromOneRoster, MembersOf
    <3>1. OfOneRoster({x \in members : x.group = h}, h)
      BY DEF FromOneRoster, MembersOf
    <3>2. CASE h # g
      <4>1. {x \in members' : x.group = h} = {x \in members : x.group = h}
        BY <2>5, <2>6, <3>2 DEF KeptMembers, MembersOf
      <4> QED
        BY <3>1, <4>1
    <3>3. CASE h = g /\ job.roster = NoRoster
      <4>1. new = {}
        BY <3>3 DEF MemberRows, NoRoster
      <4>2. members' = members
        BY <2>6, <3>3, <4>1 DEF KeptMembers
      <4> QED
        BY <3>1, <4>2
    <3>4. CASE h = g /\ job.roster # NoRoster
      <4>1. {x \in members' : x.group = h} = new
        BY <2>5, <2>6, <3>4 DEF KeptMembers, MembersOf
      <4> QED
        BY <2>2, <2>4, <3>4, <4>1 DEF OfOneRoster, MemberMonth
    <3> QED
      BY <3>2, <3>3, <3>4
  <2> QED
    BY <1>1, <2>3, <2>6
<1> QED
  BY <1>1, <1>2, <1>3 DEF Next, vars, InsertRow, UpdateRow, CheckGroup, Abandon

-----------------------------------------------------------------------------
(* The sums of the calculator and of the properties, each as the sum of a  *)
(* function.                                                               *)

FeeAt(m, p) ==
    Sum({id \in Counted("feeRate", m) : rows[id].key = p}, LAMBDA id : rows[id].amount)

\* The amounts of rows of the read model.
LEMMA AmountsSum ==
    ASSUME NEW all, IsFiniteSet(all)
    PROVE  S!Total(all, LAMBDA x : x.amount)
             = SumOf([x \in all |-> x.amount], all)
<1> DEFINE f == [x \in all |-> x.amount]
           Term(x) == x.amount
           Adds(iter) == iter = [s \in SUBSET all |->
                IF s = {} THEN 0
                ELSE Term(CHOOSE y \in s : TRUE) + iter[s \ {CHOOSE y \in s : TRUE}]]
           made == CHOOSE iter : Adds(iter)
<1>1. S!Total(all, LAMBDA x : x.amount) = made[all]
  BY DEF S!Total, S!MapThenSumSet, S!MapThenFoldSet
<1>2. ASSUME NEW iter PROVE Adds(iter) <=> IsSum(iter, f, all)
  <2>1. \A s \in SUBSET all : s # {} => f[CHOOSE y \in s : TRUE] = Term(CHOOSE y \in s : TRUE)
    OBVIOUS
  <2> HIDE DEF f, Term
  <2> QED
    BY <2>1 DEF IsSum
<1> HIDE DEF f, Adds
<1>3. Adds(made)
  <2>1. \E iter : Adds(iter)
    BY <1>2, SumExists
  <2> QED
    BY <2>1, Zenon
<1> HIDE DEF made
<1> QED
  BY <1>1, <1>2, <1>3, SumChosen DEF f

\* The imported card spend with its fees.
LEMMA EventsSum ==
    ASSUME NEW b, NEW all, IsFiniteSet(all)
    PROVE  S!Total(all, LAMBDA x : x.amount * (One + S!feeOf(b, x.key)))
             = SumOf([x \in all |-> x.amount * (One + S!feeOf(b, x.key))], all)
<1> DEFINE f == [x \in all |-> x.amount * (One + S!feeOf(b, x.key))]
           Term(x) == x.amount * (One + S!feeOf(b, x.key))
           Adds(iter) == iter = [s \in SUBSET all |->
                IF s = {} THEN 0
                ELSE Term(CHOOSE y \in s : TRUE) + iter[s \ {CHOOSE y \in s : TRUE}]]
           made == CHOOSE iter : Adds(iter)
<1>1. S!Total(all, LAMBDA x : x.amount * (One + S!feeOf(b, x.key))) = made[all]
  BY DEF S!Total, S!MapThenSumSet, S!MapThenFoldSet
<1>2. ASSUME NEW iter PROVE Adds(iter) <=> IsSum(iter, f, all)
  <2>1. \A s \in SUBSET all : s # {} => f[CHOOSE y \in s : TRUE] = Term(CHOOSE y \in s : TRUE)
    OBVIOUS
  <2> HIDE DEF f, Term
  <2> QED
    BY <2>1 DEF IsSum
<1> HIDE DEF f, Adds
<1>3. Adds(made)
  <2>1. \E iter : Adds(iter)
    BY <1>2, SumExists
  <2> QED
    BY <2>1, Zenon
<1> HIDE DEF made
<1> QED
  BY <1>1, <1>2, <1>3, SumChosen DEF f

\* The manual items.
LEMMA ItemsSum ==
    ASSUME NEW all, IsFiniteSet(all)
    PROVE  S!Total(all, LAMBDA x : IF x.type = "addition" THEN x.amount ELSE -x.amount)
             = SumOf([x \in all |-> IF x.type = "addition" THEN x.amount ELSE -x.amount], all)
<1> DEFINE f == [x \in all |-> IF x.type = "addition" THEN x.amount ELSE -x.amount]
           Term(x) == IF x.type = "addition" THEN x.amount ELSE -x.amount
           Adds(iter) == iter = [s \in SUBSET all |->
                IF s = {} THEN 0
                ELSE Term(CHOOSE y \in s : TRUE) + iter[s \ {CHOOSE y \in s : TRUE}]]
           made == CHOOSE iter : Adds(iter)
<1>1. S!Total(all, LAMBDA x : IF x.type = "addition" THEN x.amount ELSE -x.amount) = made[all]
  BY DEF S!Total, S!MapThenSumSet, S!MapThenFoldSet
<1>2. ASSUME NEW iter PROVE Adds(iter) <=> IsSum(iter, f, all)
  <2>1. \A s \in SUBSET all : s # {} => f[CHOOSE y \in s : TRUE] = Term(CHOOSE y \in s : TRUE)
    OBVIOUS
  <2> HIDE DEF f, Term
  <2> QED
    BY <2>1 DEF IsSum
<1> HIDE DEF f, Adds
<1>3. Adds(made)
  <2>1. \E iter : Adds(iter)
    BY <1>2, SumExists
  <2> QED
    BY <2>1, Zenon
<1> HIDE DEF made
<1> QED
  BY <1>1, <1>2, <1>3, SumChosen DEF f

\* The profits of the members of a group.
LEMMA ProfitsSum ==
    ASSUME NEW profits, NEW all, IsFiniteSet(all)
    PROVE  S!Total(all, LAMBDA m : profits[m.employee])
             = SumOf([m \in all |-> profits[m.employee]], all)
<1> DEFINE f == [m \in all |-> profits[m.employee]]
           Term(m) == profits[m.employee]
           Adds(iter) == iter = [s \in SUBSET all |->
                IF s = {} THEN 0
                ELSE Term(CHOOSE y \in s : TRUE) + iter[s \ {CHOOSE y \in s : TRUE}]]
           made == CHOOSE iter : Adds(iter)
<1>1. S!Total(all, LAMBDA m : profits[m.employee]) = made[all]
  BY DEF S!Total, S!MapThenSumSet, S!MapThenFoldSet
<1>2. ASSUME NEW iter PROVE Adds(iter) <=> IsSum(iter, f, all)
  <2>1. \A s \in SUBSET all : s # {} => f[CHOOSE y \in s : TRUE] = Term(CHOOSE y \in s : TRUE)
    OBVIOUS
  <2> HIDE DEF f, Term
  <2> QED
    BY <2>1 DEF IsSum
<1> HIDE DEF f, Adds
<1>3. Adds(made)
  <2>1. \E iter : Adds(iter)
    BY <1>2, SumExists
  <2> QED
    BY <2>1, Zenon
<1> HIDE DEF made
<1> QED
  BY <1>1, <1>2, <1>3, SumChosen DEF f

\* Their shares.
LEMMA SharesSum ==
    ASSUME NEW all, IsFiniteSet(all)
    PROVE  S!Total(all, LAMBDA m : m.share)
             = SumOf([m \in all |-> m.share], all)
<1> DEFINE f == [m \in all |-> m.share]
           Term(m) == m.share
           Adds(iter) == iter = [s \in SUBSET all |->
                IF s = {} THEN 0
                ELSE Term(CHOOSE y \in s : TRUE) + iter[s \ {CHOOSE y \in s : TRUE}]]
           made == CHOOSE iter : Adds(iter)
<1>1. S!Total(all, LAMBDA m : m.share) = made[all]
  BY DEF S!Total, S!MapThenSumSet, S!MapThenFoldSet
<1>2. ASSUME NEW iter PROVE Adds(iter) <=> IsSum(iter, f, all)
  <2>1. \A s \in SUBSET all : s # {} => f[CHOOSE y \in s : TRUE] = Term(CHOOSE y \in s : TRUE)
    OBVIOUS
  <2> HIDE DEF f, Term
  <2> QED
    BY <2>1 DEF IsSum
<1> HIDE DEF f, Adds
<1>3. Adds(made)
  <2>1. \E iter : Adds(iter)
    BY <1>2, SumExists
  <2> QED
    BY <2>1, Zenon
<1> HIDE DEF made
<1> QED
  BY <1>1, <1>2, <1>3, SumChosen DEF f

\* The amounts of the rows themselves.
LEMMA RowsSum ==
    ASSUME NEW all, IsFiniteSet(all)
    PROVE  Sum(all, LAMBDA id : rows[id].amount)
             = SumOf([id \in all |-> rows[id].amount], all)
<1> DEFINE f == [id \in all |-> rows[id].amount]
           Term(id) == rows[id].amount
           Adds(iter) == iter = [s \in SUBSET all |->
                IF s = {} THEN 0
                ELSE Term(CHOOSE y \in s : TRUE) + iter[s \ {CHOOSE y \in s : TRUE}]]
           made == CHOOSE iter : Adds(iter)
<1>1. Sum(all, LAMBDA id : rows[id].amount) = made[all]
  BY DEF Sum, MapThenSumSet, MapThenFoldSet
<1>2. ASSUME NEW iter PROVE Adds(iter) <=> IsSum(iter, f, all)
  <2>1. \A s \in SUBSET all : s # {} => f[CHOOSE y \in s : TRUE] = Term(CHOOSE y \in s : TRUE)
    OBVIOUS
  <2> HIDE DEF f, Term
  <2> QED
    BY <2>1 DEF IsSum
<1> HIDE DEF f, Adds
<1>3. Adds(made)
  <2>1. \E iter : Adds(iter)
    BY <1>2, SumExists
  <2> QED
    BY <2>1, Zenon
<1> HIDE DEF made
<1> QED
  BY <1>1, <1>2, <1>3, SumChosen DEF f

\* The item rows, with the sign of their configuration.
LEMMA ItemRowsSum ==
    ASSUME NEW all, IsFiniteSet(all)
    PROVE  Sum(all, LAMBDA id : IF configs[rows[id].key].type = "addition"
                                THEN rows[id].amount ELSE -rows[id].amount)
             = SumOf([id \in all |-> IF configs[rows[id].key].type = "addition"
                                     THEN rows[id].amount ELSE -rows[id].amount], all)
<1> DEFINE f == [id \in all |-> IF configs[rows[id].key].type = "addition"
                                THEN rows[id].amount ELSE -rows[id].amount]
           Term(id) == IF configs[rows[id].key].type = "addition"
                       THEN rows[id].amount ELSE -rows[id].amount
           Adds(iter) == iter = [s \in SUBSET all |->
                IF s = {} THEN 0
                ELSE Term(CHOOSE y \in s : TRUE) + iter[s \ {CHOOSE y \in s : TRUE}]]
           made == CHOOSE iter : Adds(iter)
<1>1. Sum(all, LAMBDA id : IF configs[rows[id].key].type = "addition"
                           THEN rows[id].amount ELSE -rows[id].amount) = made[all]
  BY DEF Sum, MapThenSumSet, MapThenFoldSet
<1>2. ASSUME NEW iter PROVE Adds(iter) <=> IsSum(iter, f, all)
  <2>1. \A s \in SUBSET all : s # {} => f[CHOOSE y \in s : TRUE] = Term(CHOOSE y \in s : TRUE)
    OBVIOUS
  <2> HIDE DEF f, Term
  <2> QED
    BY <2>1 DEF IsSum
<1> HIDE DEF f, Adds
<1>3. Adds(made)
  <2>1. \E iter : Adds(iter)
    BY <1>2, SumExists
  <2> QED
    BY <2>1, Zenon
<1> HIDE DEF made
<1> QED
  BY <1>1, <1>2, <1>3, SumChosen DEF f

\* The imported card spend with the fees of its month.
LEMMA EventRowsSum ==
    ASSUME NEW m, NEW all, IsFiniteSet(all)
    PROVE  MapThenSumSet(LAMBDA x : x.amount * (One + FeeAt(m, x.key)), all)
             = SumOf([x \in all |-> x.amount * (One + FeeAt(m, x.key))], all)
<1> DEFINE f == [x \in all |-> x.amount * (One + FeeAt(m, x.key))]
           Term(x) == x.amount * (One + FeeAt(m, x.key))
           Adds(iter) == iter = [s \in SUBSET all |->
                IF s = {} THEN 0
                ELSE Term(CHOOSE y \in s : TRUE) + iter[s \ {CHOOSE y \in s : TRUE}]]
           made == CHOOSE iter : Adds(iter)
<1>1. MapThenSumSet(LAMBDA x : x.amount * (One + FeeAt(m, x.key)), all) = made[all]
  BY DEF MapThenSumSet, MapThenFoldSet
<1>2. ASSUME NEW iter PROVE Adds(iter) <=> IsSum(iter, f, all)
  <2>1. \A s \in SUBSET all : s # {} => f[CHOOSE y \in s : TRUE] = Term(CHOOSE y \in s : TRUE)
    OBVIOUS
  <2> HIDE DEF f, Term
  <2> QED
    BY <2>1 DEF IsSum
<1> HIDE DEF f, Adds
<1>3. Adds(made)
  <2>1. \E iter : Adds(iter)
    BY <1>2, SumExists
  <2> QED
    BY <2>1, Zenon
<1> HIDE DEF made
<1> QED
  BY <1>1, <1>2, <1>3, SumChosen DEF f

AllocatedTotal(results, all) == MapThenSumSet(LAMBDA e : results[e].allocated, all)

\* The results of the employees, column by column.
LEMMA AllocatedSum ==
    ASSUME NEW results, NEW all, IsFiniteSet(all)
    PROVE  AllocatedTotal(results, all)
             = SumOf([e \in all |-> results[e].allocated], all)
<1> DEFINE f == [e \in all |-> results[e].allocated]
           Term(e) == results[e].allocated
           Adds(iter) == iter = [s \in SUBSET all |->
                IF s = {} THEN 0
                ELSE Term(CHOOSE y \in s : TRUE) + iter[s \ {CHOOSE y \in s : TRUE}]]
           made == CHOOSE iter : Adds(iter)
<1>1. AllocatedTotal(results, all) = made[all]
  BY DEF AllocatedTotal, MapThenSumSet, MapThenFoldSet
<1>2. ASSUME NEW iter PROVE Adds(iter) <=> IsSum(iter, f, all)
  <2>1. \A s \in SUBSET all : s # {} => f[CHOOSE y \in s : TRUE] = Term(CHOOSE y \in s : TRUE)
    OBVIOUS
  <2> HIDE DEF f, Term
  <2> QED
    BY <2>1 DEF IsSum
<1> HIDE DEF f, Adds
<1>3. Adds(made)
  <2>1. \E iter : Adds(iter)
    BY <1>2, SumExists
  <2> QED
    BY <2>1, Zenon
<1> HIDE DEF made
<1> QED
  BY <1>1, <1>2, <1>3, SumChosen DEF f

CarriedTotal(results, all) == MapThenSumSet(LAMBDA e : results[e].carried, all)

\* The losses.
LEMMA CarriedSum ==
    ASSUME NEW results, NEW all, IsFiniteSet(all)
    PROVE  CarriedTotal(results, all)
             = SumOf([e \in all |-> results[e].carried], all)
<1> DEFINE f == [e \in all |-> results[e].carried]
           Term(e) == results[e].carried
           Adds(iter) == iter = [s \in SUBSET all |->
                IF s = {} THEN 0
                ELSE Term(CHOOSE y \in s : TRUE) + iter[s \ {CHOOSE y \in s : TRUE}]]
           made == CHOOSE iter : Adds(iter)
<1>1. CarriedTotal(results, all) = made[all]
  BY DEF CarriedTotal, MapThenSumSet, MapThenFoldSet
<1>2. ASSUME NEW iter PROVE Adds(iter) <=> IsSum(iter, f, all)
  <2>1. \A s \in SUBSET all : s # {} => f[CHOOSE y \in s : TRUE] = Term(CHOOSE y \in s : TRUE)
    OBVIOUS
  <2> HIDE DEF f, Term
  <2> QED
    BY <2>1 DEF IsSum
<1> HIDE DEF f, Adds
<1>3. Adds(made)
  <2>1. \E iter : Adds(iter)
    BY <1>2, SumExists
  <2> QED
    BY <2>1, Zenon
<1> HIDE DEF made
<1> QED
  BY <1>1, <1>2, <1>3, SumChosen DEF f

ManualTotal(results, all) == MapThenSumSet(LAMBDA e : results[e].manual, all)

\* The manual amounts.
LEMMA ManualSum ==
    ASSUME NEW results, NEW all, IsFiniteSet(all)
    PROVE  ManualTotal(results, all)
             = SumOf([e \in all |-> results[e].manual], all)
<1> DEFINE f == [e \in all |-> results[e].manual]
           Term(e) == results[e].manual
           Adds(iter) == iter = [s \in SUBSET all |->
                IF s = {} THEN 0
                ELSE Term(CHOOSE y \in s : TRUE) + iter[s \ {CHOOSE y \in s : TRUE}]]
           made == CHOOSE iter : Adds(iter)
<1>1. ManualTotal(results, all) = made[all]
  BY DEF ManualTotal, MapThenSumSet, MapThenFoldSet
<1>2. ASSUME NEW iter PROVE Adds(iter) <=> IsSum(iter, f, all)
  <2>1. \A s \in SUBSET all : s # {} => f[CHOOSE y \in s : TRUE] = Term(CHOOSE y \in s : TRUE)
    OBVIOUS
  <2> HIDE DEF f, Term
  <2> QED
    BY <2>1 DEF IsSum
<1> HIDE DEF f, Adds
<1>3. Adds(made)
  <2>1. \E iter : Adds(iter)
    BY <1>2, SumExists
  <2> QED
    BY <2>1, Zenon
<1> HIDE DEF made
<1> QED
  BY <1>1, <1>2, <1>3, SumChosen DEF f

-----------------------------------------------------------------------------
(* The calculation of a read model: what each employee is paid from, summed *)
(* over the employees, is what was read.                                   *)

\* A read model whose rows are of this month's tables.
WellRead(b) ==
    /\ IsFiniteSet(b.incomes) /\ IsFiniteSet(b.events) /\ IsFiniteSet(b.cards)
    /\ IsFiniteSet(b.losses) /\ IsFiniteSet(b.items) /\ IsFiniteSet(b.members)
    /\ \A x \in b.incomes \cup b.events \cup b.cards \cup b.losses \cup b.items :
          x.employee \in Employees \cup {None} /\ x.amount \in Int
    /\ \A x \in b.cards \cup b.losses \cup b.items : x.employee \in Employees
    /\ None \notin b.members
    /\ \A x \in b.members : x.employee \in Employees /\ x.share \in Int
    /\ \A x, y \in b.members : x.employee = y.employee => x = y
    /\ \A x \in b.events : S!feeOf(b, x.key) \in Int
    /\ b.attendance \subseteq Employees
    /\ b.exchange \in Nat

\* What an accepted read model has besides.
Accepted(b) ==
    /\ \A x \in b.incomes \cup b.events : x.employee \in Employees
    /\ \A m \in b.members : S!sharesOf(b, m.group) = One

\* The precheck refuses a model that lacks one of them.
LEMMA PrecheckAccepts ==
    ASSUME NEW b, WellRead(b), S!precheck(b) = {}
    PROVE  Accepted(b)
<1>1. ~(None \in {x.employee : x \in b.incomes})
  <2>1. "unassignedIncome" \notin S!precheck(b)
    OBVIOUS
  <2> QED
    BY <2>1 DEF S!precheck
<1>2. ~(None \in {x.employee : x \in b.events})
  <2>1. "unassignedSpend" \notin S!precheck(b)
    OBVIOUS
  <2> QED
    BY <2>1 DEF S!precheck
<1>3. ~(\E m \in b.members : S!sharesOf(b, m.group) # One)
  <2>1. "shares" \notin S!precheck(b)
    OBVIOUS
  <2> QED
    BY <2>1 DEF S!precheck
<1> QED
  BY <1>1, <1>2, <1>3 DEF Accepted, WellRead

\* Who is paid: the owner of every row, and no more than the employees there are.
LEMMA Paid ==
    ASSUME NEW b, WellRead(b), IsFiniteSet(Employees)
    PROVE  /\ IsFiniteSet(S!collectEmployeeIds(b))
           /\ S!collectEmployeeIds(b) \subseteq Employees
           /\ \A x \in b.incomes \cup b.events \cup b.cards \cup b.losses \cup b.items \cup b.members :
                 x.employee \in Employees => x.employee \in S!collectEmployeeIds(b)
<1>1. \A x \in b.incomes \cup b.events \cup b.cards \cup b.losses \cup b.items \cup b.members :
         x.employee \in Employees \cup {None}
  BY DEF WellRead
<1>2. S!collectEmployeeIds(b) \subseteq Employees
  BY <1>1 DEF S!collectEmployeeIds, WellRead
<1>3. IsFiniteSet(S!collectEmployeeIds(b))
  BY <1>2, FS_Subset
<1>4. ASSUME NEW x \in b.incomes \cup b.events \cup b.cards \cup b.losses \cup b.items \cup b.members,
             x.employee \in Employees
      PROVE  x.employee \in S!collectEmployeeIds(b)
  <2>1. x.employee # None
    BY <1>4, NoneIsNoRow
  <2> QED
    BY <2>1 DEF S!collectEmployeeIds
<1> QED
  BY <1>2, <1>3, <1>4

AmountOf(D) == [x \in D |-> x.amount]

\* The amounts of one employee, as a part of the amounts of all.
LEMMA OwnedAmounts ==
    ASSUME NEW D, IsFiniteSet(D), \A x \in D : x.amount \in Int, NEW e
    PROVE  /\ S!Total(S!Owned(D, e), LAMBDA x : x.amount) = SumOf(AmountOf(D), S!Owned(D, e))
           /\ SumOf(AmountOf(D), S!Owned(D, e)) \in Int
<1> DEFINE mine == S!Owned(D, e)
<1>1. mine \subseteq D
  BY DEF S!Owned
<1> HIDE DEF mine
<1>2. IsFiniteSet(mine)
  BY <1>1, FS_Subset
<1>3. S!Total(mine, LAMBDA x : x.amount) = SumOf([x \in mine |-> x.amount], mine)
  BY <1>2, AmountsSum
<1>4. \A x \in mine : AmountOf(D)[x] \in Int /\ [y \in mine |-> y.amount][x] = AmountOf(D)[x]
  BY <1>1 DEF AmountOf
<1>5. SumOf([x \in mine |-> x.amount], mine) = SumOf(AmountOf(D), mine)
  BY <1>2, <1>4, SumSame
<1>6. SumOf(AmountOf(D), mine) \in Int
  BY <1>2, <1>4, SumOfIntegers
<1> QED
  BY <1>3, <1>5, <1>6 DEF mine

\* What the employees have adds up to what there is.
LEMMA OwnersAddUp ==
    ASSUME NEW D, IsFiniteSet(D), NEW E, IsFiniteSet(E), \A x \in D : x.employee \in E,
           NEW f, \A x \in D : f[x] \in Int
    PROVE  /\ SumOf([e \in E |-> SumOf(f, S!Owned(D, e))], E) = SumOf(f, D)
           /\ \A e \in E : SumOf(f, S!Owned(D, e)) \in Int
           /\ SumOf(f, D) \in Int
<1> DEFINE p == [x \in D |-> x.employee]
<1>1. \A e \in E : Part(p, D, e) = S!Owned(D, e)
  BY DEF Part, S!Owned
<1>2. \A x \in D : p[x] \in E
  OBVIOUS
<1> HIDE DEF p
<1>3. SumOf([e \in E |-> SumOf(f, Part(p, D, e))], E) = SumOf(f, D)
  BY <1>2, SumByParts
<1>4. [e \in E |-> SumOf(f, Part(p, D, e))] = [e \in E |-> SumOf(f, S!Owned(D, e))]
  BY <1>1
<1>5. ASSUME NEW e \in E PROVE SumOf(f, S!Owned(D, e)) \in Int
  <2>1. S!Owned(D, e) \in SUBSET D
    BY DEF S!Owned
  <2>2. IsFiniteSet(S!Owned(D, e)) /\ \A x \in S!Owned(D, e) : f[x] \in Int
    BY <2>1, FS_Subset
  <2> QED
    BY <2>2, SumOfIntegers
<1>6. SumOf(f, D) \in Int
  BY SumOfIntegers
<1> QED
  BY <1>3, <1>4, <1>5, <1>6

SpendOf(b) == [x \in b.events |-> x.amount * (One + S!feeOf(b, x.key))]

\* The imported card spend of one employee, with its fees, as a part of that of all.
LEMMA OwnedEvents ==
    ASSUME NEW b, WellRead(b), NEW e
    PROVE  S!Total(S!Owned(b.events, e), LAMBDA x : x.amount * (One + S!feeOf(b, x.key)))
             = SumOf(SpendOf(b), S!Owned(b.events, e))
<1> DEFINE mine == S!Owned(b.events, e)
<1>1. mine \subseteq b.events /\ IsFiniteSet(b.events)
  BY DEF S!Owned, WellRead
<1> HIDE DEF mine
<1>2. IsFiniteSet(mine)
  BY <1>1, FS_Subset
<1>3. S!Total(mine, LAMBDA x : x.amount * (One + S!feeOf(b, x.key)))
         = SumOf([x \in mine |-> x.amount * (One + S!feeOf(b, x.key))], mine)
  BY <1>2, EventsSum
<1>4. \A x \in mine : x.amount \in Int /\ S!feeOf(b, x.key) \in Int
  BY <1>1 DEF WellRead
<1>5. \A x \in mine :
         /\ SpendOf(b)[x] \in Int
         /\ [y \in mine |-> y.amount * (One + S!feeOf(b, y.key))][x] = SpendOf(b)[x]
  BY <1>1, <1>4, InputsAssumption DEF SpendOf
<1>6. SumOf([x \in mine |-> x.amount * (One + S!feeOf(b, x.key))], mine) = SumOf(SpendOf(b), mine)
  BY <1>2, <1>5, SumSame
<1> QED
  BY <1>3, <1>6 DEF mine

\* The employees' profits add up to incomes less card spend.
LEMMA ProfitsAddUp ==
    ASSUME NEW b, WellRead(b), Accepted(b), IsFiniteSet(Employees)
    PROVE  LET profits == S!calculateEmployeeProfits(b)
               E == S!collectEmployeeIds(b)
           IN  /\ \A e \in E : profits[e] \in Int
               /\ SumOf(profits, E) = One * SumOf(AmountOf(b.incomes), b.incomes)
                                      - SumOf(SpendOf(b), b.events)
                                      - SumOf(AmountOf(b.cards), b.cards)
<1> DEFINE profits == S!calculateEmployeeProfits(b)
           E == S!collectEmployeeIds(b)
           inc == [e \in E |-> SumOf(AmountOf(b.incomes), S!Owned(b.incomes, e))]
           spent == [e \in E |-> SumOf(SpendOf(b), S!Owned(b.events, e))]
           cards == [e \in E |-> SumOf(AmountOf(b.cards), S!Owned(b.cards, e))]
           less == [e \in E |-> inc[e] * One - spent[e]]
<1>1. IsFiniteSet(E) /\ One \in Int
  BY Paid, InputsAssumption
<1>2. /\ \A x \in b.incomes : x.employee \in E /\ x.amount \in Int
      /\ \A x \in b.events : x.employee \in E /\ x.amount \in Int
      /\ \A x \in b.cards : x.employee \in E /\ x.amount \in Int
  BY Paid DEF WellRead, Accepted
<1>3. /\ IsFiniteSet(b.incomes) /\ \A x \in b.incomes : AmountOf(b.incomes)[x] \in Int
      /\ IsFiniteSet(b.cards) /\ \A x \in b.cards : AmountOf(b.cards)[x] \in Int
  BY <1>2 DEF AmountOf, WellRead
<1>4. IsFiniteSet(b.events) /\ \A x \in b.events : SpendOf(b)[x] \in Int
  <2>1. \A x \in b.events : x.amount \in Int /\ S!feeOf(b, x.key) \in Int
    BY DEF WellRead
  <2> QED
    BY <1>1, <2>1 DEF SpendOf, WellRead
<1>5. ASSUME NEW e \in E
      PROVE  profits[e] = One * inc[e] - spent[e] - cards[e]
  <2>1. profits[e] = One * S!Total(S!Owned(b.incomes, e), LAMBDA x : x.amount)
                       - S!Total(S!Owned(b.events, e), LAMBDA x : x.amount * (One + S!feeOf(b, x.key)))
                       - S!Total(S!Owned(b.cards, e), LAMBDA x : x.amount)
    BY DEF S!calculateEmployeeProfits
  <2>2. S!Total(S!Owned(b.incomes, e), LAMBDA x : x.amount) = inc[e]
    BY <1>2, <1>3, OwnedAmounts
  <2>3. S!Total(S!Owned(b.cards, e), LAMBDA x : x.amount) = cards[e]
    BY <1>2, <1>3, OwnedAmounts
  <2>4. S!Total(S!Owned(b.events, e), LAMBDA x : x.amount * (One + S!feeOf(b, x.key))) = spent[e]
    BY OwnedEvents
  <2> HIDE DEF profits, inc, spent, cards
  <2> QED
    BY <2>1, <2>2, <2>3, <2>4
<1> HIDE DEF E
<1>6. /\ SumOf(inc, E) = SumOf(AmountOf(b.incomes), b.incomes)
      /\ \A e \in E : inc[e] \in Int
      /\ SumOf(AmountOf(b.incomes), b.incomes) \in Int
  BY <1>1, <1>2, <1>3, OwnersAddUp
<1>7. /\ SumOf(spent, E) = SumOf(SpendOf(b), b.events)
      /\ \A e \in E : spent[e] \in Int
      /\ SumOf(SpendOf(b), b.events) \in Int
  BY <1>1, <1>2, <1>4, OwnersAddUp
<1>8. /\ SumOf(cards, E) = SumOf(AmountOf(b.cards), b.cards)
      /\ \A e \in E : cards[e] \in Int
      /\ SumOf(AmountOf(b.cards), b.cards) \in Int
  BY <1>1, <1>2, <1>3, OwnersAddUp
<1> HIDE DEF profits, inc, spent, cards
<1> DEFINE minus == [e \in E |-> (-1) * spent[e] - cards[e]]
<1>9. \A e \in E : minus[e] = (-1) * spent[e] - cards[e] /\ minus[e] \in Int
  BY <1>7, <1>8
<1> HIDE DEF minus
<1>10. SumOf(profits, E) = SumOf(minus, E) + One * SumOf(inc, E)
  <2>1. ASSUME NEW e \in E
        PROVE  minus[e] \in Int /\ inc[e] \in Int /\ profits[e] = minus[e] + One * inc[e]
    <3>1. One * inc[e] \in Int
      BY <1>1, <1>6
    <3> QED
      BY <1>5, <1>6, <1>7, <1>8, <1>9, <3>1
  <2> QED
    BY <1>1, <2>1, SumLinear
<1> DEFINE owed == [e \in E |-> -cards[e]]
<1>11. \A e \in E : owed[e] = (-1) * cards[e] /\ owed[e] \in Int
                    /\ minus[e] = owed[e] + (-1) * spent[e]
  BY <1>7, <1>8, <1>9
<1> HIDE DEF owed
<1>12. SumOf(owed, E) = (-1) * SumOf(cards, E)
  BY <1>1, <1>8, <1>11, SumTimes
<1>13. SumOf(minus, E) = SumOf(owed, E) + (-1) * SumOf(spent, E)
  BY <1>1, <1>7, <1>11, SumLinear
<1>14. \A e \in E : profits[e] \in Int
  <2> SUFFICES ASSUME NEW e \in E PROVE profits[e] \in Int
    OBVIOUS
  <2>1. One * inc[e] \in Int
    BY <1>1, <1>6
  <2> QED
    BY <1>5, <1>7, <1>8, <2>1
<1>15. One * SumOf(inc, E) \in Int
  BY <1>1, <1>6
<1>16. SumOf(profits, E) = One * SumOf(AmountOf(b.incomes), b.incomes)
                           - SumOf(SpendOf(b), b.events) - SumOf(AmountOf(b.cards), b.cards)
  BY <1>6, <1>7, <1>8, <1>10, <1>12, <1>13, <1>15
<1> QED
  BY <1>14, <1>16 DEF profits, E

ProfitOfGroup(b, profits, g) ==
    S!Total({x \in b.members : x.group = g}, LAMBDA x : profits[x.employee])

\* What a group allocates to its members is its members' profit.
LEMMA GroupsAllocateTheirProfit ==
    ASSUME NEW b, WellRead(b), Accepted(b), NEW profits,
           \A m \in b.members : profits[m.employee] \in Int,
           NEW total,
           \A m \in b.members : total[m.group] = ProfitOfGroup(b, profits, m.group)
    PROVE  /\ SumOf([m \in b.members |-> total[m.group] * m.share], b.members)
                = One * SumOf([m \in b.members |-> profits[m.employee]], b.members)
           /\ \A m \in b.members : total[m.group] \in Int
<1> DEFINE M == b.members
           p == [m \in M |-> m.group]
           G == {m.group : m \in M}
           prof == [m \in M |-> profits[m.employee]]
           share == [m \in M |-> m.share]
           given == [m \in M |-> total[m.group] * m.share]
<1>1. IsFiniteSet(M) /\ One \in Int
  BY InputsAssumption DEF WellRead
<1>2. IsFiniteSet(G)
  <2>1. p \in Surjection(M, G)
    BY DEF Surjection
  <2> QED
    BY <1>1, <2>1, FS_Surjection
<1>3. \A m \in M : p[m] \in G /\ p[m] = m.group
  OBVIOUS
<1>4. \A m \in M : prof[m] \in Int /\ share[m] \in Int
  BY DEF WellRead
<1>5. ASSUME NEW g \in G
      PROVE  /\ total[g] \in Int
             /\ total[g] = SumOf(prof, Part(p, M, g))
             /\ SumOf(share, Part(p, M, g)) = One
             /\ IsFiniteSet(Part(p, M, g)) /\ Part(p, M, g) \subseteq M
  <2> DEFINE all == Part(p, M, g)
  <2>1. PICK m \in M : m.group = g
    OBVIOUS
  <2>2. all = {x \in M : x.group = g} /\ all \subseteq M
    BY DEF Part
  <2> HIDE DEF all
  <2>3. IsFiniteSet(all)
    BY <1>1, <2>2, FS_Subset
  <2>4. total[g] = S!Total(all, LAMBDA x : profits[x.employee])
    BY <2>1, <2>2 DEF ProfitOfGroup
  <2>5. S!Total(all, LAMBDA x : profits[x.employee]) = SumOf([x \in all |-> profits[x.employee]], all)
    BY <2>3, ProfitsSum
  <2>6. S!Total(all, LAMBDA x : x.share) = SumOf([x \in all |-> x.share], all)
    BY <2>3, SharesSum
  <2>7. S!Total(all, LAMBDA x : x.share) = One
    BY <2>1, <2>2 DEF Accepted, S!sharesOf
  <2>8. SumOf([x \in all |-> profits[x.employee]], all) = SumOf(prof, all)
    <3>1. \A x \in all : prof[x] \in Int /\ [y \in all |-> profits[y.employee]][x] = prof[x]
      BY <1>4, <2>2
    <3> HIDE DEF prof
    <3> QED
      BY <2>3, <3>1, SumSame
  <2>9. SumOf([x \in all |-> x.share], all) = SumOf(share, all)
    <3>1. \A x \in all : share[x] \in Int /\ [y \in all |-> y.share][x] = share[x]
      BY <1>4, <2>2
    <3> HIDE DEF share
    <3> QED
      BY <2>3, <3>1, SumSame
  <2>10. SumOf(prof, all) \in Int
    BY <1>4, <2>2, <2>3, SumOfIntegers
  <2> QED
    BY <2>2, <2>3, <2>4, <2>5, <2>6, <2>7, <2>8, <2>9, <2>10 DEF all
<1>6. ASSUME NEW m \in M PROVE total[m.group] \in Int
  BY <1>5
<1>7. \A m \in M : given[m] = total[m.group] * share[m] /\ given[m] \in Int
  <2> SUFFICES ASSUME NEW m \in M PROVE given[m] = total[m.group] * share[m] /\ given[m] \in Int
    OBVIOUS
  <2>1. given[m] = total[m.group] * share[m]
    OBVIOUS
  <2>2. share[m] \in Int /\ total[m.group] \in Int
    BY <1>4, <1>6
  <2> HIDE DEF given, share
  <2> QED
    BY <2>1, <2>2
<1> HIDE DEF M, p, G, prof, share, given
<1>8. ASSUME NEW g \in G
      PROVE  SumOf(given, Part(p, M, g)) = One * SumOf(prof, Part(p, M, g))
  <2> DEFINE all == Part(p, M, g)
  <2>1. \A m \in all : m \in M /\ given[m] = total[g] * share[m] /\ share[m] \in Int
    BY <1>3, <1>4, <1>7 DEF Part
  <2>2. IsFiniteSet(all) /\ total[g] \in Int
    BY <1>5
  <2> HIDE DEF all
  <2>3. SumOf(given, all) = total[g] * SumOf(share, all)
    BY <2>1, <2>2, SumTimes
  <2>4. SumOf(share, all) = One /\ total[g] = SumOf(prof, all)
    BY <1>5 DEF all
  <2>5. total[g] * One = One * total[g]
    BY <1>1, <2>2
  <2> QED
    BY <2>3, <2>4, <2>5 DEF all
<1> DEFINE givenBy == [g \in G |-> SumOf(given, Part(p, M, g))]
           profBy == [g \in G |-> SumOf(prof, Part(p, M, g))]
<1>9. \A g \in G : givenBy[g] = One * profBy[g] /\ profBy[g] \in Int
  BY <1>5, <1>8
<1>10. SumOf(givenBy, G) = SumOf(given, M)
  BY <1>1, <1>2, <1>3, <1>7, SumByParts
<1>11. SumOf(profBy, G) = SumOf(prof, M)
  BY <1>1, <1>2, <1>3, <1>4, SumByParts
<1> HIDE DEF givenBy, profBy
<1>12. SumOf(givenBy, G) = One * SumOf(profBy, G)
  BY <1>1, <1>2, <1>9, SumTimes
<1>13. SumOf(given, M) = One * SumOf(prof, M)
  BY <1>10, <1>11, <1>12
<1> QED
  BY <1>6, <1>13 DEF given, prof, M

\* What an employee is allocated: his profit without a group, else his share of the group's.
LEMMA AllocatedOf ==
    ASSUME NEW b, WellRead(b), NEW e \in S!collectEmployeeIds(b)
    PROVE  LET result == S!calculate(b)[e]
               profits == S!calculateEmployeeProfits(b)
           IN  /\ (~ \E m \in b.members : m.employee = e)
                    => result.allocated = profits[e] * One
               /\ \A m \in b.members : m.employee = e
                    => result.allocated = S!calculateGroupTotals(b, m.group) * m.share
<1> DEFINE profits == S!calculateEmployeeProfits(b)
           member == S!buildGroupsByEmployee(b, e)
<1>1. S!calculate(b)[e].allocated
         = IF member = None THEN profits[e] * One
           ELSE S!calculateGroupTotals(b, member.group) * member.share
  BY DEF S!calculate, S!Result
<1>2. (~ \E m \in b.members : m.employee = e) => member = None
  BY DEF S!buildGroupsByEmployee, S!Owned
<1>3. ASSUME NEW m \in b.members, m.employee = e PROVE member = m /\ member # None
  <2>1. S!Owned(b.members, e) = {m}
    BY <1>3 DEF S!Owned, WellRead
  <2>2. member = m
    BY <2>1 DEF S!buildGroupsByEmployee
  <2> QED
    BY <2>2 DEF WellRead
<1> HIDE DEF member
<1> QED
  BY <1>1, <1>2, <1>3

\* Every allocated cent is an earned one, and the other way round.
LEMMA AllocatedAddsUp ==
    ASSUME NEW b, WellRead(b), Accepted(b), IsFiniteSet(Employees)
    PROVE  LET results == S!calculate(b)
               E == S!collectEmployeeIds(b)
           IN  /\ \A e \in E : results[e].allocated \in Int
               /\ SumOf([e \in E |-> results[e].allocated], E)
                    = SumOf(S!calculateEmployeeProfits(b), E) * One
<1> DEFINE M == b.members
           E == S!collectEmployeeIds(b)
           profits == S!calculateEmployeeProfits(b)
           allocated == [e \in E |-> S!calculate(b)[e].allocated]
           total == [g \in {m.group : m \in M} |-> S!calculateGroupTotals(b, g)]
           p == [m \in M |-> m.employee]
           given == [m \in M |-> total[m.group] * m.share]
           prof == [m \in M |-> profits[m.employee]]
           givenTo == [e \in E |-> SumOf(given, Part(p, M, e))]
           profOf == [e \in E |-> SumOf(prof, Part(p, M, e))]
<1>1. IsFiniteSet(M) /\ IsFiniteSet(E) /\ One \in Int
  BY Paid, InputsAssumption DEF WellRead
<1>2. \A e \in E : profits[e] \in Int
  BY ProfitsAddUp
<1>3. \A m \in M : m.employee \in E /\ p[m] = m.employee /\ m.share \in Int
  BY Paid DEF WellRead
<1>4. \A m \in M : total[m.group] = ProfitOfGroup(b, profits, m.group)
  <2> SUFFICES ASSUME NEW m \in M
               PROVE  S!calculateGroupTotals(b, m.group) = ProfitOfGroup(b, profits, m.group)
    OBVIOUS
  <2> QED
    BY DEF S!calculateGroupTotals, ProfitOfGroup
<1>5. \A m \in M : profits[m.employee] \in Int
  BY <1>2, <1>3
<1>6. ASSUME NEW e \in E
      PROVE  /\ (~ \E m \in M : m.employee = e) => allocated[e] = profits[e] * One
             /\ \A m \in M : m.employee = e => allocated[e] = total[m.group] * m.share
  BY AllocatedOf
<1> HIDE DEF total, profits, allocated
<1>7. /\ SumOf(given, M) = One * SumOf(prof, M)
      /\ \A m \in M : total[m.group] \in Int
  BY <1>4, <1>5, GroupsAllocateTheirProfit
<1>8. \A m \in M : /\ given[m] = total[m.group] * m.share /\ given[m] \in Int
                   /\ prof[m] = profits[m.employee] /\ prof[m] \in Int
  <2> SUFFICES ASSUME NEW m \in M
               PROVE  /\ given[m] = total[m.group] * m.share /\ given[m] \in Int
                      /\ prof[m] = profits[m.employee] /\ prof[m] \in Int
    OBVIOUS
  <2>1. given[m] = total[m.group] * m.share /\ prof[m] = profits[m.employee]
    OBVIOUS
  <2>2. m.share \in Int /\ total[m.group] \in Int /\ profits[m.employee] \in Int
    BY <1>3, <1>5, <1>7
  <2> HIDE DEF given, prof
  <2> QED
    BY <2>1, <2>2
<1> HIDE DEF given, prof
<1>9. ASSUME NEW e \in E
      PROVE  /\ allocated[e] \in Int /\ givenTo[e] \in Int /\ profOf[e] \in Int
             /\ allocated[e] = One * profits[e] + (givenTo[e] - One * profOf[e])
  <2>1. profits[e] \in Int /\ profits[e] * One \in Int /\ profits[e] * One = One * profits[e]
    BY <1>1, <1>2
  <2>2. CASE ~ \E m \in M : m.employee = e
    <3>1. Part(p, M, e) = {}
      BY <1>3, <2>2 DEF Part
    <3>2. givenTo[e] = 0 /\ profOf[e] = 0
      BY <3>1, SumOfNothing
    <3> HIDE DEF givenTo, profOf
    <3> QED
      BY <1>1, <1>6, <2>1, <2>2, <3>2
  <2>3. ASSUME NEW m \in M, m.employee = e
        PROVE  /\ allocated[e] \in Int /\ givenTo[e] \in Int /\ profOf[e] \in Int
               /\ allocated[e] = One * profits[e] + (givenTo[e] - One * profOf[e])
    <3>1. Part(p, M, e) = {m}
      BY <1>3, <2>3 DEF Part, WellRead
    <3>2. givenTo[e] = given[m] /\ profOf[e] = prof[m]
      <4>1. givenTo[e] = SumOf(given, {m}) /\ profOf[e] = SumOf(prof, {m})
        BY <3>1
      <4>2. given[m] \in Int /\ prof[m] \in Int
        BY <1>8
      <4> QED
        BY <4>1, <4>2, SumOfOne
    <3> HIDE DEF givenTo, profOf
    <3>3. allocated[e] = given[m] /\ profOf[e] = profits[e]
      BY <1>6, <1>8, <2>3, <3>2
    <3> QED
      BY <1>8, <2>1, <2>3, <3>2, <3>3
  <2> QED
    BY <2>2, <2>3
<1> DEFINE rest == [e \in E |-> givenTo[e] - One * profOf[e]]
<1>10. \A e \in E : /\ rest[e] = givenTo[e] + (-One) * profOf[e] /\ rest[e] \in Int
                    /\ allocated[e] = rest[e] + One * profits[e]
  BY <1>1, <1>2, <1>9
<1>11. SumOf(givenTo, E) = SumOf(given, M) /\ SumOf(profOf, E) = SumOf(prof, M)
  <2>1. \A m \in M : p[m] \in E
    BY <1>3
  <2> HIDE DEF p
  <2> QED
    BY <1>1, <1>8, <2>1, SumByParts
<1>12. SumOf(prof, M) \in Int
  BY <1>1, <1>8, SumOfIntegers
<1> HIDE DEF rest, givenTo, profOf, E, M
<1>13. SumOf(rest, E) = SumOf(givenTo, E) + (-One) * SumOf(profOf, E)
  BY <1>1, <1>9, <1>10, SumLinear
<1>14. SumOf(allocated, E) = SumOf(rest, E) + One * SumOf(profits, E)
  BY <1>1, <1>2, <1>10, SumLinear
<1>15. SumOf(profits, E) \in Int
  BY <1>1, <1>2, SumOfIntegers
<1>16. SumOf(rest, E) = 0
  BY <1>1, <1>7, <1>11, <1>12, <1>13
<1>17. SumOf(allocated, E) = SumOf(profits, E) * One
  BY <1>1, <1>14, <1>15, <1>16
<1> QED
  BY <1>9, <1>17 DEF allocated, profits, E

\* The losses the employees' profits are set off against add up to the losses there are.
LEMMA CarriedAddsUp ==
    ASSUME NEW b, WellRead(b), IsFiniteSet(Employees)
    PROVE  LET results == S!calculate(b)
               E == S!collectEmployeeIds(b)
           IN  /\ \A e \in E : results[e].carried \in Int
               /\ SumOf([e \in E |-> results[e].carried], E)
                    = SumOf(AmountOf(b.losses), b.losses) * S!UsdUnit
<1> DEFINE E == S!collectEmployeeIds(b)
           D == b.losses
           own == [e \in E |-> SumOf(AmountOf(D), S!Owned(D, e))]
           carried == [e \in E |-> S!calculate(b)[e].carried]
           unit == S!UsdUnit
<1>1. IsFiniteSet(E) /\ IsFiniteSet(D) /\ unit \in Int
  BY Paid, InputsAssumption DEF WellRead, S!UsdUnit
<1>2. \A x \in D : x.employee \in E /\ x.amount \in Int
  BY Paid DEF WellRead
<1>3. \A x \in D : AmountOf(D)[x] \in Int
  BY <1>2 DEF AmountOf
<1>4. ASSUME NEW e \in E PROVE carried[e] = own[e] * unit
  <2>1. carried[e] = S!Total(S!Owned(D, e), LAMBDA x : x.amount) * unit
    BY DEF S!calculate, S!Result, S!sumHistoricalNegativeProfits
  <2>2. S!Total(S!Owned(D, e), LAMBDA x : x.amount) = own[e]
    BY <1>1, <1>2, OwnedAmounts
  <2> HIDE DEF carried, own, unit
  <2> QED
    BY <2>1, <2>2
<1> HIDE DEF E, D, carried, unit
<1>5. /\ SumOf(own, E) = SumOf(AmountOf(D), D)
      /\ \A e \in E : own[e] \in Int
      /\ SumOf(AmountOf(D), D) \in Int
  BY <1>1, <1>2, <1>3, OwnersAddUp
<1> HIDE DEF own
<1>6. \A e \in E : carried[e] = unit * own[e] /\ carried[e] \in Int
  BY <1>1, <1>4, <1>5
<1>7. SumOf(carried, E) = unit * SumOf(own, E)
  BY <1>1, <1>5, <1>6, SumTimes
<1>8. SumOf(carried, E) = SumOf(AmountOf(D), D) * unit
  BY <1>1, <1>5, <1>7
<1> QED
  BY <1>6, <1>8 DEF E, D, carried, unit

SignedOf(D) == [x \in D |-> IF x.type = "addition" THEN x.amount ELSE -x.amount]

\* The manual items of one employee, as a part of those of all.
LEMMA OwnedItems ==
    ASSUME NEW D, IsFiniteSet(D), \A x \in D : x.amount \in Int, NEW e
    PROVE  S!Total(S!Owned(D, e), LAMBDA x : IF x.type = "addition" THEN x.amount ELSE -x.amount)
             = SumOf(SignedOf(D), S!Owned(D, e))
<1> DEFINE mine == S!Owned(D, e)
<1>1. mine \subseteq D
  BY DEF S!Owned
<1> HIDE DEF mine
<1>2. IsFiniteSet(mine)
  BY <1>1, FS_Subset
<1>3. S!Total(mine, LAMBDA x : IF x.type = "addition" THEN x.amount ELSE -x.amount)
         = SumOf([x \in mine |-> IF x.type = "addition" THEN x.amount ELSE -x.amount], mine)
  BY <1>2, ItemsSum
<1>4. \A x \in mine :
         /\ SignedOf(D)[x] \in Int
         /\ [y \in mine |-> IF y.type = "addition" THEN y.amount ELSE -y.amount][x] = SignedOf(D)[x]
  BY <1>1 DEF SignedOf
<1>5. SumOf([x \in mine |-> IF x.type = "addition" THEN x.amount ELSE -x.amount], mine)
         = SumOf(SignedOf(D), mine)
  BY <1>2, <1>4, SumSame
<1> QED
  BY <1>3, <1>5 DEF mine

\* Their manual amounts add up to the items there are.
LEMMA ManualAddsUp ==
    ASSUME NEW b, WellRead(b), IsFiniteSet(Employees)
    PROVE  LET results == S!calculate(b)
               E == S!collectEmployeeIds(b)
           IN  /\ \A e \in E : results[e].manual \in Int
               /\ SumOf([e \in E |-> results[e].manual], E)
                    = SumOf(SignedOf(b.items), b.items) * S!RmbUnit
<1> DEFINE E == S!collectEmployeeIds(b)
           D == b.items
           own == [e \in E |-> SumOf(SignedOf(D), S!Owned(D, e))]
           manual == [e \in E |-> S!calculate(b)[e].manual]
           unit == S!RmbUnit
<1>1. IsFiniteSet(E) /\ IsFiniteSet(D) /\ unit \in Int
  BY Paid, InputsAssumption DEF WellRead, S!RmbUnit, S!UsdUnit
<1>2. \A x \in D : x.employee \in E /\ x.amount \in Int
  BY Paid DEF WellRead
<1>3. \A x \in D : SignedOf(D)[x] \in Int
  BY <1>2 DEF SignedOf
<1>4. ASSUME NEW e \in E PROVE manual[e] = own[e] * unit
  <2>1. manual[e] = S!Total(S!Owned(D, e),
                            LAMBDA x : IF x.type = "addition" THEN x.amount ELSE -x.amount) * unit
    BY DEF S!calculate, S!Result, S!sumManualSalaryItems
  <2>2. S!Total(S!Owned(D, e), LAMBDA x : IF x.type = "addition" THEN x.amount ELSE -x.amount) = own[e]
    BY <1>1, <1>2, OwnedItems
  <2> HIDE DEF manual, own, unit
  <2> QED
    BY <2>1, <2>2
<1> HIDE DEF E, D, manual, unit
<1>5. /\ SumOf(own, E) = SumOf(SignedOf(D), D)
      /\ \A e \in E : own[e] \in Int
      /\ SumOf(SignedOf(D), D) \in Int
  BY <1>1, <1>2, <1>3, OwnersAddUp
<1> HIDE DEF own
<1>6. \A e \in E : manual[e] = unit * own[e] /\ manual[e] \in Int
  BY <1>1, <1>4, <1>5
<1>7. SumOf(manual, E) = unit * SumOf(own, E)
  BY <1>1, <1>5, <1>6, SumTimes
<1>8. SumOf(manual, E) = SumOf(SignedOf(D), D) * unit
  BY <1>1, <1>5, <1>7
<1> QED
  BY <1>6, <1>8 DEF E, D, manual, unit

-----------------------------------------------------------------------------
\* A product grows with its factors.
LEMMA ProductsGrow ==
    ASSUME NEW c \in Nat, NEW d \in Nat, NEW p \in Nat, NEW q \in Nat, NEW x \in Nat,
           c <= d, p <= q
    PROVE  c * p * x <= d * q * x
<1>1. c * p <= d * q
  <2>1. c * p <= d * p
    OBVIOUS
  <2>2. d * p <= d * q
    OBVIOUS
  <2>3. c * p \in Nat /\ d * p \in Nat /\ d * q \in Nat
    OBVIOUS
  <2> QED
    BY <2>1, <2>2, <2>3
<1>2. c * p \in Nat /\ d * q \in Nat
  OBVIOUS
<1>3. \A u, v \in Nat : u <= v => u * x <= v * x
  OBVIOUS
<1> QED
  BY <1>1, <1>2, <1>3

\* The tier of a larger commission is no worse in any of its columns.
LEMMA TiersGrow ==
    ASSUME NEW c \in Nat, NEW d \in Nat, c <= d, NEW mode
    PROVE  LET a == S!calculateSalaryTier(c, mode)
               z == S!calculateSalaryTier(d, mode)
           IN  /\ a.base \in Nat /\ a.star \in Nat /\ a.percent \in Nat
               /\ z.base \in Nat /\ z.star \in Nat /\ z.percent \in Nat
               /\ a.base + a.star <= z.base + z.star /\ a.percent <= z.percent
<1> DEFINE U == S!UsdUnit
<1>1. U \in Nat
  BY InputsAssumption DEF S!UsdUnit
<1> HIDE DEF U
<1> DEFINE T(x) ==
       CASE x < 3000 * U -> S!Tier(2500, 0, 0)
         [] ~(x < 3000 * U) /\ x < 5000 * U ->
               IF mode = "single" THEN S!Tier(3000, 300, 4) ELSE S!Tier(3000, 0, 0)
         [] ~(x < 5000 * U) /\ x < 15000 * U -> S!Tier(3000, 500, 6)
         [] ~(x < 15000 * U) /\ x < 30000 * U -> S!Tier(3000, 1000, 8)
         [] ~(x < 30000 * U) /\ x < 50000 * U -> S!Tier(3000, 2000, 10)
         [] ~(x < 50000 * U) /\ x < 100000 * U -> S!Tier(3000, 3000, 14)
         [] OTHER -> S!Tier(3000, 4000, 18)
<1>2. S!calculateSalaryTier(c, mode) = T(c) /\ S!calculateSalaryTier(d, mode) = T(d)
  BY DEF S!calculateSalaryTier, U
<1> DEFINE first == S!Tier(2500, 0, 0)
           Level(x, t) ==
               \/ x < 3000 * U /\ t = first
               \/ 3000 * U <= x /\ x < 5000 * U
                    /\ t = IF mode = "single" THEN S!Tier(3000, 300, 4) ELSE S!Tier(3000, 0, 0)
               \/ 5000 * U <= x /\ x < 15000 * U /\ t = S!Tier(3000, 500, 6)
               \/ 15000 * U <= x /\ x < 30000 * U /\ t = S!Tier(3000, 1000, 8)
               \/ 30000 * U <= x /\ x < 50000 * U /\ t = S!Tier(3000, 2000, 10)
               \/ 50000 * U <= x /\ x < 100000 * U /\ t = S!Tier(3000, 3000, 14)
               \/ 100000 * U <= x /\ t = S!Tier(3000, 4000, 18)
<1>3. ASSUME NEW x \in Nat PROVE Level(x, T(x))
  BY <1>1
<1> HIDE DEF T
<1>4. ASSUME NEW x \in Nat, NEW t, Level(x, t)
      PROVE  /\ t.base \in Nat /\ t.star \in Nat /\ t.percent \in Nat
             /\ \/ x < 3000 * U /\ t.base + t.star = 2500 /\ t.percent = 0
                \/ 3000 * U <= x /\ x < 5000 * U /\ mode = "single"
                     /\ t.base + t.star = 3300 /\ t.percent = 4
                \/ 3000 * U <= x /\ x < 5000 * U /\ mode # "single"
                     /\ t.base + t.star = 3000 /\ t.percent = 0
                \/ 5000 * U <= x /\ x < 15000 * U /\ t.base + t.star = 3500 /\ t.percent = 6
                \/ 15000 * U <= x /\ x < 30000 * U /\ t.base + t.star = 4000 /\ t.percent = 8
                \/ 30000 * U <= x /\ x < 50000 * U /\ t.base + t.star = 5000 /\ t.percent = 10
                \/ 50000 * U <= x /\ x < 100000 * U /\ t.base + t.star = 6000 /\ t.percent = 14
                \/ 100000 * U <= x /\ t.base + t.star = 7000 /\ t.percent = 18
  BY <1>4 DEF S!Tier
<1> DEFINE a == T(c)
           z == T(d)
<1>5. Level(c, a) /\ Level(d, z)
  BY <1>3
<1> HIDE DEF Level, a, z
<1>6. a.base + a.star <= z.base + z.star /\ a.percent <= z.percent
  BY <1>1, <1>4, <1>5
<1> QED
  BY <1>2, <1>4, <1>5, <1>6 DEF a, z

\* What an employee is paid without his manual items.
LEMMA PaidOf ==
    ASSUME NEW b, WellRead(b), Accepted(b), IsFiniteSet(Employees),
           NEW e \in S!collectEmployeeIds(b)
    PROVE  LET result == S!calculate(b)[e]
               tier == S!calculateSalaryTier(result.commission, result.mode)
               bonus == S!calculateAttendanceBonus(result.full)
           IN  /\ result.commission \in Nat
               /\ bonus \in Nat
               /\ result.final - result.manual
                    = (tier.base + tier.star + bonus) * S!RmbUnit
                      + result.commission * tier.percent * b.exchange
<1> DEFINE result == S!calculate(b)[e]
           tier == S!calculateSalaryTier(result.commission, result.mode)
           bonus == S!calculateAttendanceBonus(result.full)
<1>1. result.allocated \in Int /\ result.carried \in Int /\ result.manual \in Int
  BY AllocatedAddsUp, CarriedAddsUp, ManualAddsUp
<1>2. /\ result.commission
            = S!applyNegativeCarryover(result.allocated, result.carried).commission
      /\ result.full = (e \notin b.absent)
      /\ result.final = S!calculateFinalSalary(tier, bonus,
                              result.commission * tier.percent * b.exchange, result.manual)
  BY DEF S!calculate, S!Result
<1> HIDE DEF result
<1>3. result.commission \in Nat
  BY <1>1, <1>2 DEF S!applyNegativeCarryover
<1>4. bonus \in Nat
  BY DEF S!calculateAttendanceBonus
<1>5. tier.base \in Nat /\ tier.star \in Nat /\ tier.percent \in Nat
  BY <1>3, TiersGrow
<1> HIDE DEF tier, bonus
<1>6. (tier.base + tier.star + bonus) * S!RmbUnit \in Int
  BY <1>4, <1>5, InputsAssumption DEF S!RmbUnit, S!UsdUnit
<1>7. result.commission * tier.percent * b.exchange \in Int
  BY <1>3, <1>5 DEF WellRead
<1>8. result.final = (tier.base + tier.star + bonus) * S!RmbUnit
                       + result.commission * tier.percent * b.exchange + result.manual
  BY <1>2 DEF S!calculateFinalSalary
<1>9. result.final - result.manual
         = (tier.base + tier.star + bonus) * S!RmbUnit
           + result.commission * tier.percent * b.exchange
  BY <1>1, <1>6, <1>7, <1>8
<1> QED
  BY <1>3, <1>4, <1>9 DEF result, tier, bonus

\* Of two employees with the same mode and attendance, the one with the larger profit is
\* paid no less.
LEMMA PayGrows ==
    ASSUME NEW b, WellRead(b), Accepted(b), IsFiniteSet(Employees),
           NEW e \in S!collectEmployeeIds(b), NEW f \in S!collectEmployeeIds(b),
           NEW x, x = S!calculate(b)[e], NEW y, y = S!calculate(b)[f],
           x.mode = y.mode, x.full = y.full, x.commission <= y.commission
    PROVE  x.final - x.manual <= y.final - y.manual
<1> DEFINE s == S!calculateSalaryTier(x.commission, x.mode)
           t == S!calculateSalaryTier(y.commission, y.mode)
           bonus == S!calculateAttendanceBonus(x.full)
           unit == S!RmbUnit
<1>1. /\ x.commission \in Nat /\ bonus \in Nat
      /\ x.final - x.manual
           = (s.base + s.star + bonus) * unit + x.commission * s.percent * b.exchange
  BY PaidOf
<1>2. /\ y.commission \in Nat
      /\ y.final - y.manual
           = (t.base + t.star + bonus) * unit + y.commission * t.percent * b.exchange
  BY PaidOf
<1>3. /\ s.base \in Nat /\ s.star \in Nat /\ s.percent \in Nat
      /\ t.base \in Nat /\ t.star \in Nat /\ t.percent \in Nat
      /\ s.base + s.star <= t.base + t.star /\ s.percent <= t.percent
  BY <1>1, <1>2, TiersGrow
<1>4. unit \in Nat /\ b.exchange \in Nat
  BY InputsAssumption DEF S!RmbUnit, S!UsdUnit, WellRead
<1> HIDE DEF s, t, bonus, unit
<1>5. x.commission * s.percent * b.exchange <= y.commission * t.percent * b.exchange
  BY <1>1, <1>2, <1>3, <1>4, ProductsGrow
<1>6. (s.base + s.star + bonus) * unit <= (t.base + t.star + bonus) * unit
  <2>1. /\ s.base + s.star + bonus \in Nat /\ t.base + t.star + bonus \in Nat
        /\ s.base + s.star + bonus <= t.base + t.star + bonus
    BY <1>1, <1>3
  <2>2. \A u, v, w \in Nat : u <= v => u * w <= v * w
    OBVIOUS
  <2> QED
    BY <1>4, <2>1, <2>2
<1>7. /\ x.commission * s.percent * b.exchange \in Int
      /\ y.commission * t.percent * b.exchange \in Int
      /\ (s.base + s.star + bonus) * unit \in Int /\ (t.base + t.star + bonus) * unit \in Int
  BY <1>1, <1>2, <1>3, <1>4
<1> QED
  BY <1>1, <1>2, <1>5, <1>6, <1>7

-----------------------------------------------------------------------------
(* What is read of a month.                                                *)

Present(ids) == ids \in SUBSET Ids /\ \A id \in ids : rows[id] # None

\* What is selected from a table is there.
LEMMA AtIsPresent ==
    ASSUME NEW kind, NEW m, NEW statuses
    PROVE  Present(At(kind, m, statuses))
  BY DEF Present, At, Of

\* The rows that count are the ones that are read, for a table has its own statuses only.
LEMMA CountedIsRead ==
    ASSUME TypeOK, NEW m
    PROVE  /\ Counted("income", m) = At("income", m, {"confirmed"})
           /\ Counted("cardSpend", m) = At("cardSpend", m, {"confirmed"})
           /\ Counted("loss", m) = At("loss", m, ActiveRate)
           /\ Counted("salaryItem", m) = At("salaryItem", m, ActiveRate)
           /\ Counted("feeRate", m) = At("feeRate", m, ActiveRate)
<1>1. {"confirmed", "active"} = ActiveRate
  BY DEF ActiveRate
<1>2. ASSUME NEW id \in Ids, Kind[id] \in {"income", "cardSpend"}, rows[id] # None
      PROVE  rows[id].status # "active"
  BY <1>2 DEF TypeOK, StatusesOf
<1>3. /\ Counted("income", m) = At("income", m, {"confirmed"})
      /\ Counted("cardSpend", m) = At("cardSpend", m, {"confirmed"})
  BY <1>2 DEF Counted, At, Of
<1> QED
  BY <1>1, <1>3 DEF Counted

\* Reading rows loses none of them and none of their amounts.
LEMMA ReadSums ==
    ASSUME TypeOK, IsFiniteSet(Ids), NEW ids, Present(ids)
    PROVE  /\ IsFiniteSet(ids) /\ IsFiniteSet(Read(ids))
           /\ SumOf(AmountOf(Read(ids)), Read(ids)) = Sum(ids, LAMBDA id : rows[id].amount)
           /\ Sum(ids, LAMBDA id : rows[id].amount) \in Int
           /\ \A x \in Read(ids) : \E id \in ids :
                 x = [id |-> id, employee |-> rows[id].employee, key |-> rows[id].key,
                      amount |-> rows[id].amount]
<1> DEFINE q == [id \in ids |-> [id |-> id, employee |-> rows[id].employee,
                                 key |-> rows[id].key, amount |-> rows[id].amount]]
           f == [id \in ids |-> rows[id].amount]
<1>1. IsFiniteSet(ids)
  BY FS_Subset DEF Present
<1>2. \A id \in ids : f[id] \in Int
  BY DEF Present, TypeOK, Row
<1>3. Read(ids) = {q[id] : id \in ids}
  BY DEF Read
<1>4. \A i, j \in ids : q[i] = q[j] => i = j
  OBVIOUS
<1>5. \A id \in ids : AmountOf(Read(ids))[q[id]] = f[id]
  BY <1>3 DEF AmountOf
<1>6. Sum(ids, LAMBDA id : rows[id].amount) = SumOf(f, ids)
  BY <1>1, RowsSum
<1>7. \A x \in Read(ids) : \E id \in ids :
         x = [id |-> id, employee |-> rows[id].employee, key |-> rows[id].key,
              amount |-> rows[id].amount]
  BY DEF Read
<1>8. SumOf(f, ids) \in Int
  BY <1>1, <1>2, SumOfIntegers
<1> HIDE DEF q, f
<1>9. IsFiniteSet(Read(ids)) /\ SumOf(AmountOf(Read(ids)), Read(ids)) = SumOf(f, ids)
  BY <1>1, <1>2, <1>3, <1>4, <1>5, SumMoved
<1> QED
  BY <1>1, <1>6, <1>7, <1>8, <1>9

\* The read model's items.
ReadItems(m) ==
    {[id |-> id, employee |-> rows[id].employee, amount |-> rows[id].amount,
      type |-> configs[rows[id].key].type] : id \in At("salaryItem", m, ActiveRate)}

\* Reading items loses none of them and none of their signed amounts.
LEMMA ReadItemsSum ==
    ASSUME TypeOK, IsFiniteSet(Ids), NEW m
    PROVE  /\ IsFiniteSet(ReadItems(m))
           /\ SumOf(SignedOf(ReadItems(m)), ReadItems(m)) = ItemsOfMonth(m)
           /\ \A x \in ReadItems(m) : x.employee \in Employees /\ x.amount \in Int
<1> DEFINE ids == At("salaryItem", m, ActiveRate)
           q == [id \in ids |-> [id |-> id, employee |-> rows[id].employee,
                                 amount |-> rows[id].amount,
                                 type |-> configs[rows[id].key].type]]
           f == [id \in ids |-> IF configs[rows[id].key].type = "addition"
                                THEN rows[id].amount ELSE -rows[id].amount]
<1>1. Present(ids)
  BY AtIsPresent
<1>2. IsFiniteSet(ids)
  BY <1>1, FS_Subset DEF Present
<1>3. \A id \in ids : /\ rows[id].amount \in Int /\ rows[id].employee \in Employees
  BY DEF At, Of, TypeOK, Row, EmployeeOf
<1>4. ItemsOfMonth(m) = SumOf(f, ids)
  <2>1. ItemsOfMonth(m) = Sum(ids, LAMBDA id : IF configs[rows[id].key].type = "addition"
                                               THEN rows[id].amount ELSE -rows[id].amount)
    BY CountedIsRead DEF ItemsOfMonth
  <2> HIDE DEF ids
  <2> QED
    BY <1>2, <2>1, ItemRowsSum
<1>5. ReadItems(m) = {q[id] : id \in ids}
  BY DEF ReadItems
<1>6. \A x \in ReadItems(m) : x.employee \in Employees /\ x.amount \in Int
  BY <1>3 DEF ReadItems
<1> HIDE DEF ids
<1>7. \A id \in ids : f[id] \in Int
  BY <1>3
<1>8. \A i, j \in ids : q[i] = q[j] => i = j
  OBVIOUS
<1>9. \A id \in ids : SignedOf(ReadItems(m))[q[id]] = f[id]
  BY <1>5 DEF SignedOf
<1> HIDE DEF q, f
<1>10. IsFiniteSet(ReadItems(m)) /\ SumOf(SignedOf(ReadItems(m)), ReadItems(m)) = SumOf(f, ids)
  <2> DEFINE read == ReadItems(m)
             g == SignedOf(read)
  <2>1. read = {q[id] : id \in ids} /\ \A id \in ids : f[id] \in Int /\ g[q[id]] = f[id]
    BY <1>5, <1>7, <1>9
  <2> HIDE DEF read, g
  <2>2. IsFiniteSet(read) /\ SumOf(g, read) = SumOf(f, ids)
    BY <1>2, <1>8, <2>1, SumMoved
  <2> QED
    BY <2>2 DEF g, read
<1> QED
  BY <1>4, <1>6, <1>10

\* A provider's fee of a month is that of its one row, or 0.
LEMMA FeeIsRead ==
    ASSUME TypeOK, UniqueRates, IsFiniteSet(Ids), NEW m, NEW b,
           b.fees = Read(At("feeRate", m, ActiveRate)), NEW p
    PROVE  S!feeOf(b, p) = FeeAt(m, p) /\ FeeAt(m, p) \in Int
<1> DEFINE ids == {id \in At("feeRate", m, ActiveRate) : rows[id].key = p}
           read == {x \in b.fees : x.key = p}
           q(id) == [id |-> id, employee |-> rows[id].employee, key |-> rows[id].key,
                     amount |-> rows[id].amount]
<1>1. FeeAt(m, p) = Sum(ids, LAMBDA id : rows[id].amount)
  BY CountedIsRead DEF FeeAt
<1>2. Present(ids)
  BY DEF Present, At, Of
<1>3. read = {q(id) : id \in ids}
  BY DEF Read
<1>4. FeeAt(m, p) = SumOf([id \in ids |-> rows[id].amount], ids) /\ FeeAt(m, p) \in Int
  <2> HIDE DEF ids
  <2>1. IsFiniteSet(ids) /\ Sum(ids, LAMBDA id : rows[id].amount) \in Int
    BY <1>2, ReadSums
  <2>2. Sum(ids, LAMBDA id : rows[id].amount) = SumOf([id \in ids |-> rows[id].amount], ids)
    BY <2>1, RowsSum
  <2> QED
    BY <1>1, <2>1, <2>2
<1>5. CASE ids = {}
  <2>1. read = {}
    BY <1>3, <1>5
  <2>2. S!feeOf(b, p) = 0
    BY <2>1 DEF S!feeOf
  <2> QED
    BY <1>4, <1>5, <2>2, SumOfNothing
<1>6. CASE ids # {}
  <2>1. PICK id \in ids : TRUE
    BY <1>6
  <2>2. \A j \in ids : j = id
    BY <2>1 DEF UniqueRates, UniqueRate, At, Of
  <2>3. ids = {id}
    BY <2>1, <2>2
  <2>4. read = {q(id)}
    BY <1>3, <2>3
  <2>5. S!feeOf(b, p) = rows[id].amount
    <3>1. S!feeOf(b, p) = IF read = {} THEN 0 ELSE (CHOOSE x \in read : TRUE).amount
      BY DEF S!feeOf
    <3>2. (CHOOSE x \in {q(id)} : TRUE) = q(id)
      OBVIOUS
    <3> QED
      BY <2>4, <3>1, <3>2
  <2>6. rows[id].amount \in Int
    BY <1>2, <2>1 DEF Present, TypeOK, Row
  <2> HIDE DEF ids
  <2>7. SumOf([i \in {id} |-> rows[i].amount], {id}) = rows[id].amount
    BY <2>6, SumOfOne
  <2> QED
    BY <1>4, <2>3, <2>5, <2>7
<1> QED
  BY <1>5, <1>6

MembersAt(m) == {x \in members : x.month = m}

\* A month has a member for each employee at most.
LEMMA MembersAreFinite ==
    ASSUME TypeOK, OneGroupPerMonth, IsFiniteSet(Employees), NEW m
    PROVE  IsFiniteSet(MembersAt(m))
<1> DEFINE f == [x \in MembersAt(m) |-> x.employee]
<1>1. f \in Injection(MembersAt(m), Employees)
  <2>1. f \in [MembersAt(m) -> Employees]
    BY DEF MembersAt, TypeOK, Member
  <2>2. \A x, y \in MembersAt(m) : f[x] = f[y] => x = y
    BY DEF MembersAt, OneGroupPerMonth
  <2> HIDE DEF f
  <2> QED
    BY <2>1, <2>2 DEF Injection, IsInjective
<1> QED
  BY <1>1, FS_Injection

\* What is read of a month is well-formed.
LEMMA ReadIsWell ==
    ASSUME IInv, facts \in Facts, IsFiniteSet(Ids), IsFiniteSet(Employees), NEW m,
           ~MissingExchangeRate(m)
    PROVE  WellRead(readSettlementData(m))
<1> DEFINE b == readSettlementData(m)
           inc == Read(At("income", m, {"confirmed"}))
           cards == Read(At("cardSpend", m, {"confirmed"}))
           losses == Read(At("loss", m, ActiveRate))
<1>1. TypeOK /\ UniqueRates /\ OneGroupPerMonth
  BY DEF IInv
<1>2. /\ b.incomes = inc /\ b.events = EventsAt(m) /\ b.cards = cards
      /\ b.fees = Read(At("feeRate", m, ActiveRate)) /\ b.members = MembersAt(m)
      /\ b.losses = losses /\ b.items = ReadItems(m)
      /\ b.exchange = rows[CHOOSE id \in At("exchangeRate", m, ActiveRate) : TRUE].amount
      /\ b.attendance = facts.attendance
  BY DEF readSettlementData, MembersAt, ReadItems
<1>3. IsFiniteSet(inc) /\ IsFiniteSet(cards) /\ IsFiniteSet(losses)
  BY <1>1, AtIsPresent, ReadSums
<1>4. /\ IsFiniteSet(EventsAt(m)) /\ facts.attendance \subseteq Employees
      /\ \A x \in EventsAt(m) : x.employee \in Employees /\ x.amount \in Int
  BY FactsAssumption, FS_Subset DEF EventsAt
<1>5. \A x \in inc \cup cards \cup losses : x.employee \in Employees \cup {None} /\ x.amount \in Int
  BY <1>1 DEF Read, At, Of, TypeOK, Row
<1>6. \A x \in cards \cup losses : x.employee \in Employees
  BY <1>1 DEF Read, At, Of, TypeOK, EmployeeOf
<1>7. /\ IsFiniteSet(ReadItems(m))
      /\ \A x \in ReadItems(m) : x.employee \in Employees /\ x.amount \in Int
  BY <1>1, ReadItemsSum
<1>8. IsFiniteSet(MembersAt(m))
  BY <1>1, MembersAreFinite
<1>9. /\ None \notin MembersAt(m)
      /\ \A x \in MembersAt(m) : x.employee \in Employees /\ x.share \in Int
      /\ \A x, y \in MembersAt(m) : x.employee = y.employee => x = y
  BY <1>1, NoneIsNoRow DEF MembersAt, TypeOK, Member, OneGroupPerMonth
<1>10. b.exchange \in Nat
  <2>1. PICK id \in At("exchangeRate", m, ActiveRate) :
           id = CHOOSE i \in At("exchangeRate", m, ActiveRate) : TRUE
    BY DEF MissingExchangeRate
  <2>2. rows[id].amount \in Nat
    BY <1>1 DEF At, Of, TypeOK, Row
  <2> QED
    BY <1>2, <2>1, <2>2
<1>11. \A p : S!feeOf(b, p) \in Int
  <2> HIDE DEF b
  <2> QED
    BY <1>1, <1>2, FeeIsRead
<1> HIDE DEF b, inc, cards, losses
<1>12. WellRead(b)
  BY <1>2, <1>3, <1>4, <1>5, <1>6, <1>7, <1>8, <1>9, <1>10, <1>11 DEF WellRead
<1> QED
  BY <1>12 DEF b

-----------------------------------------------------------------------------
\* What the preflight lets through has an exchange rate, events of employees, their fee rates
\* and one group for an employee.
LEMMA PrecheckIsCovered ==
    ASSUME IInv, facts \in Facts
    PROVE  PreflightCoversPrecheck
<1> SUFFICES ASSUME NEW m \in Months, canGenerate(m)
             PROVE  /\ ~MissingExchangeRate(m)
                    /\ S!precheck(readSettlementData(m)) \subseteq {"shares", "unassignedIncome"}
  BY DEF PreflightCoversPrecheck
<1> DEFINE b == readSettlementData(m)
<1>1. ~MissingExchangeRate(m) /\ ~buildProviderFeeRateCheck(m)
  BY DEF canGenerate, MissingExchangeRate, buildExchangeRateCheck
<1>2. /\ b.events = EventsAt(m) /\ b.fees = Read(At("feeRate", m, ActiveRate))
      /\ b.members = {x \in members : x.month = m}
  BY DEF readSettlementData
<1>3. None \notin {x.employee : x \in b.events}
  BY <1>2, FactsAssumption, NoneIsNoRow DEF EventsAt
<1>4. {x.key : x \in b.events} \subseteq {x.key : x \in b.fees}
  <2>1. \A id \in At("feeRate", m, ActiveRate) : rows[id].key \in {x.key : x \in b.fees}
    <3> SUFFICES ASSUME NEW id \in At("feeRate", m, ActiveRate)
                 PROVE  \E x \in b.fees : x.key = rows[id].key
      OBVIOUS
    <3> DEFINE x == [id |-> id, employee |-> rows[id].employee, key |-> rows[id].key,
                     amount |-> rows[id].amount]
    <3>1. x \in b.fees /\ x.key = rows[id].key
      BY <1>2 DEF Read
    <3> QED
      BY <3>1
  <2> QED
    BY <1>1, <1>2, <2>1 DEF buildProviderFeeRateCheck, FeeProviders
<1>5. ~ \E x, y \in b.members : x # y /\ x.employee = y.employee
  BY <1>2 DEF IInv, OneGroupPerMonth
<1> HIDE DEF b
<1>6. "unassignedSpend" \notin S!precheck(b)
  BY <1>3 DEF S!precheck
<1>7. "feeRate" \notin S!precheck(b)
  BY <1>4 DEF S!precheck
<1>8. "membership" \notin S!precheck(b)
  BY <1>5 DEF S!precheck
<1>9. S!precheck(b) \subseteq
         {"unassignedIncome", "unassignedSpend", "feeRate", "membership", "shares"}
  BY DEF S!precheck
<1> QED
  BY <1>1, <1>6, <1>7, <1>8, <1>9 DEF b

\* A month that is calculated has passed the precheck.
LEMMA RefusedIsChecked ==
    ASSUME IInv, facts \in Facts, IsFiniteSet(Ids), IsFiniteSet(Employees), NEW m, ~Refused(m)
    PROVE  /\ ~MissingExchangeRate(m)
           /\ WellRead(readSettlementData(m)) /\ Accepted(readSettlementData(m))
  BY ReadIsWell, PrecheckAccepts DEF Refused

\* The profit of a month, from what is read of it.
LEMMA ProfitIsRead ==
    ASSUME IInv, facts \in Facts, IsFiniteSet(Ids), IsFiniteSet(Employees), NEW m,
           NEW b, b = readSettlementData(m), WellRead(b)
    PROVE  ProfitOfMonth(m) = One * SumOf(AmountOf(b.incomes), b.incomes)
                              - SumOf(SpendOf(b), b.events)
                              - SumOf(AmountOf(b.cards), b.cards)
<1> DEFINE incomes == Counted("income", m)
           cards == Counted("cardSpend", m)
           spend == MapThenSumSet(LAMBDA x : x.amount * (One + FeeAt(m, x.key)), EventsAt(m))
<1>1. TypeOK /\ UniqueRates
  BY DEF IInv
<1>2. ProfitOfMonth(m) = One * Sum(incomes, LAMBDA id : rows[id].amount)
                         - Sum(cards, LAMBDA id : rows[id].amount) - spend
  BY DEF ProfitOfMonth, FeeAt
<1>3. /\ b.incomes = Read(incomes) /\ b.cards = Read(cards) /\ b.events = EventsAt(m)
      /\ b.fees = Read(At("feeRate", m, ActiveRate))
  BY <1>1, CountedIsRead DEF readSettlementData
<1>4. Present(incomes) /\ Present(cards)
  BY AtIsPresent DEF Counted
<1> HIDE DEF incomes, cards
<1>5. /\ SumOf(AmountOf(b.incomes), b.incomes) = Sum(incomes, LAMBDA id : rows[id].amount)
      /\ SumOf(AmountOf(b.cards), b.cards) = Sum(cards, LAMBDA id : rows[id].amount)
      /\ Sum(incomes, LAMBDA id : rows[id].amount) \in Int
      /\ Sum(cards, LAMBDA id : rows[id].amount) \in Int
  BY <1>1, <1>3, <1>4, ReadSums
<1>6. spend = SumOf(SpendOf(b), b.events) /\ SumOf(SpendOf(b), b.events) \in Int
  <2> DEFINE f == [x \in b.events |-> x.amount * (One + FeeAt(m, x.key))]
  <2>1. IsFiniteSet(b.events)
    BY DEF WellRead
  <2>2. spend = SumOf(f, b.events)
    BY <1>3, <2>1, EventRowsSum
  <2>3. ASSUME NEW x \in b.events
        PROVE  f[x] = SpendOf(b)[x] /\ SpendOf(b)[x] \in Int
    <3>1. S!feeOf(b, x.key) = FeeAt(m, x.key) /\ FeeAt(m, x.key) \in Int
      BY <1>1, <1>3, FeeIsRead
    <3>2. x.amount \in Int
      BY DEF WellRead
    <3> QED
      BY <3>1, <3>2, InputsAssumption DEF SpendOf
  <2> HIDE DEF f, spend
  <2>4. SumOf(f, b.events) = SumOf(SpendOf(b), b.events)
    BY <2>1, <2>3, SumSame
  <2>5. SumOf(SpendOf(b), b.events) \in Int
    BY <2>1, <2>3, SumOfIntegers
  <2> QED
    BY <2>2, <2>4, <2>5
<1> HIDE DEF spend
<1>7. One * Sum(incomes, LAMBDA id : rows[id].amount) \in Int
  BY <1>5, InputsAssumption
<1> QED
  BY <1>2, <1>5, <1>6, <1>7

\* The totals of the results are those of the rows of the month.
LEMMA RowsAreUsedOnce ==
    ASSUME IInv, facts \in Facts, IsFiniteSet(Ids), IsFiniteSet(Employees)
    PROVE  EveryRowIsUsedOnce
<1> SUFFICES ASSUME NEW m \in Months, ~Refused(m),
                    NEW results, results = S!calculate(readSettlementData(m))
             PROVE  /\ MapThenSumSet(LAMBDA e : results[e].allocated, DOMAIN results)
                         = ProfitOfMonth(m) * One
                    /\ MapThenSumSet(LAMBDA e : results[e].carried, DOMAIN results)
                         = Sum(Counted("loss", m), LAMBDA id : rows[id].amount) * S!UsdUnit
                    /\ MapThenSumSet(LAMBDA e : results[e].manual, DOMAIN results)
                         = ItemsOfMonth(m) * S!RmbUnit
  BY DEF EveryRowIsUsedOnce
<1> DEFINE b == readSettlementData(m)
           E == S!collectEmployeeIds(b)
<1>1. WellRead(b) /\ Accepted(b)
  BY RefusedIsChecked
<1>2. DOMAIN results = E /\ results = S!calculate(b)
  BY DEF S!calculate
<1>3. /\ b.losses = Read(Counted("loss", m)) /\ b.items = ReadItems(m)
      /\ Present(Counted("loss", m))
  BY CountedIsRead, AtIsPresent DEF IInv, readSettlementData, ReadItems
<1>4. ProfitOfMonth(m) = One * SumOf(AmountOf(b.incomes), b.incomes)
                         - SumOf(SpendOf(b), b.events) - SumOf(AmountOf(b.cards), b.cards)
  BY <1>1, ProfitIsRead
<1> HIDE DEF b
<1>5. IsFiniteSet(E)
  BY <1>1, Paid
<1>6. MapThenSumSet(LAMBDA e : results[e].allocated, E) = ProfitOfMonth(m) * One
  <2>1. MapThenSumSet(LAMBDA e : results[e].allocated, E)
          = SumOf([e \in E |-> results[e].allocated], E)
    <3> HIDE DEF E
    <3>1. AllocatedTotal(results, E) = SumOf([e \in E |-> results[e].allocated], E)
      BY <1>5, AllocatedSum
    <3> QED
      BY <3>1 DEF AllocatedTotal
  <2>2. SumOf([e \in E |-> results[e].allocated], E)
          = SumOf(S!calculateEmployeeProfits(b), E) * One
    BY <1>1, <1>2, AllocatedAddsUp
  <2>3. SumOf(S!calculateEmployeeProfits(b), E) = ProfitOfMonth(m)
    BY <1>1, <1>4, ProfitsAddUp
  <2> QED
    BY <2>1, <2>2, <2>3
<1>7. MapThenSumSet(LAMBDA e : results[e].carried, E)
         = Sum(Counted("loss", m), LAMBDA id : rows[id].amount) * S!UsdUnit
  <2>1. MapThenSumSet(LAMBDA e : results[e].carried, E)
          = SumOf([e \in E |-> results[e].carried], E)
    <3> HIDE DEF E
    <3>1. CarriedTotal(results, E) = SumOf([e \in E |-> results[e].carried], E)
      BY <1>5, CarriedSum
    <3> QED
      BY <3>1 DEF CarriedTotal
  <2>2. SumOf([e \in E |-> results[e].carried], E) = SumOf(AmountOf(b.losses), b.losses) * S!UsdUnit
    BY <1>1, <1>2, CarriedAddsUp
  <2>3. SumOf(AmountOf(b.losses), b.losses) = Sum(Counted("loss", m), LAMBDA id : rows[id].amount)
    BY <1>3, ReadSums DEF IInv
  <2> QED
    BY <2>1, <2>2, <2>3
<1>8. MapThenSumSet(LAMBDA e : results[e].manual, E) = ItemsOfMonth(m) * S!RmbUnit
  <2>1. MapThenSumSet(LAMBDA e : results[e].manual, E)
          = SumOf([e \in E |-> results[e].manual], E)
    <3> HIDE DEF E
    <3>1. ManualTotal(results, E) = SumOf([e \in E |-> results[e].manual], E)
      BY <1>5, ManualSum
    <3> QED
      BY <3>1 DEF ManualTotal
  <2>2. SumOf([e \in E |-> results[e].manual], E) = SumOf(SignedOf(b.items), b.items) * S!RmbUnit
    BY <1>1, <1>2, ManualAddsUp
  <2>3. SumOf(SignedOf(b.items), b.items) = ItemsOfMonth(m)
    BY <1>3, ReadItemsSum DEF IInv
  <2> QED
    BY <2>1, <2>2, <2>3
<1> QED
  BY <1>2, <1>6, <1>7, <1>8

\* In a month that is calculated the pay grows with the profit.
LEMMA SalariesGrow ==
    ASSUME IInv, facts \in Facts, IsFiniteSet(Ids), IsFiniteSet(Employees)
    PROVE  SalaryGrowsWithProfit
<1> SUFFICES ASSUME NEW m \in Months, ~Refused(m),
                    NEW results, results = S!calculate(readSettlementData(m)),
                    NEW e \in DOMAIN results, NEW f \in DOMAIN results,
                    results[e].mode = results[f].mode, results[e].full = results[f].full,
                    results[e].commission <= results[f].commission
             PROVE  results[e].final - results[e].manual <= results[f].final - results[f].manual
  BY DEF SalaryGrowsWithProfit
<1> DEFINE b == readSettlementData(m)
<1>1. WellRead(b) /\ Accepted(b)
  BY RefusedIsChecked
<1>2. DOMAIN results = S!collectEmployeeIds(b)
  BY DEF S!calculate
<1> QED
  BY <1>1, <1>2, PayGrows

\* No request changes what the imports left.
LEMMA FactsStay == IInv /\ [Next]_vars => UNCHANGED facts
<1> SUFFICES ASSUME IInv, [Next]_vars PROVE UNCHANGED facts
  OBVIOUS
<1>1. ASSUME NEW r \in Requests, Operation(r) PROVE UNCHANGED facts
  <2>1. CASE \E job : Start(r, job)
    BY <2>1 DEF Start
  <2>2. CASE SalaryItemConfigs(r)
    BY <2>2, ConfigsChange DEF IInv, ChangeConfig
  <2> QED
    BY <1>1, <2>1, <2>2, IncomesStart, CardSpendStarts, SalaryItemsStart, LossesStart,
       RatesStart, GroupsStart
    DEF Operation, IInv
<1> QED
  BY <1>1 DEF Next, vars, InsertRow, UpdateRow, CheckGroup, WriteGroup, Abandon

-----------------------------------------------------------------------------
(* The theorems.                                                           *)

\* The invariant holds throughout.
LEMMA InputsInvariant == Spec => []IInv
  BY InputsInit, InputsStep, PTL DEF Spec

\* Whatever creations, replacements and moves of groups overlap: an employee is in one
\* group of a month at most, a group's members are members of the group's month, and their
\* stored shares add up to 1 but for the rounding of each.
THEOREM GroupsFitTogether == Spec => []GroupsInv
<1>1. Init => FromOneRoster
  BY InitialSharesAssumption DEF Init, FromOneRoster, MembersOf
<1>2. IInv /\ FromOneRoster /\ [Next]_vars => FromOneRoster'
  BY RostersStep
<1>3. FromOneRoster => SharesAddUp
  BY OneRosterAddsUp DEF FromOneRoster, SharesAddUp
<1>4. IInv /\ SharesAddUp => GroupsInv
  BY DEF IInv, GroupsInv
<1> QED
  BY <1>1, <1>2, <1>3, <1>4, InputsInvariant, PTL DEF Spec

\* The lock is asked for before the write and not again, and still no request of any
\* service changes a row or a member of a month that was locked before they began.
THEOREM LockedMonthStays == Spec => LockedMonthIsKept
<1>1. ASSUME IInv, [Next]_vars PROVE [Kept]_vars
  BY <1>1, InputsStep
<1> QED
  BY <1>1, InputsInvariant, PTL DEF Spec, LockedMonthIsKept, Kept

\* Whatever requests overlap: what the preflight lets through the precheck refuses for lost
\* shares or an unassigned income only; of a month that is calculated every row is used
\* once, so that the employees' allocated profits, set-off losses and manual amounts add up
\* to those of the month's rows; and of two employees of the same mode and attendance the
\* one with the larger profit is paid no less.
THEOREM CalculationUsesEveryRowOnce ==
    ASSUME IsFiniteSet(Ids), IsFiniteSet(Employees)
    PROVE  Spec => []CalculationInv
<1>1. Init => facts \in Facts
  BY DEF Init
<1>2. IInv /\ facts \in Facts /\ [Next]_vars => (facts \in Facts)'
  BY FactsStay
<1>3. IInv /\ facts \in Facts => CalculationInv
  BY PrecheckIsCovered, RowsAreUsedOnce, SalariesGrow DEF CalculationInv
<1> QED
  BY <1>1, <1>2, <1>3, InputsInvariant, PTL DEF Spec

----------------------------------------------------------------------------
(* The reports an administrator reads of a month.  Their statements read   *)
(* the tables one after the other; as long as nothing is written between   *)
(* two of them, what was read is what is there, and the sums agree.        *)

\* The amounts a report adds up.
LEMMA UsdSum ==
  ASSUME NEW all, IsFiniteSet(all)
  PROVE  Usd(all) = SumOf([x \in all |-> x.amount], all)
<1> DEFINE f == [x \in all |-> x.amount]
           Term(x) == x.amount
           Adds(iter) == iter = [s \in SUBSET all |->
                IF s = {} THEN 0
                ELSE Term(CHOOSE y \in s : TRUE) + iter[s \ {CHOOSE y \in s : TRUE}]]
           made == CHOOSE iter : Adds(iter)
<1>1. Usd(all) = made[all]
  BY DEF Usd, MapThenSumSet, MapThenFoldSet
<1>2. ASSUME NEW iter PROVE Adds(iter) <=> IsSum(iter, f, all)
  <2>1. \A s \in SUBSET all : s # {} => f[CHOOSE y \in s : TRUE] = Term(CHOOSE y \in s : TRUE)
    OBVIOUS
  <2> HIDE DEF f, Term
  <2> QED
    BY <2>1 DEF IsSum
<1> HIDE DEF f, Adds
<1>3. Adds(made)
  <2>1. \E iter : Adds(iter)
    BY <1>2, SumExists
  <2> QED
    BY <2>1, Zenon
<1> HIDE DEF made
<1> QED
  BY <1>1, <1>2, <1>3, SumChosen DEF f

\* A settlement adds them up in the same way, ...
LEMMA SettlementAdds ==
  ASSUME NEW all, IsFiniteSet(all)
  PROVE  Settlement!Total(all, LAMBDA x : x.amount) = Usd(all)
  BY DEF Settlement!Total, Settlement!MapThenSumSet, Settlement!MapThenFoldSet,
         Usd, MapThenSumSet, MapThenFoldSet

\* ... and its card spend too when there are no fees.
SpendWithFees(b, part) ==
    Settlement!Total(part, LAMBDA x : x.amount * (1 + Settlement!feeOf(b, x.key)))

\* The sum of card spend without fees is that of the amounts.
LEMMA SettlementSpends ==
  ASSUME NEW b, b.fees = {}, NEW all, IsFiniteSet(all), \A x \in all : x.amount \in Int
  PROVE  SpendWithFees(b, all) = Usd(all)
<1> DEFINE f == [x \in all |-> x.amount * (1 + Settlement!feeOf(b, x.key))]
           Term(x) == x.amount * (1 + Settlement!feeOf(b, x.key))
           Adds(iter) == iter = [s \in SUBSET all |->
                IF s = {} THEN 0
                ELSE Term(CHOOSE y \in s : TRUE) + iter[s \ {CHOOSE y \in s : TRUE}]]
           made == CHOOSE iter : Adds(iter)
<1>1. SpendWithFees(b, all) = made[all]
  BY DEF SpendWithFees, Settlement!Total, Settlement!MapThenSumSet, Settlement!MapThenFoldSet
<1>2. ASSUME NEW iter PROVE Adds(iter) <=> IsSum(iter, f, all)
  <2>1. \A s \in SUBSET all : s # {} => f[CHOOSE y \in s : TRUE] = Term(CHOOSE y \in s : TRUE)
    OBVIOUS
  <2> HIDE DEF f, Term
  <2> QED
    BY <2>1 DEF IsSum
<1>3. \A x \in all : f[x] = x.amount
  <2>1. \A x \in all : Settlement!feeOf(b, x.key) = 0
    BY DEF Settlement!feeOf
  <2> QED BY <2>1
<1> HIDE DEF f, Adds
<1>4. Adds(made)
  <2>1. \E iter : Adds(iter)
    BY <1>2, SumExists
  <2> QED
    BY <2>1, Zenon
<1> HIDE DEF made
<1>5. SpendWithFees(b, all) = SumOf(f, all)
  BY <1>1, <1>2, <1>4, SumChosen
<1> DEFINE g == [x \in all |-> x.amount]
<1>6. \A x \in all : g[x] \in Int /\ f[x] = g[x] BY <1>3
<1>7. SumOf(g, all) = Usd(all) BY UsdSum
<1> HIDE DEF g
<1>8. SumOf(f, all) = SumOf(g, all) BY <1>6, SumSame
<1> QED BY <1>5, <1>7, <1>8

\* Rows as the tables keep them.
IsLedger(W) == IsFiniteSet(W) /\ \A r \in W : r.amount \in Int

\* Sums and counts of some of the rows of a table.
LEMMA UsdIsInteger ==
  ASSUME NEW W, IsLedger(W), NEW T, T \subseteq W
  PROVE  IsFiniteSet(T) /\ Cardinality(T) \in Nat /\ Usd(T) \in Int
<1>1. IsFiniteSet(T) /\ \A r \in T : r.amount \in Int BY FS_Subset DEF IsLedger
<1> DEFINE f == [x \in T |-> x.amount]
<1>2. \A x \in T : f[x] \in Int BY <1>1
<1>3. Usd(T) = SumOf(f, T) BY <1>1, UsdSum
<1> HIDE DEF f
<1> QED BY <1>1, <1>2, <1>3, SumOfIntegers, FS_CardinalityType

\* The sums and numbers of two groups of rows add up to those of all.
LEMMA TwoGroups ==
  ASSUME NEW W, IsLedger(W), NEW A, NEW B, A \cup B = W, A \cap B = {}
  PROVE  /\ Usd(W) = Usd(A) + Usd(B) /\ Cardinality(W) = Cardinality(A) + Cardinality(B)
         /\ Usd(A) \in Int /\ Usd(B) \in Int
         /\ Cardinality(A) \in Nat /\ Cardinality(B) \in Nat
<1>1. /\ IsFiniteSet(A) /\ Cardinality(A) \in Nat /\ Usd(A) \in Int
      /\ IsFiniteSet(B) /\ Cardinality(B) \in Nat /\ Usd(B) \in Int
  BY UsdIsInteger
<1>2. Cardinality(W) = Cardinality(A) + Cardinality(B)
  <2>1. Cardinality(A \cup B) = Cardinality(A) + Cardinality(B) - Cardinality(A \cap B)
    BY <1>1, FS_Union
  <2>2. Cardinality(A \cap B) = 0 BY FS_EmptySet
  <2>3. Cardinality(A \cup B) = Cardinality(W) OBVIOUS
  <2>4. Cardinality(A) + Cardinality(B) - 0 = Cardinality(A) + Cardinality(B) BY <1>1
  <2> QED BY <2>1, <2>2, <2>3, <2>4
<1> DEFINE f == [x \in W |-> x.amount]
           p == [x \in W |-> IF x \in A THEN 1 ELSE 2]
           T == {1, 2}
           sums == [t \in T |-> SumOf(f, Part(p, W, t))]
<1>3. IsFiniteSet(W) /\ IsFiniteSet(T) /\ T \ {1} = {2}
  <2>1. T = {1} \cup {2} /\ T \ {1} = {2} OBVIOUS
  <2>2. IsFiniteSet({1} \cup {2}) BY FS_Singleton, FS_AddElement
  <2>3. IsFiniteSet(W) BY DEF IsLedger
  <2> HIDE DEF T
  <2> QED BY <2>1, <2>2, <2>3
<1>4. Part(p, W, 1) = A /\ Part(p, W, 2) = B BY DEF Part
<1>5. \A x \in W : p[x] \in T /\ f[x] \in Int BY DEF IsLedger
<1>6. Usd(W) = SumOf(f, W) BY <1>3, UsdSum
<1>7. ASSUME NEW D \in SUBSET W, IsFiniteSet(D) PROVE SumOf(f, D) = Usd(D)
  <2> DEFINE own == [x \in D |-> x.amount]
  <2>1. \A x \in D : f[x] \in Int /\ own[x] = f[x] BY <1>5
  <2>2. Usd(D) = SumOf(own, D) BY <1>7, UsdSum
  <2> HIDE DEF own, f
  <2> QED BY <1>7, <2>1, <2>2, SumSame
<1>8. SumOf(f, A) = Usd(A) /\ SumOf(f, B) = Usd(B) BY <1>1, <1>7
<1> HIDE DEF f, p
<1>9. SumOf(sums, T) = SumOf(f, W)
  <2> HIDE DEF T
  <2> QED BY <1>3, <1>5, SumByParts
<1>10. sums[1] = Usd(A) /\ sums[2] = Usd(B) BY <1>4, <1>8
<1> HIDE DEF sums
<1>11. SumOf(sums, T) = sums[1] + SumOf(sums, T \ {1})
  BY <1>1, <1>3, <1>10, SumWithout
<1>12. SumOf(sums, {2}) = sums[2] BY <1>1, <1>10, SumOfOne
<1> QED BY <1>1, <1>2, <1>3, <1>6, <1>9, <1>10, <1>11, <1>12

\* What a report shows of one employee, also of one it does not list.
LEMMA AmountOfOne ==
  ASSUME NEW part, NEW e
  PROVE  Amount(ByEmployee(part), e) = Usd({r \in part : r.employee = e})
<1>1. CASE e \in {r.employee : r \in part}
  BY <1>1 DEF Amount, ByEmployee
<1>2. CASE e \notin {r.employee : r \in part}
  <2>1. {r \in part : r.employee = e} = {} BY <1>2
  <2>2. Usd({}) = 0
    <3>1. Usd({}) = SumOf([x \in {} |-> x.amount], {}) BY UsdSum, FS_EmptySet
    <3> QED BY <3>1, SumOfNothing
  <2>3. Amount(ByEmployee(part), e) = 0 BY <1>2 DEF Amount, ByEmployee
  <2> QED BY <2>1, <2>2, <2>3
<1> QED BY <1>1, <1>2

----------------------------------------------------------------------------
(* The rows under a report and what it has read of them. *)

ReportFields == {"job", "step", "query", "read", "page", "total", "seen", "asOf", "disturbed"}

RowsOK ==
    /\ DOMAIN ledger = {"income", "spend", "manual"}
    /\ \A kind \in {"income", "spend", "manual"} : IsLedger(ledger[kind])

\* Nothing was written since the first statement: what was read is what is there.
ReadIsThere ==
    /\ DOMAIN reader = ReportFields
    /\ \A job \in MonthReports : reader.job = job /\ ~reader.disturbed =>
         \/ reader.read = <<>>
         \/ \E n \in 1..Len(Statements(job)) :
               reader.read = [k \in 1..n |-> Statements(job)[k]]

\* A report is a sequence of statements.
LEMMA StatementsOf ==
  ASSUME NEW job \in MonthReports
  PROVE  /\ Len(Statements(job)) \in Nat
         /\ Statements(job) = [k \in 1..Len(Statements(job)) |-> Statements(job)[k]]
<1>1. CASE job \in {"income", "spend"}
  <2>1. Statements(job) = PagedReport(job) BY <1>1 DEF Statements
  <2> QED BY <2>1 DEF PagedReport
<1>2. CASE job = "monthly"
  <2>1. Statements(job) = monthlyEmployeeSummary BY <1>2 DEF Statements
  <2> QED BY <2>1 DEF monthlyEmployeeSummary
<1>3. CASE job = "unmatched"
  <2>1. Statements(job) = unmatched BY <1>3 DEF Statements
  <2> QED BY <2>1 DEF unmatched
<1>4. CASE job = "payout"
  <2>1. Statements(job) = exportAffiliatePayoutCsv BY <1>4 DEF Statements
  <2> QED BY <2>1 DEF exportAffiliatePayoutCsv
<1> QED BY <1>1, <1>2, <1>3, <1>4 DEF MonthReports

\* A table may be replaced by a table:
LEMMA ChangedLedger ==
  ASSUME RowsOK, NEW kind \in {"income", "spend", "manual"}, NEW W, IsLedger(W),
         ledger' = [ledger EXCEPT ![kind] = W]
  PROVE  RowsOK'
  BY DEF RowsOK

\* one row by another,
LEMMA ReplacedRow ==
  ASSUME RowsOK, NEW kind \in {"income", "spend", "manual"}, NEW r, NEW s, s.amount \in Int,
         Replaced(kind, r, {s})
  PROVE  RowsOK'
<1> DEFINE W == (ledger[kind] \ {r}) \cup {s}
<1>1. ledger' = [ledger EXCEPT ![kind] = W] BY DEF Replaced, RowsOK
<1>2. IsLedger(W)
  <2>1. IsFiniteSet(ledger[kind]) /\ \A x \in ledger[kind] : x.amount \in Int
    BY DEF RowsOK, IsLedger
  <2>2. IsFiniteSet(W) BY <2>1, FS_RemoveElement, FS_AddElement
  <2> QED BY <2>1, <2>2 DEF IsLedger
<1> HIDE DEF W
<1> QED BY <1>1, <1>2, ChangedLedger

\* one row by none,
LEMMA RemovedRow ==
  ASSUME RowsOK, NEW kind \in {"income", "spend", "manual"}, NEW r, Replaced(kind, r, {})
  PROVE  RowsOK'
<1> DEFINE W == (ledger[kind] \ {r}) \cup {}
<1>1. ledger' = [ledger EXCEPT ![kind] = W] BY DEF Replaced, RowsOK
<1>2. IsLedger(W)
  <2>1. IsFiniteSet(ledger[kind]) /\ \A x \in ledger[kind] : x.amount \in Int
    BY DEF RowsOK, IsLedger
  <2>2. W \subseteq ledger[kind] OBVIOUS
  <2> QED BY <2>1, <2>2, FS_Subset DEF IsLedger
<1> HIDE DEF W
<1> QED BY <1>1, <1>2, ChangedLedger

\* or a row more.
LEMMA AddedRow ==
  ASSUME RowsOK, NEW kind \in {"income", "spend", "manual"}, NEW e,
         ledger' = [ledger EXCEPT ![kind] = ledger[kind] \cup {NewRow(kind, e)}]
  PROVE  RowsOK'
<1> DEFINE W == ledger[kind] \cup {NewRow(kind, e)}
<1>1. IsLedger(W)
  <2>1. NewRow(kind, e).amount = 1 BY DEF NewRow
  <2>2. IsFiniteSet(ledger[kind]) /\ \A x \in ledger[kind] : x.amount \in Int
    BY DEF RowsOK, IsLedger
  <2> QED BY <2>1, <2>2, FS_AddElement DEF IsLedger
<1> HIDE DEF W
<1>2. ledger' = [ledger EXCEPT ![kind] = W] BY DEF W
<1> QED BY <1>1, <1>2, ChangedLedger

\* A row keeps its amount when its employee or its status is changed.
LEMMA ChangedRows ==
  ASSUME RowsOK, ChangeRows
  PROVE  RowsOK'
<1>1. ASSUME NEW kind \in {"income", "spend"}, NEW e \in Staff \cup {Nobody},
             ledger' = [ledger EXCEPT ![kind] = @ \cup {NewRow(kind, e)}]
      PROVE  RowsOK'
  <2>1. kind \in {"income", "spend", "manual"} OBVIOUS
  <2>2. ledger' = [ledger EXCEPT ![kind] = ledger[kind] \cup {NewRow(kind, e)}]
    BY <1>1 DEF RowsOK
  <2> QED BY <2>1, <2>2, AddedRow
<1>2. ASSUME NEW r \in Open("income"), NEW e \in Staff,
             Replaced("income", r, {[r EXCEPT !.employee = e]})
      PROVE  RowsOK'
  <2> DEFINE s == [r EXCEPT !.employee = e]
  <2>1. r \in ledger["income"] BY DEF Open, Where
  <2>2. r.amount \in Int BY <2>1 DEF RowsOK, IsLedger
  <2>3. s.amount \in Int BY <2>2
  <2> HIDE DEF s
  <2>4. Replaced("income", r, {s}) BY <1>2 DEF s
  <2> QED BY <2>3, <2>4, ReplacedRow
<1>3. ASSUME NEW r \in Where("income", Nobody), Replaced("income", r, {})
      PROVE  RowsOK'
  BY <1>3, RemovedRow
<1>4. ASSUME NEW r \in ledger.income, Replaced("income", r, {[r EXCEPT !.status = "disabled"]})
      PROVE  RowsOK'
  <2> DEFINE s == [r EXCEPT !.status = "disabled"]
  <2>1. r.amount \in Int BY DEF RowsOK, IsLedger
  <2>2. s.amount \in Int BY <2>1
  <2> HIDE DEF s
  <2>3. Replaced("income", r, {s}) BY <1>4 DEF s
  <2> QED BY <2>2, <2>3, ReplacedRow
<1>5. ASSUME NEW r \in ledger.manual, NEW st \in {"draft", "confirmed"},
             Replaced("manual", r, {[r EXCEPT !.status = st]})
      PROVE  RowsOK'
  <2> DEFINE s == [r EXCEPT !.status = st]
  <2>1. r.amount \in Int BY DEF RowsOK, IsLedger
  <2>2. s.amount \in Int BY <2>1
  <2> HIDE DEF s
  <2>3. Replaced("manual", r, {s}) BY <1>5 DEF s
  <2> QED BY <2>2, <2>3, ReplacedRow
<1> QED BY <1>1, <1>2, <1>3, <1>4, <1>5 DEF ChangeRows

----------------------------------------------------------------------------
(* The steps. *)

\* Nothing read is nothing wrong.
LEMMA ReadNothing ==
  ASSUME DOMAIN reader' = ReportFields, reader'.read = <<>>
  PROVE  ReadIsThere'
  BY DEF ReadIsThere

\* The log is not a report of a month.
LEMMA ReadNoReport ==
  ASSUME DOMAIN reader' = ReportFields, reader'.job \notin MonthReports
  PROVE  ReadIsThere'
  BY DEF ReadIsThere

\* A statement reads the rows, and the query and the page of the request.
LEMMA SameStatements ==
  ASSUME ledger' = ledger, reader'.query = reader.query, reader'.page = reader.page,
         NEW job \in MonthReports
  PROVE  Statements(job)' = Statements(job)
<1>1. \A kind, e : Where(kind, e)' = Where(kind, e) BY DEF Where
<1>2. \A kind : Open(kind)' = Open(kind) /\ Matched(kind)' = Matched(kind)
  BY <1>1 DEF Open, Matched
<1>3. PagedReport(job)' = PagedReport(job)
  BY <1>1, <1>2 DEF PagedReport
<1>4. monthlyEmployeeSummary' = monthlyEmployeeSummary
  BY <1>2 DEF monthlyEmployeeSummary, ConfirmedManual
<1>5. unmatched' = unmatched BY <1>2 DEF unmatched
<1>6. exportAffiliatePayoutCsv' = exportAffiliatePayoutCsv BY <1>1 DEF exportAffiliatePayoutCsv
<1> QED BY <1>3, <1>4, <1>5, <1>6 DEF Statements

\* A report starts with nothing read,
LEMMA AskReportReads ==
  ASSUME AskReport
  PROVE  ReadIsThere'
<1>1. PICK job \in MonthReports, e \in Staff \cup {Nobody} :
        Asking(job, "read", [NoQuery EXCEPT !.employee = e])
  BY DEF AskReport
<1>2. DOMAIN reader' = ReportFields /\ reader'.read = <<>>
  BY <1>1 DEF Asking, Resting, ReportFields
<1> QED BY <1>2, ReadNothing

\* what is asked of the log is not one,
LEMMA AskedElsewhere ==
  ASSUME NEW job, job \notin MonthReports, NEW s, NEW q, Asking(job, s, q)
  PROVE  ReadIsThere'
<1>1. DOMAIN reader' = ReportFields /\ reader'.job = job
  BY DEF Asking, Resting, ReportFields
<1> QED BY <1>1, ReadNoReport

\* nor is a reader at rest.
LEMMA RestingReads ==
  ASSUME reader' = Resting
  PROVE  ReadIsThere'
<1>1. DOMAIN reader' = ReportFields /\ reader'.read = <<>>
  BY DEF Resting, ReportFields
<1> QED BY <1>1, ReadNothing

\* Nothing but the mark of a disturbance is new, and the rows are as they were.
LEMMA MarkedReads ==
  ASSUME ReadIsThere, ledger' = ledger, NEW b, b = FALSE => ~reader.disturbed,
         reader' = [reader EXCEPT !.disturbed = b]
  PROVE  ReadIsThere'
<1>1. /\ DOMAIN reader' = ReportFields /\ reader'.job = reader.job
      /\ reader'.query = reader.query /\ reader'.page = reader.page
      /\ reader'.read = reader.read /\ reader'.disturbed = b
  BY DEF ReadIsThere, ReportFields
<1>2. \A job \in MonthReports : Statements(job)' = Statements(job)
  BY <1>1, SameStatements
<1> QED BY <1>1, <1>2 DEF ReadIsThere

\* A change after the first statement leaves a mark; before it, nothing is read.
LEMMA ChangeRowsReads ==
  ASSUME ReadIsThere, ChangeRows
  PROVE  ReadIsThere'
<1> DEFINE b == reader.disturbed \/ reader.read # <<>>
<1>1. reader' = [reader EXCEPT !.disturbed = b] BY DEF ChangeRows
<1> HIDE DEF b
<1>2. /\ DOMAIN reader' = ReportFields /\ reader'.read = reader.read /\ reader'.disturbed = b
  BY <1>1 DEF ReadIsThere, ReportFields
<1>3. ~b => reader.read = <<>> BY DEF b
<1>4. CASE b BY <1>2, <1>4 DEF ReadIsThere
<1>5. CASE ~b BY <1>2, <1>3, <1>5, ReadNothing
<1> QED BY <1>4, <1>5

\* The first elements of a sequence and the next one are the first elements again.
LEMMA FirstOnes ==
  ASSUME NEW all, NEW n \in Nat
  PROVE  LET read == [k \in 1..n |-> all[k]] IN
         /\ Len(read) = n
         /\ Append(read, all[n + 1]) = [k \in 1..(n + 1) |-> all[k]]
<1> DEFINE read == [k \in 1..n |-> all[k]]
           T == {all[k] : k \in 1..(n + 1)}
           more == [k \in 1..(n + 1) |-> all[k]]
<1>1. n + 1 \in Nat /\ n + 1 \in 1..(n + 1) /\ \A k \in 1..n : k \in 1..(n + 1) OBVIOUS
<1>2. all[n + 1] \in T /\ \A k \in 1..n : all[k] \in T BY <1>1
<1>3. read \in Seq(T) BY <1>2, IsASeq
<1>4. DOMAIN read = 1..n /\ \A k \in 1..n : read[k] = all[k] OBVIOUS
<1>5. more \in Seq(T) BY <1>1, IsASeq
<1>6. DOMAIN more = 1..(n + 1) /\ \A k \in 1..(n + 1) : more[k] = all[k] OBVIOUS
<1> HIDE DEF read, T, more
<1>7. Len(read) = n BY <1>3, <1>4, LenProperties
<1>8. Len(more) = n + 1 BY <1>1, <1>5, <1>6, LenProperties
<1>9. /\ Append(read, all[n + 1]) \in Seq(T)
      /\ Len(Append(read, all[n + 1])) = n + 1
      /\ \A k \in 1..n : Append(read, all[n + 1])[k] = read[k]
      /\ Append(read, all[n + 1])[n + 1] = all[n + 1]
  BY <1>2, <1>3, <1>7, AppendProperties
<1>10. ASSUME NEW k \in 1..(n + 1) PROVE Append(read, all[n + 1])[k] = more[k]
  <2>1. k \in 1..n \/ k = n + 1 OBVIOUS
  <2> QED BY <2>1, <1>4, <1>6, <1>9
<1>11. Append(read, all[n + 1]) = more
  BY <1>5, <1>8, <1>9, <1>10, SeqEqual
<1> QED BY <1>7, <1>11 DEF read, more

\* A statement appends what is there.
LEMMA StatementIsThere ==
  ASSUME ReadIsThere, ReadStatement
  PROVE  ReadIsThere'
<1> DEFINE job == reader.job
           all == Statements(job)
           v == all[Len(reader.read) + 1]
<1>1. /\ job \in MonthReports /\ Len(reader.read) # Len(all) /\ ledger' = ledger
      /\ reader' = [reader EXCEPT !.read = Append(reader.read, v)]
  BY DEF ReadStatement, Complete, ReadIsThere, ReportFields
<1>2. Len(all) \in Nat /\ all = [k \in 1..Len(all) |-> all[k]]
  BY <1>1, StatementsOf
<1>3. /\ DOMAIN reader' = ReportFields /\ reader'.job = job
      /\ reader'.query = reader.query /\ reader'.page = reader.page
      /\ reader'.read = Append(reader.read, v) /\ reader'.disturbed = reader.disturbed
  BY <1>1 DEF ReadIsThere, ReportFields
<1>5. ASSUME ~reader.disturbed
      PROVE  \E n \in 1..Len(all) : reader'.read = [k \in 1..n |-> all[k]]
  <2>1. PICK n \in 0..Len(all) : reader.read = [k \in 1..n |-> all[k]]
    <3> HIDE DEF all
    <3>1. CASE reader.read = <<>>
      <4>1. reader.read = [k \in 1..0 |-> all[k]] BY <3>1
      <4> QED BY <1>2, <4>1
    <3>2. CASE \E n \in 1..Len(all) : reader.read = [k \in 1..n |-> all[k]]
      BY <1>2, <3>2
    <3> QED BY <1>1, <1>5, <3>1, <3>2 DEF ReadIsThere, all
  <2> HIDE DEF all
  <2>2. n \in Nat BY <1>2
  <2>3. Len(reader.read) = n BY <2>1, <2>2, FirstOnes
  <2>4. n + 1 \in 1..Len(all) BY <1>1, <1>2, <2>1, <2>3
  <2>5. v = all[n + 1] BY <2>3
  <2>6. reader'.read = [k \in 1..(n + 1) |-> all[k]]
    BY <1>3, <2>1, <2>2, <2>5, FirstOnes
  <2> QED BY <2>4, <2>6
<1>6. ASSUME NEW j \in MonthReports, reader'.job = j, ~reader'.disturbed
      PROVE  \E n \in 1..Len(Statements(j)') : reader'.read = [k \in 1..n |-> Statements(j)'[k]]
  <2>1. Statements(j)' = all
    <3>1. \A i \in MonthReports : Statements(i)' = Statements(i)
      BY <1>1, <1>3, SameStatements
    <3>2. j = job BY <1>3, <1>6
    <3> QED BY <3>1, <3>2
  <2> HIDE DEF all
  <2> QED BY <1>3, <1>5, <1>6, <2>1
<1> QED BY <1>3, <1>6 DEF ReadIsThere

\* Nothing is read at the start.
LEMMA RowsInit ==
  ASSUME ReportsInit
  PROVE  RowsOK /\ ReadIsThere
<1>1. RowsOK BY LedgerAssumption DEF ReportsInit, RowsOK, IsLedger
<1>2. ReadIsThere BY DEF ReportsInit, Resting, ReadIsThere, ReportFields
<1> QED BY <1>1, <1>2

\* Only the list of the audit log and its exports.
LogStepOfReader ==
    \/ CountEntries \/ ReadPage \/ NextPage \/ ReadExport \/ ExportNotWritten

\* They leave the rows alone.
LEMMA LogReadingReads ==
  ASSUME ReadIsThere, LogStepOfReader
  PROVE  ReadIsThere' /\ ledger' = ledger
<1>1. reader.job \in {"list", "export"} /\ ledger' = ledger
  BY DEF LogStepOfReader, CountEntries, ReadPage, NextPage, ReadExport, ExportNotWritten
<1>2. DOMAIN reader = ReportFields BY DEF ReadIsThere
<1>3. DOMAIN reader' = ReportFields /\ reader'.job = reader.job
  <2>1. CASE CountEntries BY <1>2, <2>1 DEF CountEntries, ReportFields
  <2>2. CASE ReadPage BY <1>2, <2>2 DEF ReadPage, ReportFields
  <2>3. CASE NextPage BY <1>2, <2>3 DEF NextPage, ReportFields
  <2>4. CASE ReadExport
    <3>1. \/ reader' = [reader EXCEPT !.step = "fail"]
          \/ \E a, r : reader' = [reader EXCEPT !.step = "log", !.asOf = a, !.read = r]
      BY <2>4 DEF ReadExport
    <3> QED BY <1>2, <3>1 DEF ReportFields
  <2>5. CASE ExportNotWritten BY <1>2, <2>5 DEF ExportNotWritten, ReportFields
  <2> QED BY <2>1, <2>2, <2>3, <2>4, <2>5 DEF LogStepOfReader
<1>4. reader'.job \notin MonthReports BY <1>1, <1>3 DEF MonthReports
<1> QED BY <1>1, <1>3, <1>4, ReadNoReport

\* Every step keeps the invariant.
LEMMA RowsStep ==
  ASSUME RowsOK, ReadIsThere, [ReportsNext]_reportVars
  PROVE  RowsOK' /\ ReadIsThere'
<1> USE DEF RowsOK
<1>1. CASE AskReport
  BY <1>1, AskReportReads DEF AskReport
<1>2. CASE ReadStatement
  BY <1>2, StatementIsThere DEF ReadStatement
<1>3. CASE ChangeRows
  BY <1>3, ChangedRows, ChangeRowsReads
<1>4. CASE CloseReport \/ CloseList \/ ExportWritten \/ writeFailureAudit
  BY <1>4, RestingReads DEF CloseReport, CloseList, ExportWritten, writeFailureAudit
<1>5. CASE AskList
  <2>1. PICK q : Asking("list", "count", q) /\ ledger' = ledger BY <1>5 DEF AskList
  <2>2. "list" \notin MonthReports BY DEF MonthReports
  <2> QED BY <2>1, <2>2, AskedElsewhere
<1>6. CASE AskExport
  <2>1. PICK s, q : Asking("export", s, q) /\ ledger' = ledger BY <1>6 DEF AskExport
  <2>2. "export" \notin MonthReports BY DEF MonthReports
  <2> QED BY <2>1, <2>2, AskedElsewhere
<1>7. CASE LogStepOfReader
  BY <1>7, LogReadingReads
<1>8. CASE WriteEntry
  <2> DEFINE b == reader.disturbed \/ reader.step = "rows"
  <2>1. reader' = [reader EXCEPT !.disturbed = b] /\ ledger' = ledger BY <1>8 DEF WriteEntry
  <2>2. b = FALSE => ~reader.disturbed OBVIOUS
  <2> HIDE DEF b
  <2> QED BY <2>1, <2>2, MarkedReads
<1>9. CASE Tick \/ UNCHANGED reportVars
  <2>1. reader' = reader /\ ledger' = ledger BY <1>9 DEF Tick, reportVars
  <2>2. \A job \in MonthReports : Statements(job)' = Statements(job)
    BY <2>1, SameStatements
  <2>3. ReadIsThere'
    <3>1. DOMAIN reader' = ReportFields BY <2>1 DEF ReadIsThere
    <3>2. ASSUME NEW job \in MonthReports, reader'.job = job, ~reader'.disturbed
          PROVE  \/ reader'.read = <<>>
                 \/ \E n \in 1..Len(Statements(job)') :
                       reader'.read = [k \in 1..n |-> Statements(job)'[k]]
      BY <2>1, <2>2, <3>2 DEF ReadIsThere
    <3> QED BY <3>1, <3>2 DEF ReadIsThere
  <2> QED BY <2>1, <2>3
<1> QED BY <1>1, <1>2, <1>3, <1>4, <1>5, <1>6, <1>7, <1>8, <1>9
        DEF ReportsNext, MonthReading, LogReading, LogStepOfReader

----------------------------------------------------------------------------
(* What the invariant says of a report that is read to its end. *)

\* All statements of an undisturbed report are those it would read now.
LEMMA ReadToTheEnd ==
  ASSUME ReadIsThere, NEW jobs, jobs \subseteq MonthReports, Undisturbed(jobs)
  PROVE  reader.job \in jobs /\ reader.read = Statements(reader.job)
<1> DEFINE job == reader.job
           all == Statements(job)
<1>1. /\ job \in jobs /\ job \in MonthReports /\ ~reader.disturbed
      /\ Len(reader.read) = Len(all)
  BY DEF Undisturbed, Complete
<1>2. Len(all) \in Nat /\ all = [k \in 1..Len(all) |-> all[k]]
  BY <1>1, StatementsOf
<1>3. \/ reader.read = <<>>
      \/ \E n \in 1..Len(all) : reader.read = [k \in 1..n |-> all[k]]
  BY <1>1 DEF ReadIsThere
<1> HIDE DEF all
<1>4. CASE reader.read = <<>>
  <2>1. Len(all) = 0 BY <1>1, <1>4
  <2> QED BY <1>1, <1>2, <1>4, <2>1 DEF all
<1>5. CASE \E n \in 1..Len(all) : reader.read = [k \in 1..n |-> all[k]]
  <2>1. PICK n \in 1..Len(all) : reader.read = [k \in 1..n |-> all[k]] BY <1>5
  <2>2. n \in Nat BY <1>2
  <2>3. Len(reader.read) = n BY <2>1, <2>2, FirstOnes
  <2>4. reader.read = all BY <1>1, <1>2, <2>1, <2>3
  <2> QED BY <1>1, <2>4 DEF all
<1> QED BY <1>3, <1>4, <1>5

\* The rows of a kind are those that have an employee and those that have none.
LEMMA UnmatchedRows ==
  ASSUME RowsOK, ReadIsThere
  PROVE  UnmatchedIsAccountedFor
<1>1. ASSUME Undisturbed({"income", "spend"}), reader.query.employee = Nobody
      PROVE  /\ Summary.total = Summary.eventCount
             /\ Summary.unmatchedUsd = Usd(Open(reader.job))
             /\ Summary.unmatchedCount = Cardinality(Open(reader.job))
  <2> DEFINE job == reader.job
             part == Where(job, Nobody)
             A == Open(job)
             B == Matched(job)
  <2>1. {"income", "spend"} \subseteq MonthReports BY DEF MonthReports
  <2>2. job \in {"income", "spend"} /\ reader.read = Statements(job)
    BY <1>1, <2>1, ReadToTheEnd
  <2>3. Statements(job) = PagedReport(job) BY <2>2 DEF Statements
  <2>4. /\ reader.read[1] = Cardinality(part)
        /\ reader.read[3] = [usd |-> Usd(part), count |-> Cardinality(part)]
        /\ reader.read[4] = Usd(B) /\ reader.read[5] = Cardinality(B)
    BY <1>1, <2>2, <2>3 DEF PagedReport
  <2>5. A \cup B = part /\ A \cap B = {} BY DEF Open, Matched
  <2>6. IsLedger(part)
    <3>1. part \subseteq ledger[job] BY DEF Where
    <3>2. IsLedger(ledger[job]) BY <2>2 DEF RowsOK
    <3> QED BY <3>1, <3>2, FS_Subset DEF IsLedger
  <2> HIDE DEF part, A, B
  <2>7. /\ Usd(part) = Usd(A) + Usd(B) /\ Cardinality(part) = Cardinality(A) + Cardinality(B)
        /\ Usd(A) \in Int /\ Usd(B) \in Int
        /\ Cardinality(A) \in Nat /\ Cardinality(B) \in Nat
    BY <2>5, <2>6, TwoGroups
  <2>8. /\ Summary.total = Cardinality(part) /\ Summary.eventCount = Cardinality(part)
        /\ Summary.unmatchedUsd = Usd(part) - Usd(B)
        /\ Summary.unmatchedCount = Cardinality(part) - Cardinality(B)
    BY <2>4 DEF Summary
  <2> QED BY <2>7, <2>8 DEF A
<1>2. ASSUME Undisturbed({"unmatched"})
      PROVE  reader.read = <<Open("income"), Open("spend")>>
  <2>1. {"unmatched"} \subseteq MonthReports BY DEF MonthReports
  <2>2. reader.job = "unmatched" /\ reader.read = Statements(reader.job)
    BY <1>2, <2>1, ReadToTheEnd
  <2>3. Statements("unmatched") = unmatched BY DEF Statements
  <2> QED BY <2>2, <2>3 DEF unmatched
<1> QED BY <1>1, <1>2 DEF UnmatchedIsAccountedFor

\* Both take the same rows of an employee, and add them up in the same way.
LEMMA GrossProfits ==
  ASSUME RowsOK, ReadIsThere
  PROVE  GrossAgreesWithSettlement
<1>0. PICK b : b = readSettlement OBVIOUS
<1> DEFINE profits == Settlement!calculateEmployeeProfits(b)
<1>1. SUFFICES ASSUME Undisturbed({"monthly"}), NEW e \in DOMAIN profits,
                      \A r \in ledger.income : r.employee = e =>
                          r.key \in AffiliateSources /\ r.status = "confirmed"
               PROVE  e \in DOMAIN rawGrossProfit /\ rawGrossProfit[e] = profits[e]
  BY <1>0 DEF GrossAgreesWithSettlement
<1>2. {"monthly"} \subseteq MonthReports BY DEF MonthReports
<1>3. reader.read = monthlyEmployeeSummary
  <2>1. reader.job = "monthly" /\ reader.read = Statements(reader.job)
    BY <1>1, <1>2, ReadToTheEnd
  <2>2. Statements("monthly") = monthlyEmployeeSummary BY DEF Statements
  <2> QED BY <2>1, <2>2
<1>4. /\ reader.read[2] = ByEmployee(Matched("income"))
      /\ reader.read[3] = ByEmployee(Matched("spend"))
      /\ reader.read[4] = ByEmployee(ConfirmedManual)
  BY <1>3 DEF monthlyEmployeeSummary
<1> DEFINE inc == {r \in ledger.income : r.status = "confirmed"}
           cards == ConfirmedManual
           shown == UNION {DOMAIN reader.read[n] : n \in 2..4}
<1>5. /\ b.incomes = inc /\ b.events = ledger.spend /\ b.cards = cards /\ b.fees = {}
      /\ b.losses = {} /\ b.items = {} /\ b.members = {} /\ b.attendance = {}
  BY <1>0 DEF readSettlement, ConfirmedManual
<1>6. e # Nobody /\ e \in {x.employee : x \in inc \cup ledger.spend \cup cards}
  <2>1. e \in Settlement!collectEmployeeIds(b) BY DEF Settlement!calculateEmployeeProfits
  <2> QED BY <1>5, <2>1 DEF Settlement!collectEmployeeIds
<1> DEFINE mine(part) == {r \in part : r.employee = e}
<1>7. /\ mine(Matched("income")) = Settlement!Owned(inc, e)
      /\ mine(Matched("spend")) = Settlement!Owned(ledger.spend, e)
      /\ mine(cards) = Settlement!Owned(cards, e)
  BY <1>1, <1>6 DEF Matched, Where, Settlement!Owned
<1>8. e \in DOMAIN reader.read[2] \/ e \in DOMAIN reader.read[3] \/ e \in DOMAIN reader.read[4]
  <2>1. PICK r \in inc \cup ledger.spend \cup cards : r.employee = e BY <1>6
  <2>2. r \in Matched("income") \/ r \in Matched("spend") \/ r \in cards
    BY <1>1, <1>6, <2>1 DEF Matched, Where
  <2>3. \A part : r \in part => e \in DOMAIN ByEmployee(part) BY <2>1 DEF ByEmployee
  <2> QED BY <1>4, <2>2, <2>3
<1>9. e \in reader.read[1] \cup shown
  <2>1. 2 \in 2..4 /\ 3 \in 2..4 /\ 4 \in 2..4 OBVIOUS
  <2> QED BY <1>8, <2>1
<1>10. rawGrossProfit[e] = Amount(reader.read[2], e) - Amount(reader.read[3], e)
                             - Amount(reader.read[4], e)
       /\ e \in DOMAIN rawGrossProfit
  BY <1>9 DEF rawGrossProfit
<1>11. /\ Amount(reader.read[2], e) = Usd(Settlement!Owned(inc, e))
       /\ Amount(reader.read[3], e) = Usd(Settlement!Owned(ledger.spend, e))
       /\ Amount(reader.read[4], e) = Usd(Settlement!Owned(cards, e))
  BY <1>4, <1>7, AmountOfOne
<1>12. profits[e] = 1 * Settlement!Total(Settlement!Owned(b.incomes, e), LAMBDA x : x.amount)
                      - Settlement!Total(Settlement!Owned(b.events, e),
                            LAMBDA x : x.amount * (1 + Settlement!feeOf(b, x.key)))
                      - Settlement!Total(Settlement!Owned(b.cards, e), LAMBDA x : x.amount)
  BY DEF Settlement!calculateEmployeeProfits
<1> DEFINE I == Settlement!Owned(inc, e)
           E == Settlement!Owned(ledger.spend, e)
           C == Settlement!Owned(cards, e)
<1>13. I \subseteq ledger["income"] /\ E \subseteq ledger["spend"] /\ C \subseteq ledger["manual"]
  BY DEF Settlement!Owned, ConfirmedManual
<1>14. /\ IsFiniteSet(I) /\ Usd(I) \in Int
       /\ IsFiniteSet(E) /\ Usd(E) \in Int /\ \A x \in E : x.amount \in Int
       /\ IsFiniteSet(C) /\ Usd(C) \in Int
  <2> HIDE DEF I, E, C
  <2>1. IsLedger(ledger["income"]) /\ IsLedger(ledger["spend"]) /\ IsLedger(ledger["manual"])
    BY DEF RowsOK
  <2> QED BY <1>13, <2>1, UsdIsInteger DEF IsLedger
<1>15. /\ Settlement!Owned(b.incomes, e) = I /\ Settlement!Owned(b.events, e) = E
       /\ Settlement!Owned(b.cards, e) = C
  BY <1>5
<1> HIDE DEF I, E, C
<1>16. Settlement!Total(I, LAMBDA x : x.amount) = Usd(I) BY <1>14, SettlementAdds
<1>17. Settlement!Total(C, LAMBDA x : x.amount) = Usd(C) BY <1>14, SettlementAdds
<1>18. Settlement!Total(E, LAMBDA x : x.amount * (1 + Settlement!feeOf(b, x.key))) = Usd(E)
  <2>1. b.fees = {} BY <1>5
  <2>2. IsFiniteSet(E) /\ \A x \in E : x.amount \in Int BY <1>14
  <2>3. SpendWithFees(b, E) = Usd(E) BY <2>1, <2>2, SettlementSpends
  <2> QED BY <2>3 DEF SpendWithFees
<1>19. profits[e] = 1 * Usd(I) - Usd(E) - Usd(C)
  BY <1>12, <1>15, <1>16, <1>17, <1>18
<1> HIDE DEF profits
<1>20. rawGrossProfit[e] = Usd(I) - Usd(E) - Usd(C)
  BY <1>10, <1>11 DEF I, E, C
<1> QED BY <1>10, <1>14, <1>19, <1>20

\* The unmatched amounts of a report are those of the unmatched rows, and the gross
\* profit of an employee is the one the settlement computes: sync-reconciliation
\* service, for any tables, when nothing is written while the report is read.
THEOREM ReportsAgree == ReportsSpec => []ReportsInv
<1>1. RowsOK /\ ReadIsThere => ReportsInv
  BY UnmatchedRows, GrossProfits DEF ReportsInv
<1> QED BY RowsInit, RowsStep, <1>1, PTL DEF ReportsSpec
=============================================================================
