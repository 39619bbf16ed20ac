----------------------------- MODULE MonthInputs -----------------------------
(***************************************************************************)
(* The manual inputs of a month, their preflight check and the calculation *)
(* a generation makes from them.                                           *)
(*                                                                         *)
(* Seven services share one handler: read the row (get), validate the      *)
(* submitted columns against that row, ask the month lock for the row's    *)
(* month and the submitted one, then write only the submitted columns.     *)
(* What was read is not read again, so an operation is two steps: one that *)
(* ends with the lock check and leaves the patch in work[r], and one that  *)
(* applies the patch to the row as it is by then.  A performance group's   *)
(* transaction looks for duplicate members in a step between.              *)
(*                                                                         *)
(* Rows of the six month-scoped tables have the same shape here; a column  *)
(* a table does not have keeps its blank value.  What the imports left     *)
(* (facts) and the months locked beforehand are picked initially: an       *)
(* import or a lock during an operation is SettlementLifecycle's.          *)
(***************************************************************************)
EXTENDS Integers, FiniteSets, FiniteSetsExt

CONSTANTS
    Months, Employees, Requests,
    Ids,            \* rows of the month-scoped tables
    Kind,           \* [Ids -> Kinds]: the table of a row
    Groups,         \* performance groups
    Configs,        \* salary item configurations
    Rosters,        \* submitted members: functions from employees to fine shares
    Fine,           \* fine shares in one stored share
    One,            \* stored shares (and rates) in 1
    Amounts,        \* amounts an administrator enters
    Rates,          \* fee and exchange rates an administrator enters
    Facts,          \* what the imports may have left
    InitialRows,    \* the rows, configurations, groups and members before the
    InitialConfigs, \* first request
    InitialGroups,
    InitialMembers,
    LockedSets,     \* sets of months that may have been locked before
    MaxOperations,  \* bound: operations started
    None

Kinds == {"income", "cardSpend", "salaryItem", "loss", "exchangeRate", "feeRate"}
Providers == {"airwallex", "photonpay"}
ActiveRate == {"active", "confirmed"}

ASSUME InputsAssumption ==
    /\ Kind \in [Ids -> Kinds]
    /\ Fine \in Nat \ {0} /\ One \in Nat \ {0}
    /\ Amounts \subseteq Nat /\ Rates \subseteq Nat
    /\ MaxOperations \in Nat
    /\ LockedSets \subseteq SUBSET Months
    /\ \A roster \in Rosters :
          /\ DOMAIN roster \subseteq Employees /\ IsFiniteSet(DOMAIN roster)
          /\ roster \in [DOMAIN roster -> Nat]

Row == [month : Months, status : {"draft", "active", "confirmed", "disabled"},
        employee : Employees \cup {None}, key : Providers \cup Configs \cup {None},
        amount : Nat, settled : Nat, fee : Nat]

Member == [group : Groups, month : Months, employee : Employees, share : Nat]

StatusesOf(kind) ==
    CASE kind = "income" -> {"draft", "confirmed", "disabled"}
      [] kind = "cardSpend" -> {"draft", "confirmed"}
      [] kind = "salaryItem" -> {"active", "confirmed", "disabled"}
      [] OTHER -> {"active", "disabled"}

\* The columns that are not null: only an income record may have no employee.
EmployeeOf(kind) ==
    IF kind \in {"cardSpend", "salaryItem", "loss"} THEN Employees ELSE Employees \cup {None}

GroupRow == [month : Months, status : {"active", "disabled"}]
ConfigRow == [type : {"addition", "deduction"}, status : {"active", "disabled"}]

ASSUME NoneIsNoRow ==
    None \notin Row /\ None \notin GroupRow /\ None \notin Member /\ None \notin Employees

\* What the imports leave: every event has the employee its card was matched to.
ASSUME FactsAssumption ==
    \A f \in Facts :
        /\ IsFiniteSet(f.events) /\ f.attendance \subseteq Employees
        /\ \A x \in f.events : x.employee \in Employees /\ x.amount \in Int

\* What the tables hold before the first request is as the services leave it.
ASSUME InitialAssumption ==
    /\ InitialRows \in [Ids -> Row \cup {None}]
    /\ \A id \in Ids : InitialRows[id] # None =>
          /\ InitialRows[id].status \in StatusesOf(Kind[id])
          /\ InitialRows[id].employee \in EmployeeOf(Kind[id])
    /\ \A id, other \in Ids :
          (/\ Kind[id] \in {"exchangeRate", "feeRate"} /\ Kind[other] = Kind[id]
           /\ id # other /\ InitialRows[id] # None /\ InitialRows[other] # None)
          => <<InitialRows[id].month, InitialRows[id].key>>
                # <<InitialRows[other].month, InitialRows[other].key>>
    /\ InitialGroups \in [Groups -> GroupRow \cup {None}]
    /\ InitialConfigs \in [Configs -> ConfigRow \cup {None}]
    /\ InitialMembers \subseteq Member
    /\ \A x, y \in InitialMembers : x.month = y.month /\ x.employee = y.employee => x = y
    /\ \A x \in InitialMembers :
          InitialGroups[x.group] # None /\ x.month = InitialGroups[x.group].month

S == INSTANCE SalaryCalculator WITH One <- One, None <- None

VARIABLES
    rows,       \* id -> its row, or None
    groups,     \* group -> its month and status, or None
    members,    \* monthly_performance_group_members
    configs,    \* salary_item_configs
    work,       \* request -> what it will still write, or None
    started,    \* operations started
    facts, locked

vars == <<rows, groups, members, configs, work, started, facts, locked>>

\* Every table keeps its own statuses, and every other column its type.
TypeOK ==
    /\ rows \in [Ids -> Row \cup {None}]
    /\ \A id \in Ids : rows[id] # None =>
          rows[id].status \in StatusesOf(Kind[id]) /\ rows[id].employee \in EmployeeOf(Kind[id])
    /\ groups \in [Groups -> GroupRow \cup {None}]
    /\ members \subseteq Member
    /\ configs \in [Configs -> ConfigRow \cup {None}]
    /\ started \in 0 .. MaxOperations

Init ==
    /\ rows = InitialRows
    /\ groups = InitialGroups
    /\ members = InitialMembers
    /\ configs = InitialConfigs
    /\ work = [r \in Requests |-> None]
    /\ started = 0
    /\ facts \in Facts
    /\ locked \in LockedSets

-----------------------------------------------------------------------------
(* What a request leaves to be done.                                       *)

Start(r, job) ==
    /\ work[r] = None
    /\ started < MaxOperations
    /\ started' = started + 1
    /\ work' = [work EXCEPT ![r] = job]
    /\ UNCHANGED <<rows, groups, members, configs, facts, locked>>

\* assertWritable
Writable(m) == m \notin locked

NextMonth(id, patch) == IF "month" \in DOMAIN patch THEN patch.month ELSE rows[id].month

\* variant: only the month the row is in is asked for
BeforeWritable(id, patch) == Writable(rows[id].month)

BothWritable(id, patch) == Writable(rows[id].month) /\ Writable(NextMonth(id, patch))

\* A column of a row that a request may submit, with its value.
Column(c, v) == [x \in {c} |-> v]

Blank == [month |-> 1, status |-> "draft", employee |-> None, key |-> None,
          amount |-> 0, settled |-> 0, fee |-> 0]

Patched(row, patch) ==
    [c \in DOMAIN row |-> IF c \in DOMAIN patch THEN patch[c] ELSE row[c]]

Insertion(kind, row) == [do |-> "insert", kind |-> kind, row |-> Patched(Blank, row)]
Change(id, patch) == [do |-> "update", id |-> id, patch |-> patch]

\* A handler that reads the row, asks for its months and will write the patch.
StartUpdate(r, id, patch) ==
    /\ rows[id] # None
    /\ BothWritable(id, patch)
    /\ Start(r, Change(id, patch))

StartStatus(r, id, status) == StartUpdate(r, id, Column("status", status))

Of(kind) == {id \in Ids : Kind[id] = kind}

\* The unique indexes of the rate tables, by month and by month and provider.
UniqueRate(id, row) ==
    Kind[id] \in {"exchangeRate", "feeRate"} =>
        \A other \in Of(Kind[id]) \ {id} :
            rows[other] # None =>
                <<rows[other].month, rows[other].key>> # <<row.month, row.key>>

\* prisma create and update; on a duplicate key nothing is written.
InsertRow(r) ==
    /\ work[r] # None
    /\ work[r].do = "insert"
    /\ \E id \in Of(work[r].kind) :
        /\ rows[id] = None
        /\ rows' = IF UniqueRate(id, work[r].row)
                   THEN [rows EXCEPT ![id] = work[r].row] ELSE rows
    /\ work' = [work EXCEPT ![r] = None]
    /\ UNCHANGED <<groups, members, configs, started, facts, locked>>

UpdateRow(r) ==
    /\ work[r] # None
    /\ work[r].do = "update"
    /\ LET id == work[r].id
           row == Patched(rows[id], work[r].patch)
       IN  rows' = IF UniqueRate(id, row) THEN [rows EXCEPT ![id] = row] ELSE rows
    /\ work' = [work EXCEPT ![r] = None]
    /\ UNCHANGED <<groups, members, configs, started, facts, locked>>

\* The process stops, or the database refuses, before the write.
Abandon(r) ==
    /\ work[r] # None
    /\ work' = [work EXCEPT ![r] = None]
    /\ UNCHANGED <<rows, groups, members, configs, started, facts, locked>>

-----------------------------------------------------------------------------
(* Manual income records.                                                  *)

assertConfirmedHasEmployee(status, employee) == status = "confirmed" => employee # None

createIncome(r) ==
    \E m \in Months, e \in Employees \cup {None}, a \in Amounts, s \in {"draft", "confirmed"} :
        /\ assertConfirmedHasEmployee(s, e)
        /\ Writable(m)
        /\ Start(r, Insertion("income",
                [month |-> m, employee |-> e, amount |-> a, status |-> s]))

IncomePatches ==
    {Column("month", m) : m \in Months}
    \cup {Column("employee", e) : e \in Employees \cup {None}}
    \cup {Column("amount", a) : a \in Amounts}
    \cup {Column("status", s) : s \in StatusesOf("income")}

updateIncome(r) ==
    \E id \in Of("income"), patch \in IncomePatches :
        /\ rows[id] # None
        /\ LET next == Patched(rows[id], patch) IN
           assertConfirmedHasEmployee(next.status, next.employee)
        /\ StartUpdate(r, id, patch)

confirmIncome(r) ==
    \E id \in Of("income") :
        /\ rows[id] # None
        /\ assertConfirmedHasEmployee("confirmed", rows[id].employee)
        /\ StartStatus(r, id, "confirmed")

disableIncome(r) == \E id \in Of("income") : StartStatus(r, id, "disabled")

-----------------------------------------------------------------------------
(* Manual card spend.  The entered columns are USD and a rate; the actual  *)
(* spend, in USD / One, is stored with them.                               *)

calculateActualSpend(settled, fee) == settled * (One + fee)

createCardSpend(r) ==
    \E m \in Months, e \in Employees, a \in Amounts, f \in Rates, s \in {"draft", "confirmed"} :
        /\ Writable(m)
        /\ Start(r, Insertion("cardSpend",
                [month |-> m, employee |-> e, settled |-> a, fee |-> f,
                 amount |-> calculateActualSpend(a, f), status |-> s]))

CardSpendPatches(before) ==
    {Column("month", m) : m \in Months}
    \cup {Column("employee", e) : e \in Employees}
    \cup {Column("status", s) : s \in StatusesOf("cardSpend")}
    \cup {[settled |-> a, amount |-> calculateActualSpend(a, before.fee)] : a \in Amounts}
    \cup {[fee |-> f, amount |-> calculateActualSpend(before.settled, f)] : f \in Rates}

updateCardSpend(r) ==
    \E id \in Of("cardSpend") :
        /\ rows[id] # None
        /\ \E patch \in CardSpendPatches(rows[id]) : StartUpdate(r, id, patch)

confirmCardSpend(r) == \E id \in Of("cardSpend") : StartStatus(r, id, "confirmed")

\* A card spend entry has no disabled status: it becomes a draft again.
disableCardSpend(r) == \E id \in Of("cardSpend") : StartStatus(r, id, "draft")

-----------------------------------------------------------------------------
(* Manual salary items and their configurations, which have no month.      *)

createSalaryItem(r) ==
    \E m \in Months, e \in Employees, c \in Configs, a \in Amounts :
        /\ configs[c] # None
        /\ Writable(m)
        /\ Start(r, Insertion("salaryItem",
                [month |-> m, employee |-> e, key |-> c, amount |-> a, status |-> "active"]))

SalaryItemPatches ==
    {Column("month", m) : m \in Months}
    \cup {Column("employee", e) : e \in Employees}
    \cup {Column("key", c) : c \in {c \in Configs : configs[c] # None}}
    \cup {Column("amount", a) : a \in Amounts}
    \cup {Column("status", s) : s \in StatusesOf("salaryItem")}

updateSalaryItem(r) ==
    \E id \in Of("salaryItem"), patch \in SalaryItemPatches : StartUpdate(r, id, patch)

disableSalaryItem(r) == \E id \in Of("salaryItem") : StartStatus(r, id, "disabled")

ChangeConfig(r, c, config) ==
    /\ work[r] = None
    /\ started < MaxOperations
    /\ started' = started + 1
    /\ configs' = [configs EXCEPT ![c] = config]
    /\ UNCHANGED <<rows, groups, members, work, facts, locked>>

createConfig(r) ==
    \E c \in Configs, t \in {"addition", "deduction"} :
        configs[c] = None /\ ChangeConfig(r, c, [type |-> t, status |-> "active"])

updateConfig(r) ==
    \E c \in Configs, t \in {"addition", "deduction"}, s \in {"active", "disabled"} :
        configs[c] # None /\ ChangeConfig(r, c, [type |-> t, status |-> s])

disableConfig(r) ==
    \E c \in Configs :
        configs[c] # None /\ ChangeConfig(r, c, [configs[c] EXCEPT !.status = "disabled"])

-----------------------------------------------------------------------------
(* Historical negative profits.                                            *)

createLoss(r) ==
    \E m \in Months, e \in Employees, a \in Amounts, s \in {"active", "disabled"} :
        /\ Writable(m)
        /\ Start(r, Insertion("loss",
                [month |-> m, employee |-> e, amount |-> a, status |-> s]))

LossPatches ==
    {Column("month", m) : m \in Months}
    \cup {Column("employee", e) : e \in Employees}
    \cup {Column("amount", a) : a \in Amounts}
    \cup {Column("status", s) : s \in StatusesOf("loss")}

updateLoss(r) == \E id \in Of("loss"), patch \in LossPatches : StartUpdate(r, id, patch)

disableLoss(r) == \E id \in Of("loss") : StartStatus(r, id, "disabled")

-----------------------------------------------------------------------------
(* The rates of a month, whose status is stored as it is submitted.        *)

RateStatuses == {"active", "disabled"}

createExchangeRate(r) ==
    \E m \in Months, a \in Rates \ {0}, s \in RateStatuses :
        /\ Writable(m)
        /\ Start(r, Insertion("exchangeRate",
                [month |-> m, amount |-> a, status |-> s]))

ExchangeRatePatches ==
    {Column("month", m) : m \in Months}
    \cup {Column("amount", a) : a \in Rates \ {0}}
    \cup {Column("status", s) : s \in RateStatuses}

updateExchangeRate(r) ==
    \E id \in Of("exchangeRate"), patch \in ExchangeRatePatches : StartUpdate(r, id, patch)

disableExchangeRate(r) == \E id \in Of("exchangeRate") : StartStatus(r, id, "disabled")

createFeeRate(r) ==
    \E m \in Months, p \in Providers, a \in Rates, s \in RateStatuses :
        /\ Writable(m)
        /\ Start(r, Insertion("feeRate",
                [month |-> m, key |-> p, amount |-> a, status |-> s]))

FeeRatePatches ==
    {Column("month", m) : m \in Months}
    \cup {Column("key", p) : p \in Providers}
    \cup {Column("amount", a) : a \in Rates}
    \cup {Column("status", s) : s \in RateStatuses}

updateFeeRate(r) ==
    \E id \in Of("feeRate"), patch \in FeeRatePatches : StartUpdate(r, id, patch)

disableFeeRate(r) == \E id \in Of("feeRate") : StartStatus(r, id, "disabled")

-----------------------------------------------------------------------------
(* Performance groups.  A share is stored with fewer digits than it may be *)
(* submitted with: Postgres rounds it to the nearest.                      *)

StoredShare(fine) == (2 * fine + Fine) \div (2 * Fine)

validateMembers(roster) ==
    /\ DOMAIN roster # {}
    /\ \A e \in DOMAIN roster : roster[e] > 0
    /\ MapThenSumSet(LAMBDA e : roster[e], DOMAIN roster) = One * Fine

MembersOf(g) == {x \in members : x.group = g}

MemberRows(g, m, roster) ==
    {[group |-> g, month |-> m, employee |-> e, share |-> StoredShare(roster[e])] :
        e \in DOMAIN roster}

\* The members of g are those of one submitted list.
OfOneRoster(all, g) ==
    all = {} \/ \E roster \in Rosters, m \in Months :
                   validateMembers(roster) /\ all = MemberRows(g, m, roster)

ASSUME InitialSharesAssumption ==
    \A g \in Groups : OfOneRoster({x \in InitialMembers : x.group = g}, g)

assertNoDuplicateEmployees(m, employees, excluded) ==
    ~\E x \in members : x.month = m /\ x.employee \in employees /\ x.group # excluded

GroupJob(do, g, patch, roster, checkMonth) ==
    [do |-> do, group |-> g, patch |-> patch, roster |-> roster, checkMonth |-> checkMonth]

NoColumns == [c \in {} |-> None]
NoRoster == [e \in {} |-> 0]

createGroup(r) ==
    \E g \in Groups, m \in Months, roster \in Rosters :
        /\ groups[g] = None
        /\ validateMembers(roster)
        /\ Writable(m)
        /\ Start(r, GroupJob("checkGroup", g, [month |-> m, status |-> "active"], roster, m))

\* A new month needs new members; other columns may change alone.
updateGroup(r) ==
    \E g \in Groups, roster \in Rosters \cup {NoRoster},
       patch \in {NoColumns} \cup {Column("month", m) : m \in Months}
                \cup {Column("status", s) : s \in {"active", "disabled"}} :
        /\ groups[g] # None
        /\ roster = NoRoster => "month" \notin DOMAIN patch /\ patch # NoColumns
        /\ roster # NoRoster => validateMembers(roster)
        /\ LET next == Patched(groups[g], patch).month IN
            /\ Writable(groups[g].month) /\ Writable(next)
            /\ Start(r, GroupJob(IF roster = NoRoster THEN "writeGroup" ELSE "checkGroup",
                                 g, patch, roster, next))

disableGroup(r) ==
    \E g \in Groups :
        /\ groups[g] # None
        /\ Writable(groups[g].month)
        /\ Start(r, GroupJob("writeGroup", g, Column("status", "disabled"), NoRoster,
                             groups[g].month))

CheckGroup(r) ==
    /\ work[r] # None
    /\ work[r].do = "checkGroup"
    /\ LET excluded == IF groups[work[r].group] = None THEN None ELSE work[r].group IN
       work' = [work EXCEPT ![r] =
            IF assertNoDuplicateEmployees(work[r].checkMonth, DOMAIN work[r].roster, excluded)
            THEN [work[r] EXCEPT !.do = "writeGroup"] ELSE None]
    /\ UNCHANGED <<rows, groups, members, configs, started, facts, locked>>

\* @@unique([settlementMonth, employeeId]) and @@unique([groupId, employeeId])
IndexAllows(all) ==
    \A x, y \in all :
        x.employee = y.employee /\ (x.month = y.month \/ x.group = y.group) => x = y

MemberMonth(row, job) == row.month

\* variant: the old members of the group are not deleted
KeptMembersAll(g, job) == members

KeptMembers(g, job) == IF job.roster = NoRoster THEN members ELSE members \ MembersOf(g)

\* The writes of the transaction: the update of the group's row holds its lock.
WriteGroup(r) ==
    /\ work[r] # None
    /\ work[r].do = "writeGroup"
    /\ LET job == work[r]
           g == job.group
           row == IF groups[g] = None THEN job.patch ELSE Patched(groups[g], job.patch)
           after == KeptMembers(g, job)
                        \cup MemberRows(g, MemberMonth(row, job), job.roster)
       IN  IF IndexAllows(after)
           THEN members' = after /\ groups' = [groups EXCEPT ![g] = row]
           ELSE UNCHANGED <<members, groups>>
    /\ work' = [work EXCEPT ![r] = None]
    /\ UNCHANGED <<rows, configs, started, facts, locked>>

-----------------------------------------------------------------------------
(* The preflight check of a month and the read model of a generation.      *)

At(kind, m, statuses) ==
    {id \in Of(kind) : rows[id] # None /\ rows[id].month = m /\ rows[id].status \in statuses}

Read(ids) ==
    {[id |-> id, employee |-> rows[id].employee, key |-> rows[id].key,
      amount |-> rows[id].amount] : id \in ids}

EventsAt(m) == {x \in facts.events : x.month = m}

FeeProviders(m) == {rows[id].key : id \in At("feeRate", m, ActiveRate)}

readManualDraftCounts(m) ==
    Cardinality(At("income", m, {"draft", "disabled"}))
    + Cardinality(At("cardSpend", m, {"draft"}))
    + Cardinality(At("salaryItem", m, {"draft", "disabled"}))
    + Cardinality(At("loss", m, {"draft", "disabled"}))

buildLockedCheck(m) == m \in locked
buildExchangeRateCheck(m) == At("exchangeRate", m, ActiveRate) = {}
buildProviderFeeRateCheck(m) == ~({x.key : x \in EventsAt(m)} \subseteq FeeProviders(m))
buildStaleCakeAdjustmentCheck(m) == m \in facts.staleAdjustments
buildUnmatchedCheck(m) == m \in facts.openUnmatched
buildManualDraftCheck(m) == readManualDraftCounts(m) > 0
buildSyncTaskCheck(m) == m \in facts.openTasks

canGenerate(m) ==
    ~\/ buildLockedCheck(m)
     \/ buildExchangeRateCheck(m)
     \/ buildProviderFeeRateCheck(m)
     \/ buildStaleCakeAdjustmentCheck(m)

Warnings(m) ==
    {code \in {"unmatched", "drafts", "tasks"} :
        CASE code = "unmatched" -> buildUnmatchedCheck(m)
          [] code = "drafts" -> buildManualDraftCheck(m)
          [] code = "tasks" -> buildSyncTaskCheck(m)}

\* The preflight passes when every warning, and nothing else, is acknowledged.
assertCanGenerate(m, acknowledged) == canGenerate(m) /\ acknowledged = Warnings(m)

\* readSettlementData: a missing exchange rate is refused before the read model is built.
MissingExchangeRate(m) == At("exchangeRate", m, ActiveRate) = {}

readSettlementData(m) ==
    [incomes |-> Read(At("income", m, {"confirmed"})),
     events |-> EventsAt(m),
     cards |-> Read(At("cardSpend", m, {"confirmed"})),
     fees |-> Read(At("feeRate", m, ActiveRate)),
     members |-> {x \in members : x.month = m},
     losses |-> Read(At("loss", m, ActiveRate)),
     items |-> {[id |-> id, employee |-> rows[id].employee, amount |-> rows[id].amount,
                 type |-> configs[rows[id].key].type] : id \in At("salaryItem", m, ActiveRate)},
     exchange |-> rows[CHOOSE id \in At("exchangeRate", m, ActiveRate) : TRUE].amount,
     attendance |-> facts.attendance,
     absent |-> facts.absent]

Refused(m) == MissingExchangeRate(m) \/ S!precheck(readSettlementData(m)) # {}

-----------------------------------------------------------------------------
(* The requests of each controller.                                        *)

ManualIncomeRecords(r) == createIncome(r) \/ updateIncome(r) \/ confirmIncome(r) \/ disableIncome(r)

ManualCardSpendEntries(r) ==
    createCardSpend(r) \/ updateCardSpend(r) \/ confirmCardSpend(r) \/ disableCardSpend(r)

MonthlySalaryManualItems(r) == createSalaryItem(r) \/ updateSalaryItem(r) \/ disableSalaryItem(r)
SalaryItemConfigs(r) == createConfig(r) \/ updateConfig(r) \/ disableConfig(r)
HistoricalNegativeProfits(r) == createLoss(r) \/ updateLoss(r) \/ disableLoss(r)
MonthlyExchangeRates(r) == createExchangeRate(r) \/ updateExchangeRate(r) \/ disableExchangeRate(r)
MonthlyCardProviderFeeRates(r) == createFeeRate(r) \/ updateFeeRate(r) \/ disableFeeRate(r)
PerformanceGroups(r) == createGroup(r) \/ updateGroup(r) \/ disableGroup(r)

Operation(r) ==
    \/ ManualIncomeRecords(r) \/ ManualCardSpendEntries(r)
    \/ MonthlySalaryManualItems(r) \/ SalaryItemConfigs(r) \/ HistoricalNegativeProfits(r)
    \/ MonthlyExchangeRates(r) \/ MonthlyCardProviderFeeRates(r)
    \/ PerformanceGroups(r)

Next ==
    \E r \in Requests :
        \/ Operation(r)
        \/ InsertRow(r) \/ UpdateRow(r) \/ CheckGroup(r) \/ WriteGroup(r) \/ Abandon(r)

Spec == Init /\ [][Next]_vars

-----------------------------------------------------------------------------
(* Properties.                                                             *)

\* An employee is in one group of a month at most, whatever creations and
\* replacements overlap: the calculation would otherwise refuse the month.
OneGroupPerMonth ==
    \A x, y \in members : x.month = y.month /\ x.employee = y.employee => x = y

\* The members of a group are members of the group's month, also when the group
\* moves to another month while a second request replaces its members.
MembersFollowTheirGroup ==
    \A x \in members : groups[x.group] # None /\ x.month = groups[x.group].month

\* The stored shares of a group are those of one submitted list of members: they
\* differ from 1 by the rounding of each share at most.
SharesAddUp ==
    \A g \in Groups : MembersOf(g) # {} =>
        LET off == MapThenSumSet(LAMBDA x : x.share, MembersOf(g)) - One IN
        2 * off \in -Cardinality(MembersOf(g)) .. Cardinality(MembersOf(g))

\* What the preflight lets through the calculation accepts, but for two cases the
\* preflight does not look for: shares that lost their sum in storage, and a
\* confirmed income record whose employee a second request took away.
PreflightCoversPrecheck ==
    \A m \in Months : canGenerate(m) =>
        /\ ~MissingExchangeRate(m)
        /\ S!precheck(readSettlementData(m)) \subseteq {"shares", "unassignedIncome"}

Counted(kind, m) == At(kind, m, {"confirmed", "active"})
Sum(ids, amount(_)) == MapThenSumSet(amount, ids)

\* The profit of a month, from its rows and not from the calculation.
ProfitOfMonth(m) ==
    LET fee(p) == Sum({id \in Counted("feeRate", m) : rows[id].key = p},
                      LAMBDA id : rows[id].amount)
    IN  One * Sum(Counted("income", m), LAMBDA id : rows[id].amount)
        - Sum(Counted("cardSpend", m), LAMBDA id : rows[id].amount)
        - MapThenSumSet(LAMBDA x : x.amount * (One + fee(x.key)), EventsAt(m))

ItemsOfMonth(m) ==
    Sum(Counted("salaryItem", m),
        LAMBDA id : IF configs[rows[id].key].type = "addition"
                    THEN rows[id].amount ELSE -rows[id].amount)

\* Every row of a month that counts is used once: the employees' allocated profits
\* add up to the profit of the month, the losses set off against them to the
\* month's losses and the manual amounts to its items, with and without groups.
EveryRowIsUsedOnce ==
    \A m \in Months : ~Refused(m) =>
        LET results == S!calculate(readSettlementData(m))
            TotalOf(f(_)) == MapThenSumSet(f, DOMAIN results)
        IN  /\ TotalOf(LAMBDA e : results[e].allocated) = ProfitOfMonth(m) * One
            /\ TotalOf(LAMBDA e : results[e].carried)
                    = Sum(Counted("loss", m), LAMBDA id : rows[id].amount) * S!UsdUnit
            /\ TotalOf(LAMBDA e : results[e].manual) = ItemsOfMonth(m) * S!RmbUnit

\* Of two employees of a month with the same mode and attendance, the one with the
\* larger profit after its losses is not paid less, manual items aside.
SalaryGrowsWithProfit ==
    \A m \in Months : ~Refused(m) =>
        LET results == S!calculate(readSettlementData(m)) IN
        \A e, f \in DOMAIN results :
            LET a == results[e]  b == results[f] IN
            (a.mode = b.mode /\ a.full = b.full /\ a.commission <= b.commission)
                => a.final - a.manual <= b.final - b.manual

RowsAt(m) == {<<id, rows[id]>> : id \in {id \in Ids : rows[id] # None /\ rows[id].month = m}}

\* A month that was locked before the requests began keeps its rows and members: none
\* of them changes, leaves it or is moved into it.
LockedMonthIsKept ==
    [][\A m \in locked :
        /\ RowsAt(m)' = RowsAt(m)
        /\ {x \in members : x.month = m}' = {x \in members : x.month = m}]_vars

\* The groups of a month fit together, whatever requests about them overlap.
GroupsInv == TypeOK /\ OneGroupPerMonth /\ MembersFollowTheirGroup /\ SharesAddUp

\* What the preflight passes is calculated, with every row in it, and fairly.
CalculationInv == PreflightCoversPrecheck /\ EveryRowIsUsedOnce /\ SalaryGrowsWithProfit
=============================================================================
