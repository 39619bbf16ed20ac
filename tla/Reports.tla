------------------------------- MODULE Reports -------------------------------
(***************************************************************************)
(* What administrators read back: the reconciliation reports of a month,   *)
(* and the audit log, page by page or as a CSV.                            *)
(*                                                                         *)
(* A report is several statements.  Those of one report share a            *)
(* transaction, whose isolation is the database's default: each statement  *)
(* sees what is committed when it runs.  Imports and administrators change *)
(* the rows of the month between any two of them.                          *)
(*                                                                         *)
(* The audit log only grows.  An entry carries the time its transaction    *)
(* began and a random id, so one that is committed later may be listed     *)
(* between or below entries that were there before it.                     *)
(***************************************************************************)
EXTENDS Integers, Sequences, FiniteSets, FiniteSetsExt, Functions

CONSTANTS
    Staff, ActiveEmployees,   \* all employees; those who are active
    Nobody,          \* the row has no employee; the query names none
    InitialLedger, InitialLog,
    ListSize,        \* pageSize
    MaxPayoutRows,   \* 50 000
    MaxExportRows,   \* 10 000
    DefaultSpan,     \* 7 days
    MaxSpan,         \* 90 days
    MaxEntries,      \* bound: audit entries
    MaxInstant,      \* bound: the time
    MaxReports,      \* bound: reports asked for
    MaxWrites        \* bound: rows changed and entries written by others

ASSUME ReportsAssumption ==
    /\ ListSize \in Nat \ {0} /\ MaxExportRows \in Nat /\ DefaultSpan \in Nat
    /\ MaxInstant \in Nat /\ MaxEntries \in Nat

\* Rows of the three tables, with employee, source or provider, amount and status.
ASSUME LedgerAssumption ==
    /\ DOMAIN InitialLedger = {"income", "spend", "manual"}
    /\ \A kind \in DOMAIN InitialLedger :
          /\ IsFiniteSet(InitialLedger[kind])
          /\ \A r \in InitialLedger[kind] :
                /\ DOMAIN r = {"id", "employee", "key", "amount", "status"}
                /\ r.amount \in Int

Entries == [id: 1..MaxEntries, at: Int, action: {"other", "exported", "refused"},
            rows: Nat, seq: Nat]

\* The log has been written to, and its entries have ids of their own.
ASSUME LogAssumption ==
    /\ InitialLog # {} /\ IsFiniteSet(InitialLog) /\ InitialLog \subseteq Entries
    /\ \A x, y \in InitialLog : x.id = y.id => x = y
    /\ \A x \in InitialLog : x.at >= 0 /\ x.seq <= Cardinality(InitialLog)

VARIABLES
    ledger,   \* the month's income, card spend and manual card spend rows
    log,      \* audit entries; seq is the order in which they were committed
    instant,
    reader,   \* the report under way
    handed,   \* the audit CSVs that left the server
    asked,
    written

reportVars == <<ledger, log, instant, reader, handed, asked, written>>

AffiliateSources == {"everflow", "cake"}

(* Calculations of the settlement, in whole dollars and without fees.      *)
Settlement == INSTANCE SalaryCalculator WITH One <- 1, None <- Nobody

NoQuery == [employee |-> Nobody, from |-> 0, to |-> 0]

Resting == [job |-> "none", step |-> "none", query |-> NoQuery, read |-> <<>>,
            page |-> 1, total |-> 0, seen |-> {}, asOf |-> 0, disturbed |-> FALSE]

Asking(job, step, query) ==
    /\ reader.job = "none" /\ asked < MaxReports /\ asked' = asked + 1
    /\ reader' = [Resting EXCEPT !.job = job, !.step = step, !.query = query,
                                 !.asOf = Cardinality(log)]

---------------------------------------------------------------------------
(* Reports of a month.                                                     *)

Usd(rows) == MapThenSumSet(LAMBDA r : r.amount, rows)

FirstRows(rows, n) == SubSeq(rows, 1, Min({n, Len(rows)}))

PageRows(rows, page) == FirstRows(SubSeq(rows, (page - 1) * ListSize + 1, Len(rows)), ListSize)

(* The sequence of the elements of S, each at the place that the elements  *)
(* before it leave to it.                                                  *)
Ordered(S, Before(_, _)) ==
    [n \in 1..Cardinality(S) |->
        CHOOSE x \in S : Cardinality({y \in S : Before(y, x)}) = n - 1]

Newest(rows) == Ordered(rows, LAMBDA x, y : x.id > y.id)
Oldest(rows) == Ordered(rows, LAMBDA x, y : x.id < y.id)

Where(kind, e) ==
    {r \in ledger[kind] : /\ kind = "income" => r.key \in AffiliateSources
                          /\ e # Nobody => r.employee = e}

Open(kind) == {r \in Where(kind, Nobody) : r.employee = Nobody}

\* variant: the matched rows are taken from every source
MatchedAnywhere(kind) == {r \in ledger[kind] : r.employee # Nobody}

(* The condition that there is an employee replaces the one that asks for  *)
(* a particular employee.                                                  *)
Matched(kind) == {r \in Where(kind, Nobody) : r.employee # Nobody}

ConfirmedManual == {r \in ledger.manual : r.status = "confirmed"}

ByEmployee(rows) ==
    [e \in {r.employee : r \in rows} |-> Usd({r \in rows : r.employee = e})]

PagedReport(kind) ==
    LET rows == Where(kind, reader.query.employee) IN
    <<Cardinality(rows), PageRows(Newest(rows), reader.page),
      [usd |-> Usd(rows), count |-> Cardinality(rows)],
      Usd(Matched(kind)), Cardinality(Matched(kind))>>

monthlyEmployeeSummary ==
    <<ActiveEmployees, ByEmployee(Matched("income")), ByEmployee(Matched("spend")),
      ByEmployee(ConfirmedManual), Cardinality(Open("income")), Cardinality(Open("spend"))>>

unmatched == <<Open("income"), Open("spend")>>

\* Oldest first; rows beyond the limit are left out and nothing says so.
exportAffiliatePayoutCsv ==
    <<FirstRows(Oldest(Where("income", reader.query.employee)), MaxPayoutRows)>>

(* What each statement of a report would read now.                         *)
Statements(job) ==
    CASE job \in {"income", "spend"} -> PagedReport(job)
      [] job = "monthly" -> monthlyEmployeeSummary
      [] job = "unmatched" -> unmatched
      [] job = "payout" -> exportAffiliatePayoutCsv

MonthReports == {"income", "spend", "monthly", "unmatched", "payout"}

AskReport ==
    /\ \E job \in MonthReports, e \in Staff \cup {Nobody} :
          /\ job \in {"monthly", "unmatched"} => e = Nobody
          /\ Asking(job, "read", [NoQuery EXCEPT !.employee = e])
    /\ UNCHANGED <<ledger, log, instant, handed, written>>

Complete == reader.job \in MonthReports /\ Len(reader.read) = Len(Statements(reader.job))

ReadStatement ==
    /\ reader.job \in MonthReports /\ ~Complete
    /\ reader' = [reader EXCEPT
                    !.read = Append(@, Statements(reader.job)[Len(@) + 1])]
    /\ UNCHANGED <<ledger, log, instant, handed, asked, written>>

CloseReport ==
    /\ Complete
    /\ reader' = Resting
    /\ UNCHANGED <<ledger, log, instant, handed, asked, written>>

(* The figures computed from what was read.                                *)
Summary ==
    [total |-> reader.read[1], eventCount |-> reader.read[3].count,
     unmatchedUsd |-> reader.read[3].usd - reader.read[4],
     unmatchedCount |-> reader.read[3].count - reader.read[5]]

Amount(sums, e) == IF e \in DOMAIN sums THEN sums[e] ELSE 0

rawGrossProfit ==
    [e \in reader.read[1] \cup UNION {DOMAIN reader.read[n] : n \in 2..4} |->
        Amount(reader.read[2], e) - Amount(reader.read[3], e) - Amount(reader.read[4], e)]

(* Imports and administrators.                                             *)
NewRow(kind, e) ==
    [id |-> 1 + Max({0} \cup {r.id : r \in ledger[kind]}), employee |-> e,
     key |-> IF kind = "income" THEN "everflow" ELSE "airwallex",
     amount |-> 1, status |-> "confirmed"]

Replaced(kind, r, rows) ==
    ledger' = [ledger EXCEPT ![kind] = (@ \ {r}) \cup rows]

ChangeRows ==
    /\ written < MaxWrites /\ written' = written + 1
    /\ \/ \E kind \in {"income", "spend"}, e \in Staff \cup {Nobody} :
             /\ kind = "income" => e # Nobody
             /\ ledger' = [ledger EXCEPT ![kind] = @ \cup {NewRow(kind, e)}]
       \/ \E r \in Open("income"), e \in Staff :
             Replaced("income", r, {[r EXCEPT !.employee = e]})
       \/ \E r \in Where("income", Nobody) : Replaced("income", r, {})
       \/ \E r \in ledger.income : /\ r.status = "confirmed"
                                   /\ Replaced("income", r, {[r EXCEPT !.status = "disabled"]})
       \/ \E r \in ledger.manual, s \in {"draft", "confirmed"} :
             r.status # s /\ Replaced("manual", r, {[r EXCEPT !.status = s]})
    /\ reader' = [reader EXCEPT !.disturbed = @ \/ reader.read # <<>>]
    /\ UNCHANGED <<log, instant, handed, asked>>

---------------------------------------------------------------------------
(* The audit log.                                                          *)

Entry(id, at, action, rows) ==
    [id |-> id, at |-> at, action |-> action, rows |-> rows, seq |-> Cardinality(log) + 1]

write(at, action, rows) ==
    \E id \in (1..MaxEntries) \ {x.id : x \in log} :
        log' = log \cup {Entry(id, at, action, rows)}

(* Anybody else's entry, of a transaction that may have begun before.      *)
WriteEntry ==
    /\ written < MaxWrites /\ written' = written + 1
    /\ \E at \in {instant - 1, instant} : write(at, "other", 0)
    /\ reader' = [reader EXCEPT !.disturbed = @ \/ reader.step = "rows"]
    /\ UNCHANGED <<ledger, instant, handed, asked>>

Tick ==
    /\ instant < MaxInstant /\ instant' = instant + 1
    /\ UNCHANGED <<ledger, log, reader, handed, asked, written>>

(* A time that is not given is 0.                                          *)
createdTo(q) == IF q.to = 0 THEN instant ELSE q.to
createdFrom(q) == IF q.from = 0 THEN createdTo(q) - DefaultSpan ELSE q.from

RangeRefused(q) ==
    \/ q.from # 0 /\ q.to # 0 /\ q.from > q.to
    \/ createdTo(q) - createdFrom(q) > MaxSpan

parseAuditLogFilters(q) == {x \in log : createdFrom(q) <= x.at /\ x.at <= createdTo(q)}

IsNewer(x, y) == x.at > y.at \/ (x.at = y.at /\ x.id > y.id)

NewestFirst(entries) == Ordered(entries, IsNewer)

AuditQueries == [employee : {Nobody}, from : 0..MaxInstant, to : 0..MaxInstant]

(* The page sends both ends of the range or neither.                       *)
AskList ==
    /\ \E q \in AuditQueries :
          (q.from = 0) = (q.to = 0) /\ ~RangeRefused(q) /\ Asking("list", "count", q)
    /\ UNCHANGED <<ledger, log, instant, handed, written>>

CountEntries ==
    /\ reader.job = "list" /\ reader.step = "count"
    /\ reader' = [reader EXCEPT !.step = "rows",
                                !.total = Cardinality(parseAuditLogFilters(reader.query))]
    /\ UNCHANGED <<ledger, log, instant, handed, asked, written>>

ReadPage ==
    /\ reader.job = "list" /\ reader.step = "rows"
    /\ LET rows == NewestFirst(parseAuditLogFilters(reader.query)) IN
       reader' = [reader EXCEPT !.step = "shown",
                                !.seen = @ \cup Range(PageRows(rows, reader.page))]
    /\ UNCHANGED <<ledger, log, instant, handed, asked, written>>

LastPage == reader.page * ListSize >= reader.total

NextPage ==
    /\ reader.job = "list" /\ reader.step = "shown" /\ ~LastPage
    /\ reader' = [reader EXCEPT !.step = "count", !.page = @ + 1]
    /\ UNCHANGED <<ledger, log, instant, handed, asked, written>>

CloseList ==
    /\ reader.job = "list" /\ reader.step = "shown"
    /\ reader' = Resting
    /\ UNCHANGED <<ledger, log, instant, handed, asked, written>>

AskExport ==
    /\ \E q \in AuditQueries : Asking("export", IF RangeRefused(q) THEN "fail" ELSE "read", q)
    /\ UNCHANGED <<ledger, log, instant, handed, written>>

\* variant: no more rows are read than may be exported
TakeLimit == MaxExportRows

TakeOneMore == MaxExportRows + 1

ReadExport ==
    /\ reader.job = "export" /\ reader.step = "read"
    /\ LET q == reader.query
           rows == FirstRows(NewestFirst(parseAuditLogFilters(q)), TakeOneMore) IN
       reader' = IF Len(rows) > MaxExportRows THEN [reader EXCEPT !.step = "fail"]
                 ELSE [reader EXCEPT !.step = "log", !.asOf = Cardinality(log),
                         !.read = <<[entries |-> Range(rows), asOf |-> Cardinality(log),
                                     from |-> createdFrom(q), to |-> createdTo(q)]>>]
    /\ UNCHANGED <<ledger, log, instant, handed, asked, written>>

ExportWritten ==
    /\ reader.job = "export" /\ reader.step = "log"
    /\ write(instant, "exported", Cardinality(reader.read[1].entries))
    /\ handed' = Append(handed, reader.read[1])
    /\ reader' = Resting
    /\ UNCHANGED <<ledger, instant, asked, written>>

ExportNotWritten ==
    /\ reader.job = "export" /\ reader.step = "log"
    /\ reader' = [reader EXCEPT !.step = "fail"]
    /\ UNCHANGED <<ledger, log, instant, handed, asked, written>>

(* The failure is logged too, unless that write fails as well.             *)
writeFailureAudit ==
    /\ reader.job = "export" /\ reader.step = "fail"
    /\ write(instant, "refused", 0) \/ UNCHANGED log
    /\ reader' = Resting
    /\ UNCHANGED <<ledger, instant, handed, asked, written>>

---------------------------------------------------------------------------

ReportsInit ==
    /\ ledger = InitialLedger
    /\ log = InitialLog
    /\ instant = Max({x.at : x \in InitialLog})
    /\ reader = Resting /\ handed = <<>>
    /\ asked = 0 /\ written = 0

MonthReading == AskReport \/ ReadStatement \/ CloseReport \/ ChangeRows

LogReading ==
    \/ AskList \/ CountEntries \/ ReadPage \/ NextPage \/ CloseList
    \/ AskExport \/ ReadExport \/ ExportWritten \/ ExportNotWritten \/ writeFailureAudit
    \/ WriteEntry \/ Tick

ReportsNext == MonthReading \/ LogReading

ReportsSpec == ReportsInit /\ [][ReportsNext]_reportVars

---------------------------------------------------------------------------

Undisturbed(jobs) == reader.job \in jobs /\ Complete /\ ~reader.disturbed

(* When nothing is written while the income or card spend report is read,  *)
(* and no employee is asked for, the unmatched amount and count it shows,  *)
(* differences of sums it read apart, are those of exactly the rows the    *)
(* report of unmatched rows lists.                                         *)
UnmatchedIsAccountedFor ==
    /\ Undisturbed({"income", "spend"}) /\ reader.query.employee = Nobody =>
         LET open == Open(reader.job) IN
         /\ Summary.total = Summary.eventCount
         /\ Summary.unmatchedUsd = Usd(open)
         /\ Summary.unmatchedCount = Cardinality(open)
    /\ Undisturbed({"unmatched"}) => reader.read = <<Open("income"), Open("spend")>>

(* The rows a settlement of the month would be generated from.             *)
readSettlement ==
    [incomes |-> {r \in ledger.income : r.status = "confirmed"}, events |-> ledger.spend,
     cards |-> {r \in ledger.manual : r.status = "confirmed"}, fees |-> {}, losses |-> {},
     items |-> {}, members |-> {}, attendance |-> {}]

(* The raw gross profit the monthly report shows of an employee is the     *)
(* profit the settlement would compute, fees left out, when nothing is     *)
(* written meanwhile and every income of the employee is an import nobody  *)
(* disabled.  Nobody the settlement would pay is missing from the report.  *)
GrossAgreesWithSettlement ==
    Undisturbed({"monthly"}) =>
        LET profits == Settlement!calculateEmployeeProfits(readSettlement) IN
        \A e \in DOMAIN profits :
            (\A r \in ledger.income : r.employee = e =>
                 r.key \in AffiliateSources /\ r.status = "confirmed") =>
            e \in DOMAIN rawGrossProfit /\ rawGrossProfit[e] = profits[e]

(* Whoever pages through a fixed range of the log to its last page sees    *)
(* every entry that was there when he began, whatever is written between   *)
(* two pages.  (An entry committed between the count and the rows of one   *)
(* page may hide an older one.)                                            *)
PagesSkipNothing ==
    /\ reader.job = "list" /\ reader.step = "shown" /\ LastPage
    /\ reader.query.to # 0 /\ ~reader.disturbed
    => \A x \in parseAuditLogFilters(reader.query) : x.seq <= reader.asOf => x \in reader.seen

(* No audit CSV leaves the server without an entry that tells of it and    *)
(* of how many rows it has.                                                *)
ExportsAreLogged ==
    \A n \in 0..MaxExportRows :
        Cardinality({i \in DOMAIN handed : Cardinality(handed[i].entries) = n})
          <= Cardinality({x \in log : x.action = "exported" /\ x.rows = n})

(* An audit CSV is never cut off: it has every entry of its range that was *)
(* in the log when it was read.                                            *)
ExportsAreWhole ==
    \A i \in DOMAIN handed :
        {x \in log : /\ x.seq <= handed[i].asOf
                     /\ handed[i].from <= x.at /\ x.at <= handed[i].to}
          \subseteq handed[i].entries

(* The figures of a report agree with one another and with the settlement. *)
ReportsInv == UnmatchedIsAccountedFor /\ GrossAgreesWithSettlement

(* Nothing escapes the audit log: neither a reader who pages through it    *)
(* nor an export misses an entry, and exports are entries themselves.      *)
AuditInv == PagesSkipNothing /\ ExportsAreLogged /\ ExportsAreWhole
=============================================================================
