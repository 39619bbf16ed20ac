------------------------- MODULE SettlementLifecycle -------------------------
(***************************************************************************)
(* The life of a monthly settlement: rows are entered and imported, a      *)
(* settlement is generated from the month's rows, confirmed and locked,    *)
(* and the lock rolls the losses it leaves into the next month.            *)
(*                                                                         *)
(* Every operation of the API is an async handler that alternates database *)
(* calls with awaits.  A request is therefore a small program: pc[r] names *)
(* the database call r is about to make, month[r] the settlement month it  *)
(* works on and work[r] the data it already read and will still use.       *)
(* PostgreSQL runs at its default level, READ COMMITTED, so a transaction  *)
(* whose first statement reads and whose second writes is two steps; the   *)
(* write statements of a transaction, which hold the row lock of the       *)
(* settlement until the commit, are one.                                   *)
(***************************************************************************)
EXTENDS Integers, FiniteSets, FiniteSetsExt

CONSTANTS
    LastMonth,      \* settlement months are 1 .. LastMonth, in calendar order
    Employees,      \* employees that may own a row of a month
    Profits,        \* what a row may add to its employee's profit
    Ids,            \* identities of month-scoped rows, see Id
    Movable,        \* rows an administrator may give another month
    Requests,       \* request slots of the API process
    MaxActive,      \* bound: requests in flight at the same time
    MaxWrites,      \* bound: rows written by one import
    Ops,            \* the operations of this instance
    NoRow,          \* the employee has no row
    Unread          \* a query of a request that has not answered yet

AllOps == {"generate", "confirm", "lock", "create", "import", "update"}

Months == 1 .. LastMonth

\* A row of a month-scoped table, named by what first wrote it: the month and the
\* employee it was typed in for, the month and the sub id of its external key,
\* or the month and the employee whose loss was rolled forward.
Id == [kind : {"entered", "imported", "rolled"}, month : Months,
       employee : Employees, copy : Nat]

ASSUME LifecycleAssumption ==
    /\ LastMonth \in Nat \ {0}
    /\ Profits \subseteq Int
    /\ \A i \in Ids : i \in Id
    /\ Movable \subseteq Ids
    /\ MaxActive \in Nat
    /\ MaxWrites \in Nat \ {0}
    /\ Ops \subseteq AllOps

Statuses == {"none", "draft", "confirmed", "locked"}
Pcs == {"idle", "read", "recheck", "upsert", "confirm", "lockMonth", "lock", "roll",
        "insert", "import", "check", "checkNext", "update"}

VARIABLES
    status,     \* monthly_settlements.status; "none" while there is no row
    lockedAt,   \* monthly_settlements.locked_at is set
    details,    \* monthly_settlement_details: what remains negative per employee
    monthOf,    \* settlement_month of a row; 0 while there is no such row
    rows,       \* its other columns
    pc, month, work

vars == <<status, lockedAt, details, monthOf, rows, pc, month, work>>
books == <<status, lockedAt, details, monthOf, rows>>

-----------------------------------------------------------------------------
(* The rows a settlement is computed from and what it leaves behind.       *)

\* A row that is not confirmed or active is not counted.
Row == [employee : Employees, net : Int, counted : BOOLEAN]

Blank(i) == [employee |-> i.employee, net |-> 0, counted |-> FALSE]

Inputs == {i \in Ids : i.kind \in {"entered", "imported"}}
Rolled == {i \in Ids : i.kind = "rolled"}

Counted(ids, m, e) ==
    {i \in ids : monthOf[i] = m /\ rows[i].counted /\ rows[i].employee = e}

\* sumHistoricalNegativeProfits and its siblings; NoRow when no row names the employee
NetOf(ids, m) ==
    [e \in Employees |->
        IF Counted(ids, m, e) = {} THEN NoRow
        ELSE MapThenSumSet(LAMBDA i : rows[i].net, Counted(ids, m, e))]

\* applyNegativeCarryover: the part of the carried loss the profit does not cover
Remaining(profit, carried) == IF profit >= carried THEN 0 ELSE carried - profit

\* One detail row for every employee some row names.
Calculate(profit, carried) ==
    LET orZero(n) == IF n = NoRow THEN 0 ELSE n IN
    [e \in Employees |->
        IF profit[e] = NoRow /\ carried[e] = NoRow THEN NoRow
        ELSE Remaining(orZero(profit[e]), -orZero(carried[e]))]

\* variant: the month is not advanced
nextSettlementMonthSame(m) == m

nextSettlementMonth(m) == m + 1

HasDetails(d) == \E e \in Employees : d[e] # NoRow
Owing(d) == {e \in Employees : d[e] # NoRow /\ d[e] > 0}

-----------------------------------------------------------------------------
(* Requests.                                                               *)

Idle(r) == pc[r] = "idle"
Active == {r \in Requests : ~Idle(r)}

isLocked(m) == status[m] = "locked"

Begin(r, o, m, next, w) ==
    /\ o \in Ops
    /\ Idle(r)
    /\ Cardinality(Active) < MaxActive
    /\ pc' = [pc EXCEPT ![r] = next]
    /\ month' = [month EXCEPT ![r] = m]
    /\ work' = [work EXCEPT ![r] = w]

Goto(r, next) == pc' = [pc EXCEPT ![r] = next]
Finish(r) == Goto(r, "idle") /\ work' = [work EXCEPT ![r] = Unread]

\* assertWritable: a request for a locked month ends here
assertWritable(r, m, next) ==
    IF isLocked(m) THEN Finish(r) ELSE Goto(r, next) /\ UNCHANGED work

Init ==
    /\ status = [m \in Months |-> "none"]
    /\ lockedAt = [m \in Months |-> FALSE]
    /\ details = [m \in Months |-> [e \in Employees |-> NoRow]]
    /\ monthOf = [i \in Ids |-> 0]
    /\ rows = [i \in Ids |-> Blank(i)]
    /\ pc = [r \in Requests |-> "idle"]
    /\ month = [r \in Requests |-> 1]
    /\ work = [r \in Requests |-> Unread]

-----------------------------------------------------------------------------
(* New rows: the manual entry services insert one after assertWritable, a   *)
(* provider adapter upserts or deletes rows by their external keys, one by  *)
(* one, after the single assertWritable of its task.                        *)

CreateCheck(r, m) ==
    /\ ~isLocked(m)
    /\ Begin(r, "create", m, "insert", Unread)
    /\ UNCHANGED books

InsertRow(r) ==
    /\ pc[r] = "insert"
    /\ \E i \in {j \in Ids : j.kind = "entered" /\ j.month = month[r] /\ monthOf[j] = 0} :
        /\ monthOf' = [monthOf EXCEPT ![i] = month[r]]
        /\ \E p \in Profits, c \in BOOLEAN :
            rows' = [rows EXCEPT ![i] = [employee |-> i.employee, net |-> p, counted |-> c]]
    /\ Finish(r)
    /\ UNCHANGED <<status, lockedAt, details, month>>

ImportCheck(r, m) ==
    /\ ~isLocked(m)
    /\ \E n \in 1 .. MaxWrites : Begin(r, "import", m, "import", [left |-> n])
    /\ UNCHANGED books

\* Upsert under the external key, or delete when the report has no revenue or no
\* owner for it; either finds the row in whatever month it now is.
ImportRow(r) ==
    /\ pc[r] = "import"
    /\ \E i \in {j \in Ids : j.kind = "imported" /\ j.month = month[r]} :
        \/ \E e \in Employees, p \in Profits :
            /\ monthOf' = [monthOf EXCEPT ![i] = month[r]]
            /\ rows' = [rows EXCEPT ![i] = [employee |-> e, net |-> p, counted |-> TRUE]]
        \/ /\ monthOf' = [monthOf EXCEPT ![i] = 0]
           /\ rows' = [rows EXCEPT ![i] = Blank(i)]
    /\ IF work[r].left = 1
       THEN Finish(r)
       ELSE work' = [work EXCEPT ![r].left = @ - 1] /\ UNCHANGED pc
    /\ UNCHANGED <<status, lockedAt, details, month>>

-----------------------------------------------------------------------------
(* Update, confirm and disable of the manual entry services: get(id), then  *)
(* assertWritable of the month the row was in and of the month it is to be  *)
(* given, then an update by id.                                             *)

GetRow(r, m) ==
    \E i \in {j \in Ids : monthOf[j] = m} :
        \E next \in IF i \in Movable THEN {0} \cup Months ELSE {0} :
            /\ Begin(r, "update", m, "check", [id |-> i, next |-> next])
            /\ UNCHANGED books

\* variant: only the month the row leaves is checked
CheckMonthOnly(r) ==
    /\ pc[r] = "check"
    /\ assertWritable(r, month[r], "update")
    /\ UNCHANGED <<books, month>>

\* variant: only the month the row is given is checked
CheckNextMonthOnly(r) ==
    /\ pc[r] = "check"
    /\ Goto(r, IF work[r].next \in {0, month[r]} THEN "update" ELSE "checkNext")
    /\ UNCHANGED <<books, month, work>>

CheckMonth(r) ==
    /\ pc[r] = "check"
    /\ assertWritable(r, month[r],
                      IF work[r].next \in {0, month[r]} THEN "update" ELSE "checkNext")
    /\ UNCHANGED <<books, month>>

CheckNextMonth(r) ==
    /\ pc[r] = "checkNext"
    /\ assertWritable(r, work[r].next, "update")
    /\ UNCHANGED <<books, month>>

\* An update of a row that has been deleted throws.
UpdateRow(r) ==
    /\ pc[r] = "update"
    /\ LET i == work[r].id IN
        \/ /\ monthOf[i] # 0
           /\ monthOf' = [monthOf EXCEPT ![i] = IF work[r].next = 0 THEN @ ELSE work[r].next]
           /\ \E row \in [employee : Employees, net : Profits \cup {rows[i].net}, counted : BOOLEAN] :
                rows' = [rows EXCEPT ![i] = row]
        \/ monthOf[i] = 0 /\ UNCHANGED <<monthOf, rows>>
    /\ Finish(r)
    /\ UNCHANGED <<status, lockedAt, details, month>>

-----------------------------------------------------------------------------
(* generateSettlement.                                                     *)

\* assertCanGenerate and assertWritable both refuse a locked month.
GenerateStart(r, m) ==
    /\ ~isLocked(m)
    /\ Begin(r, "generate", m, "read", [profit |-> Unread, carried |-> Unread])
    /\ UNCHANGED books

\* readSettlementData: parallel queries, each with a snapshot of its own
ReadInputs(r) ==
    /\ pc[r] = "read"
    /\ work[r].profit = Unread
    /\ work' = [work EXCEPT ![r].profit = NetOf(Inputs, month[r])]
    /\ UNCHANGED <<books, pc, month>>

ReadCarry(r) ==
    /\ pc[r] = "read"
    /\ work[r].carried = Unread
    /\ work' = [work EXCEPT ![r].carried = NetOf(Rolled, month[r])]
    /\ UNCHANGED <<books, pc, month>>

CalculateSettlement(r) ==
    /\ pc[r] = "read"
    /\ Unread \notin {work[r].profit, work[r].carried}
    /\ work' = [work EXCEPT ![r] = [details |-> Calculate(work[r].profit, work[r].carried)]]
    /\ Goto(r, "recheck")
    /\ UNCHANGED <<books, month>>

\* writeSettlement's first statement reads the settlement again...
GenerateRecheck(r) ==
    /\ pc[r] = "recheck"
    /\ IF isLocked(month[r]) THEN Finish(r) ELSE Goto(r, "upsert") /\ UNCHANGED work
    /\ UNCHANGED <<books, month>>

\* variant: regenerating takes the settlement back to draft
GenerateResetsStatus(r) ==
    /\ pc[r] = "upsert"
    /\ status' = [status EXCEPT ![month[r]] = "draft"]
    /\ details' = [details EXCEPT ![month[r]] = work[r].details]
    /\ Finish(r)
    /\ UNCHANGED <<lockedAt, monthOf, rows, month>>

\* ...and the rest upserts it, keeping the status of an existing row, and
\* replaces its details.
GenerateWrite(r) ==
    /\ pc[r] = "upsert"
    /\ status' = [status EXCEPT ![month[r]] = IF @ = "none" THEN "draft" ELSE @]
    /\ details' = [details EXCEPT ![month[r]] = work[r].details]
    /\ Finish(r)
    /\ UNCHANGED <<lockedAt, monthOf, rows, month>>

-----------------------------------------------------------------------------
(* confirmSettlement: assertConfirmable on what the transaction read, then *)
(* an update by id.                                                        *)

ConfirmRead(r, m) ==
    /\ status[m] = "draft"
    /\ HasDetails(details[m])
    /\ Begin(r, "confirm", m, "confirm", Unread)
    /\ UNCHANGED books

ConfirmWrite(r) ==
    /\ pc[r] = "confirm"
    /\ status' = [status EXCEPT ![month[r]] = "confirmed"]
    /\ Finish(r)
    /\ UNCHANGED <<lockedAt, details, monthOf, rows, month>>

-----------------------------------------------------------------------------
(* lockSettlement: read and assertLockable, then MonthLockService.lockMonth *)
(* (a read and an upsert), then the roll-forward transaction over the      *)
(* details of the first read.                                              *)

\* variant: the details are not counted before the lock
LockReadAnyDetails(r, m) ==
    /\ status[m] = "confirmed"
    /\ Begin(r, "lock", m, "lockMonth",
             [details |-> details[m], found |-> [e \in Employees |-> Unread]])
    /\ UNCHANGED books

LockRead(r, m) ==
    /\ status[m] = "confirmed"
    /\ HasDetails(details[m])
    /\ Begin(r, "lock", m, "lockMonth",
             [details |-> details[m], found |-> [e \in Employees |-> Unread]])
    /\ UNCHANGED books

\* variant: the roll-forward runs before the month is locked
LockMonthReadRollsFirst(r) ==
    /\ pc[r] = "lockMonth"
    /\ IF isLocked(month[r]) THEN Finish(r) ELSE Goto(r, "roll") /\ UNCHANGED work
    /\ UNCHANGED <<books, month>>

LockMonthRead(r) ==
    /\ pc[r] = "lockMonth"
    /\ IF isLocked(month[r]) THEN Finish(r) ELSE Goto(r, "lock") /\ UNCHANGED work
    /\ UNCHANGED <<books, month>>

LockMonthWrite(r) ==
    /\ pc[r] = "lock"
    /\ status' = [status EXCEPT ![month[r]] = "locked"]
    /\ lockedAt' = [lockedAt EXCEPT ![month[r]] = TRUE]
    /\ Goto(r, "roll")
    /\ UNCHANGED <<details, monthOf, rows, month, work>>

\* The rows a roll-forward of month m to employee e may have left: active, in the
\* next month, with the fixed reason that names m.
RolledTo(m, e) == {i \in Counted(Rolled, nextSettlementMonth(m), e) : i.month = m}

\* findFirst of such a row; Unread stands for an answer still to come, NoRow for none
RollForwardFind(r, e) ==
    /\ pc[r] = "roll"
    /\ e \in Owing(work[r].details)
    /\ work[r].found[e] = Unread
    /\ \E i \in IF RolledTo(month[r], e) = {} THEN {NoRow} ELSE RolledTo(month[r], e) :
        work' = [work EXCEPT ![r].found[e] = i]
    /\ UNCHANGED <<books, pc, month>>

\* The identity under which a new row for employee e is created.
NewRolled(m, e) ==
    {i \in Rolled : i.month = m /\ i.employee = e /\ monthOf[i] = 0}

\* Per employee an update of the amount by id, or a new row.
RollForwardWrite(r) ==
    /\ pc[r] = "roll"
    /\ \A e \in Owing(work[r].details) : work[r].found[e] # Unread
    /\ \E at \in [Owing(work[r].details) -> Rolled] :
        LET m == month[r]
            owing == Owing(work[r].details)
            fresh == {e \in owing : work[r].found[e] = NoRow}
            rowFor(i) == CHOOSE e \in owing : at[e] = i
            written == {at[e] : e \in owing}
            added == {at[e] : e \in fresh}
        IN
        /\ \A e \in owing : at[e] \in IF e \in fresh THEN NewRolled(m, e) ELSE {work[r].found[e]}
        /\ monthOf' = [i \in Ids |-> IF i \in added THEN nextSettlementMonth(m) ELSE monthOf[i]]
        /\ rows' = [i \in Ids |->
                        IF i \in added
                        THEN [employee |-> rowFor(i), net |-> -work[r].details[rowFor(i)],
                              counted |-> TRUE]
                        ELSE IF i \in written
                        THEN [rows[i] EXCEPT !.net = -work[r].details[rowFor(i)]]
                        ELSE rows[i]]
    /\ Finish(r)
    /\ UNCHANGED <<status, lockedAt, details, month>>

-----------------------------------------------------------------------------
\* A request ends early: the process stops, the connection drops, a precheck
\* or an audit write throws.  A transaction that has not committed is undone.
Abort(r) ==
    /\ ~Idle(r)
    /\ Finish(r)
    /\ UNCHANGED <<books, month>>

Start(r, m) ==
    \/ CreateCheck(r, m)
    \/ ImportCheck(r, m)
    \/ GetRow(r, m)
    \/ GenerateStart(r, m)
    \/ ConfirmRead(r, m)
    \/ LockRead(r, m)

Continue(r) ==
    \/ InsertRow(r)
    \/ ImportRow(r)
    \/ CheckMonth(r)
    \/ CheckNextMonth(r)
    \/ UpdateRow(r)
    \/ ReadInputs(r)
    \/ ReadCarry(r)
    \/ CalculateSettlement(r)
    \/ GenerateRecheck(r)
    \/ GenerateWrite(r)
    \/ ConfirmWrite(r)
    \/ LockMonthRead(r)
    \/ LockMonthWrite(r)
    \/ \E e \in Employees : RollForwardFind(r, e)
    \/ RollForwardWrite(r)

Next ==
    \E r \in Requests :
        \/ \E m \in Months : Start(r, m)
        \/ Continue(r)
        \/ Abort(r)

Spec == Init /\ [][Next]_vars

-----------------------------------------------------------------------------
(* Properties.                                                             *)

\* The control state: what the guards of every handler read.
ControlOK ==
    /\ status \in [Months -> Statuses]
    /\ lockedAt \in [Months -> BOOLEAN]
    /\ monthOf \in [Ids -> 0 .. LastMonth + 1]
    /\ pc \in [Requests -> Pcs]
    /\ month \in [Requests -> Months]

\* Type invariant: the tables hold rows of their types and requests are at a
\* step of their handler.
TypeOK ==
    /\ ControlOK
    /\ details \in [Months -> [Employees -> Nat \cup {NoRow}]]
    /\ rows \in [Ids -> Row]

ById(r) == pc[r] \in {"check", "checkNext", "update"}

\* Months whose rows or settlement the rest of the handler of r may still write.
Touches(r) ==
    CASE pc[r] \in {"recheck", "upsert", "confirm", "insert", "import"} -> {month[r]}
      [] ById(r) -> {monthOf[work[r].id], work[r].next}
      [] OTHER -> {}

\* Months whose lock it will look at before it does.
Checks(r) ==
    CASE pc[r] = "recheck" -> {month[r]}
      [] pc[r] = "check" -> {month[r], work[r].next}
      [] pc[r] = "checkNext" -> {work[r].next}
      [] OTHER -> {}

\* A locked month that no request in flight can still write unseen.
Sealed(m) ==
    /\ isLocked(m)
    /\ \A r \in Requests : m \in Touches(r) => m \in Checks(r)

\* The page of a month: its settlement and the input rows that lie in it.
book == [m \in Months |->
            [status |-> status[m], details |-> details[m],
             inputs |-> [i \in Inputs |-> IF monthOf[i] = m THEN rows[i] ELSE NoRow]]]

sealedMonths == {m \in Months : Sealed(m)}

Ledger == INSTANCE MonthLedger WITH sealed <- sealedMonths

\* Locking is final once the requests that overlapped it have ended: a sealed
\* month stays sealed, and its status, its details and the input rows in it never
\* change again (assertWritable 25-45, writeSettlement 290-292, assertConfirmable
\* 307).  It needs imported rows to stay in the month of their external key.
SealedIsFinal == Ledger!Spec

\* A month is locked only while it is confirmed, however its handlers
\* interleave: no regeneration takes a confirmed settlement back to draft
\* under a lock that is on its way (lockSettlement 84, writeSettlement 294-306).
LockedOnlyFromConfirmed ==
    [][\A m \in Months : status'[m] = "locked" => status[m] \in {"confirmed", "locked"}]_vars

\* A loss is rolled out of a month only when the month has been locked: neither
\* generation nor confirmation carries anything (generation 389, lockSettlement
\* 86-91).
CarryOnlyAfterLock == \A i \in Rolled : monthOf[i] # 0 => lockedAt[i.month]

InputsOf(m) == [i \in {j \in Inputs : monthOf[j] = m} |-> rows[i]]

\* The rolled rows of m change only by the roll-forward of the month they were rolled
\* out of: nobody edits or disables one, or moves one into or out of m.
CarryOnlyRolled(m) ==
    \A i \in Rolled :
        /\ m \in {monthOf[i], monthOf'[i]}
        /\ <<monthOf'[i], rows'[i]>> # <<monthOf[i], rows[i]>>
        => \E r \in Requests : pc[r] = "roll" /\ month[r] = i.month /\ pc'[r] = "idle"

\* A locked month stays locked, with the details its lock saw, and everything it was
\* computed from stays as it was: no input row of it is added, changed, moved or
\* removed by any handler that asked for the lock of one month, or of two, before
\* its write.  Only the roll-forward of the month before adds to it.
LockedMonthIsFrozen ==
    [][\A m \in Months : isLocked(m) =>
        /\ status'[m] = "locked"
        /\ details'[m] = details[m]
        /\ InputsOf(m)' = InputsOf(m)
        /\ CarryOnlyRolled(m)]_vars

\* The roll-forward is idempotent by employee, next month and reason: never two
\* active rows for the same employee out of the same month.
CarryUnique ==
    \A m \in Months : \A e \in Employees : Cardinality(RolledTo(m, e)) <= 1

\* What is rolled is what the locked settlement still owes, and all of it: a step
\* that creates rolled rows of a month creates one for each employee with a
\* remaining loss, in the month after, of exactly that amount.
RolledAsLocked ==
    [][\A m \in Months :
        LET new == {i \in Rolled : i.month = m /\ monthOf[i] = 0 /\ monthOf'[i] # 0} IN
        new # {} =>
            /\ isLocked(m)
            /\ {i.employee : i \in new} = Owing(details[m])
            /\ \A i \in new :
                /\ monthOf'[i] = m + 1
                /\ rows'[i] = [employee |-> i.employee, net |-> -details[m][i.employee],
                               counted |-> TRUE]]_vars

\* A locked settlement has at least one detail row.
LockedHasDetails == \A m \in Months : isLocked(m) => HasDetails(details[m])

\* The tables have their types, and what was locked has details.
SettlementInv == TypeOK /\ LockedHasDetails
=============================================================================
