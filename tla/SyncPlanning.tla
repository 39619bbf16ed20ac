----------------------------- MODULE SyncPlanning -----------------------------
(***************************************************************************)
(* The monthly planning of sync tasks: the planner checks every five       *)
(* minutes whether the previous month has been planned and plans it, an    *)
(* administrator may plan a month as well or create a single task, and the *)
(* affiliate accounts, credentials and month locks the plan is made from   *)
(* change meanwhile.                                                       *)
(*                                                                         *)
(* A check is a handler of its own, in any instance of the service: it     *)
(* claims the month, plans it in one transaction and records the outcome.  *)
(* The transaction reads at READ COMMITTED under an advisory lock, so what *)
(* it has read may be stale when it writes.  Time passes in ticks of five  *)
(* minutes.  Names, keys and the texts of credentials are left out.        *)
(***************************************************************************)
EXTENDS Integers, FiniteSets

CONSTANTS
    Accounts,       \* affiliate accounts, of platform everflow or cake
    Providers,      \* card providers: airwallex, photonpay
    Checks,         \* checks of the planner that may overlap
    Administrators, \* requests of administrators that may overlap
    LastMonth,      \* settlement months are 1 .. LastMonth
    Stale,          \* ticks after which a running claim may be taken over
    MaxFaults,      \* bound: failed statements and stopped processes
    MaxEdits,       \* bound: changes of accounts, credentials, locks, single tasks
    None            \* no row, nothing read

ASSUME SyncPlanningAssumption ==
    /\ LastMonth \in Nat \ {0}
    /\ Stale \in Nat \ {0}
    /\ MaxFaults \in Nat
    /\ MaxEdits \in Nat
    /\ Accounts \cap Providers = {}
    /\ Checks \cap Administrators = {}
    /\ None \notin Accounts \cup Providers

Months == 1 .. LastMonth
Subjects == Accounts \cup Providers     \* one task of a month imports one of them
Planners == Checks \cup Administrators
Statuses == {"active", "disabled"}

\* What a planning transaction has read, and a row of sync_planning_runs.
Plan == [month : Months, create : SUBSET Subjects]
Attempt == [status : {"running", "succeeded", "failed"}, age : 0 .. Stale]

\* Where a check is.
Progress == [pc : {"idle", "claimed", "planning", "planned", "failed"},
             month : Months, steady : SUBSET Subjects]

ASSUME NoneIsNoRow == None \notin Plan /\ None \notin Attempt

VARIABLES
    account,        \* affiliate_accounts.status, or None
    credential,     \* status of the credential of an account or a provider, or None
    locked,         \* months whose settlement is locked
    target,         \* the month before the current one
    due,            \* the configured day and hour of this month have come
    run,            \* sync_planning_runs: status, last_attempt_at as its age
    planned,        \* sync_tasks with a planning key: month and subject
    manual,         \* sync_tasks without one
    tx,             \* the planning transaction of a planner: what it has read
    check,          \* where a check is, and since when each subject is ready
    request,        \* the task an administrator has been allowed to create
    faults, edits   \* how many there have been

baseData == <<account, credential, locked>>
clock == <<target, due>>
tasks == <<planned, manual>>
bounds == <<faults, edits>>
vars == <<baseData, clock, run, tasks, tx, check, request, bounds>>

Idle == [pc |-> "idle", month |-> 1, steady |-> {}]

Init ==
    /\ account \in [Accounts -> {None, "active"}]
    /\ credential \in [Subjects -> {None, "active"}]
    /\ \A a \in Accounts : account[a] = None => credential[a] = None
    /\ locked = {}
    /\ target = 1
    /\ due = FALSE
    /\ run = [m \in Months |-> None]
    /\ planned = {}
    /\ manual = {}
    /\ tx = [p \in Planners |-> None]
    /\ check = [k \in Checks |-> Idle]
    /\ request = [d \in Administrators |-> None]
    /\ faults = 0
    /\ edits = 0

-----------------------------------------------------------------------------
(* What a plan is made from.                                               *)

\* A disabled account is no candidate; every provider is one.
Candidates == {a \in Accounts : account[a] = "active"} \cup Providers

CredentialConfigured(s) == credential[s] = "active"

Tasked(m) == {s \in Subjects : <<m, s>> \in planned \cup manual}

\* variant: tasks of every month count as existing
ExistingInAnyMonth(m) == Candidates \cap UNION {Tasked(n) : n \in Months}

\* Any task of the month counts, whoever created it and whatever became of it.
Existing(m) == Candidates \cap Tasked(m)

Creatable(m) ==
    {s \in Candidates \ Existing(m) : m \notin locked /\ CredentialConfigured(s)}

Ready(m) == {s \in Candidates : m \notin locked /\ CredentialConfigured(s)}

-----------------------------------------------------------------------------
(* Planning a month, in one transaction.                                   *)

AdvisoryLockFree(m) == \A p \in Planners : tx[p] # None => tx[p].month # m

Read(p, m) ==
    /\ tx' = [tx EXCEPT ![p] = [month |-> m, create |-> Creatable(m)]]
    /\ UNCHANGED <<baseData, clock, run, tasks, request, bounds>>

\* A request for a locked month is refused, and leaves an audit entry; a planner
\* goes on and finds every candidate blocked.
Begin(p, m) ==
    /\ tx[p] = None
    /\ AdvisoryLockFree(m)
    /\ p \in Administrators => m \notin locked
    /\ Read(p, m)

Keys(t) == {<<t.month, s>> : s \in t.create}

Commit(p) ==
    /\ tx[p] # None
    /\ Keys(tx[p]) \cap planned = {}        \* planning_key is unique
    /\ planned' = planned \cup Keys(tx[p])
    /\ tx' = [tx EXCEPT ![p] = None]
    /\ UNCHANGED <<baseData, clock, run, manual, request, bounds>>

Fault == faults < MaxFaults /\ faults' = faults + 1

\* A statement fails, or two tasks would have the same planning key.
Rollback(p) ==
    /\ tx[p] # None
    /\ IF Keys(tx[p]) \cap planned # {} THEN UNCHANGED faults ELSE Fault
    /\ tx' = [tx EXCEPT ![p] = None]
    /\ UNCHANGED <<baseData, clock, run, tasks, request, edits>>

-----------------------------------------------------------------------------
(* The planner.                                                            *)

\* variant: a claim is never taken over
ClaimableOnce(r) == r # None => r.status = "failed"

\* A succeeded month is left alone, and so is a running one for ten minutes.
Claimable(r) ==
    r # None =>
        /\ r.status # "succeeded"
        /\ r.status = "running" => r.age = Stale

To(k, pc) == check' = [check EXCEPT ![k].pc = pc]

\* check begins on the timer, or when the service starts.
claim(k) ==
    /\ check[k].pc = "idle"
    /\ due
    /\ Claimable(run[target])
    /\ run' = [run EXCEPT ![target] = [status |-> "running", age |-> 0]]
    /\ check' = [check EXCEPT ![k] =
                    [pc |-> "claimed", month |-> target, steady |-> Ready(target)]]
    /\ UNCHANGED <<baseData, clock, tasks, tx, request, bounds>>

BeginScheduled(k) ==
    /\ check[k].pc = "claimed"
    /\ Begin(k, check[k].month)
    /\ To(k, "planning")

CommitScheduled(k) ==
    /\ check[k].pc = "planning"
    /\ Commit(k)
    /\ To(k, "planned")

RollbackScheduled(k) ==
    /\ check[k].pc = "planning"
    /\ Rollback(k)
    /\ To(k, "failed")

Record(k, status) ==
    /\ run' = [run EXCEPT ![check[k].month].status = status]
    /\ check' = [check EXCEPT ![k] = Idle]
    /\ UNCHANGED <<baseData, clock, tasks, tx, request, bounds>>

RecordSuccess(k) == check[k].pc = "planned" /\ Record(k, "succeeded")

\* When the success cannot be recorded, the check records a failure instead.
RecordingFails(k) ==
    /\ check[k].pc = "planned"
    /\ Fault
    /\ To(k, "failed")
    /\ UNCHANGED <<baseData, clock, run, tasks, tx, request, edits>>

RecordFailure(k) == check[k].pc = "failed" /\ Record(k, "failed")

\* The process stops, or a failure cannot be recorded either.
Stop(k) ==
    /\ check[k].pc # "idle"
    /\ Fault
    /\ check' = [check EXCEPT ![k] = Idle]
    /\ tx' = [tx EXCEPT ![k] = None]
    /\ UNCHANGED <<baseData, clock, run, tasks, request, edits>>

Check(k) ==
    \/ claim(k)
    \/ BeginScheduled(k)
    \/ CommitScheduled(k)
    \/ RollbackScheduled(k)
    \/ RecordSuccess(k)
    \/ RecordingFails(k)
    \/ RecordFailure(k)
    \/ Stop(k)

-----------------------------------------------------------------------------
(* Administrators.                                                         *)

Edit == edits < MaxEdits /\ edits' = edits + 1

Generate(d) ==
    \/ \E m \in Months : request[d] = None /\ Begin(d, m) /\ UNCHANGED check
    \/ Commit(d) /\ UNCHANGED check
    \/ Rollback(d) /\ UNCHANGED check

\* A single task needs an account, not an active one, and an unlocked month.
AllowCreate(d) ==
    \E s \in Subjects, m \in Months \ locked :
        /\ tx[d] = None
        /\ request[d] = None
        /\ s \in Accounts => account[s] # None
        /\ Edit
        /\ request' = [request EXCEPT ![d] = [month |-> m, subject |-> s]]
        /\ UNCHANGED <<baseData, clock, run, tasks, tx, check, faults>>

Create(d) ==
    /\ request[d] # None
    /\ manual' = manual \cup {<<request[d].month, request[d].subject>>}
    /\ request' = [request EXCEPT ![d] = None]
    /\ UNCHANGED <<baseData, clock, run, planned, tx, check, bounds>>

\* A subject that is changed has not been ready ever since.
Interrupt(s) ==
    check' = [k \in Checks |-> [check[k] EXCEPT !.steady = @ \ {s}]]

SetAccount(a, status) ==
    /\ Edit
    /\ account' = [account EXCEPT ![a] = status]
    /\ Interrupt(a)
    /\ UNCHANGED <<credential, locked, clock, run, tasks, tx, request, faults>>

createAccount(a) == account[a] = None /\ SetAccount(a, "active")

updateAccount(a) == account[a] # None /\ SetAccount(a, "active")

disableAccount(a) == account[a] \notin {None, "disabled"} /\ SetAccount(a, "disabled")

SetCredential(s, status) ==
    /\ Edit
    /\ credential' = [credential EXCEPT ![s] = status]
    /\ IF status = "active" THEN UNCHANGED check ELSE Interrupt(s)
    /\ UNCHANGED <<account, locked, clock, run, tasks, tx, request, faults>>

\* The credential of a disabled account may be entered as well.
upsertAffiliateAccount(a) == account[a] # None /\ SetCredential(a, "active")

disableAffiliateAccount(a) == credential[a] # None /\ SetCredential(a, "disabled")

upsertCardProvider(p) == SetCredential(p, "active")

disableCardProvider(p) == credential[p] # None /\ SetCredential(p, "disabled")

LockMonth(m) ==
    /\ m \notin locked
    /\ Edit
    /\ locked' = locked \cup {m}
    /\ check' = [k \in Checks |-> IF check[k].month = m
                                  THEN [check[k] EXCEPT !.steady = {}] ELSE check[k]]
    /\ UNCHANGED <<account, credential, clock, run, tasks, tx, request, faults>>

Account(a) ==
    \/ createAccount(a)
    \/ updateAccount(a)
    \/ disableAccount(a)
    \/ upsertAffiliateAccount(a)
    \/ disableAffiliateAccount(a)

Administrator(d) == Generate(d) \/ AllowCreate(d) \/ Create(d)

-----------------------------------------------------------------------------
(* Time.                                                                   *)

Age(r) ==
    IF r = None \/ r.age = Stale THEN r ELSE [r EXCEPT !.age = @ + 1]

Tick ==
    /\ \E m \in Months : run[m] # None /\ run[m].age < Stale
    /\ run' = [m \in Months |-> Age(run[m])]
    /\ UNCHANGED <<baseData, clock, tasks, tx, check, request, bounds>>

DayComes ==
    /\ ~due
    /\ due' = TRUE
    /\ UNCHANGED <<baseData, target, run, tasks, tx, check, request, bounds>>

MonthTurns ==
    /\ target < LastMonth
    /\ target' = target + 1
    /\ due' = FALSE
    /\ UNCHANGED <<baseData, run, tasks, tx, check, request, bounds>>

Next ==
    \/ \E k \in Checks : Check(k)
    \/ \E d \in Administrators : Administrator(d)
    \/ \E a \in Accounts : Account(a)
    \/ \E p \in Providers : upsertCardProvider(p) \/ disableCardProvider(p)
    \/ \E m \in Months : LockMonth(m)
    \/ Tick
    \/ DayComes
    \/ MonthTurns

\* The timer of a running service fires again and again, time passes, the
\* statements of a check and of a planning transaction return, and the advisory
\* lock of a month is handed to those who wait for it in turn.
Fairness ==
    /\ WF_vars(DayComes)
    /\ WF_vars(Tick)
    /\ \A k \in Checks : WF_vars(Check(k)) /\ SF_vars(BeginScheduled(k))
    /\ \A d \in Administrators : WF_vars(Commit(d) /\ UNCHANGED check)

Spec == Init /\ [][Next]_vars /\ Fairness

-----------------------------------------------------------------------------
(* Properties.                                                             *)

\* Type invariant.
TypeOK ==
    /\ account \in [Accounts -> Statuses \cup {None}]
    /\ credential \in [Subjects -> Statuses \cup {None}]
    /\ locked \subseteq Months
    /\ target \in Months
    /\ due \in BOOLEAN
    /\ run \in [Months -> Attempt \cup {None}]
    /\ planned \subseteq Months \X Subjects
    /\ manual \subseteq Months \X Subjects
    /\ tx \in [Planners -> Plan \cup {None}]
    /\ check \in [Checks -> Progress]
    /\ request \in [Administrators -> [month : Months, subject : Subjects] \cup {None}]
    /\ faults \in 0 .. MaxFaults
    /\ edits \in 0 .. MaxEdits

\* However planners and administrators overlap, none is about to create a task
\* whose planning key another has used: planning a month twice never fails.
PlansNeverCollide ==
    \A p \in Planners : tx[p] # None => Keys(tx[p]) \cap planned = {}

\* When a check has planned its month, every account and provider that was active,
\* with an active credential, from its claim until now has a task of that month.
PlannedMonthIsCovered ==
    \A k \in Checks :
        check[k].pc = "planned" => check[k].steady \subseteq Tasked(check[k].month)

\* Checks may fail, stop and overtake each other: the month that stays the one to
\* plan ends up recorded as planned, and no late check undoes that for good.
MonthGetsPlanned ==
    \A m \in Months :
        <>[](target = m) => <>[](run[m] # None /\ run[m].status = "succeeded")

\* Planners of one month agree, and what they call planned is.
PlanningInv == TypeOK /\ PlansNeverCollide /\ PlannedMonthIsCovered
=============================================================================
