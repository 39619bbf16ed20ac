-------------------------- MODULE SyncPlanningProofs --------------------------
(***************************************************************************)
(* What the advisory lock, the planning keys and the claims of the planner *)
(* guarantee for any number of accounts, months, checks and administrators.*)
(***************************************************************************)
EXTENDS SyncPlanning, TLAPS

\* The advisory lock of a month has one holder.
OnePlanOfAMonth ==
    \A p, q \in Planners : (tx[p] # None /\ tx[q] # None /\ tx[p].month = tx[q].month) => p = q

\* What a check may rely on at each of its steps: the row of its claim is not deleted;
\* what has been ready since the claim still is, until the check reads it, is then in
\* the plan or has a task already, and has a task when the plan is committed.
CheckInv(k) ==
    LET m == check[k].month IN
    /\ check[k].pc # "idle" => run[m] # None
    /\ check[k].pc = "claimed" => check[k].steady \subseteq Ready(m)
    /\ check[k].pc = "planning" =>
          /\ tx[k] # None /\ tx[k].month = m
          /\ check[k].steady \subseteq tx[k].create \cup Tasked(m)
    /\ check[k].pc = "planned" => check[k].steady \subseteq Tasked(m)

IInv ==
    /\ TypeOK
    /\ OnePlanOfAMonth
    /\ PlansNeverCollide
    /\ \A k \in Checks : CheckInv(k)

----------------------------------------------------------------------------
(* Plans. *)

\* What the plan of a transaction is: a month and the subjects to create tasks for.
LEMMA PlanTypes ==
  ASSUME TypeOK, NEW p \in Planners, tx[p] # None
  PROVE  /\ tx[p].month \in Months /\ tx[p].create \subseteq Subjects
         /\ Keys(tx[p]) \subseteq Months \X Subjects
         /\ \A k \in Keys(tx[p]) : k[1] = tx[p].month
<1>1. tx[p] \in Plan
  BY DEF TypeOK
<1>2. tx[p].month \in Months /\ tx[p].create \subseteq Subjects
  BY <1>1 DEF Plan
<1> QED
  BY <1>2 DEF Keys

\* Plans of a month that only end stay alone and disjoint from what is planned.
LEMMA PlansKept ==
  ASSUME IInv, UNCHANGED planned, \A p \in Planners : tx'[p] \in {tx[p], None}
  PROVE  OnePlanOfAMonth' /\ PlansNeverCollide'
<1>1. OnePlanOfAMonth'
  BY DEF IInv, OnePlanOfAMonth
<1>2. PlansNeverCollide'
  BY DEF IInv, PlansNeverCollide, Keys
<1> QED
  BY <1>1, <1>2

\* Whoever gets the advisory lock reads a plan of new tasks.
LEMMA BeginPlan ==
  ASSUME IInv, NEW p \in Planners, NEW m \in Months, Begin(p, m)
  PROVE  /\ tx' \in [Planners -> Plan \cup {None}]
         /\ tx'[p] = [month |-> m, create |-> Creatable(m)] /\ tx'[p] # None
         /\ \A q \in Planners \ {p} : tx'[q] = tx[q]
         /\ OnePlanOfAMonth' /\ PlansNeverCollide'
<1> DEFINE new == [month |-> m, create |-> Creatable(m)]
<1>1. new \in Plan /\ new.month = m /\ new.create = Creatable(m)
  BY DEF Plan, Creatable, Candidates, Subjects
<1>2. tx' = [tx EXCEPT ![p] = new] /\ UNCHANGED planned
  BY DEF Begin, Read, tasks
<1>3. \A q \in Planners : tx[q] # None => tx[q].month # m
  BY DEF Begin, AdvisoryLockFree
<1>4. new # None
  BY <1>1, NoneIsNoRow
<1>5. /\ tx' \in [Planners -> Plan \cup {None}] /\ tx'[p] = new
      /\ \A q \in Planners \ {p} : tx'[q] = tx[q]
  BY <1>1, <1>2 DEF IInv, TypeOK
<1>6. OnePlanOfAMonth'
  BY <1>1, <1>3, <1>5 DEF IInv, OnePlanOfAMonth
<1>7. Keys(new) \cap planned = {}
  <2> SUFFICES ASSUME NEW s \in Creatable(m), <<m, s>> \in planned PROVE FALSE
    BY <1>1 DEF Keys
  <2>1. s \in Subjects /\ s \in Candidates /\ s \notin Existing(m)
    BY DEF Creatable, Candidates, Subjects
  <2> QED
    BY <2>1 DEF Existing, Tasked
<1>8. PlansNeverCollide'
  <2> SUFFICES ASSUME NEW q \in Planners, tx'[q] # None PROVE Keys(tx'[q]) \cap planned = {}
    BY <1>2 DEF PlansNeverCollide, Keys
  <2> QED
    BY <1>5, <1>7 DEF IInv, PlansNeverCollide
<1> HIDE DEF new
<1> QED
  BY <1>4, <1>5, <1>6, <1>8 DEF new

\* A plan that commits uses keys of its own month only.
LEMMA CommitPlan ==
  ASSUME IInv, NEW p \in Planners, Commit(p)
  PROVE  /\ tx' \in [Planners -> Plan \cup {None}]
         /\ \A q \in Planners : tx'[q] \in {tx[q], None}
         /\ \A q \in Planners \ {p} : tx'[q] = tx[q]
         /\ planned' \subseteq Months \X Subjects
         /\ OnePlanOfAMonth' /\ PlansNeverCollide'
<1>1. tx' = [tx EXCEPT ![p] = None] /\ planned' = planned \cup Keys(tx[p]) /\ tx[p] # None
  BY DEF Commit
<1>2. /\ tx' \in [Planners -> Plan \cup {None}] /\ tx'[p] = None
      /\ \A q \in Planners \ {p} : tx'[q] = tx[q]
  BY <1>1 DEF IInv, TypeOK
<1>3. planned' \subseteq Months \X Subjects
  BY <1>1, PlanTypes DEF IInv, TypeOK
<1>4. OnePlanOfAMonth'
  BY <1>2 DEF IInv, OnePlanOfAMonth
<1>5. PlansNeverCollide'
  <2> SUFFICES ASSUME NEW q \in Planners, tx'[q] # None PROVE Keys(tx'[q]) \cap planned' = {}
    BY DEF PlansNeverCollide, Keys
  <2>1. q # p /\ tx'[q] = tx[q] /\ tx[q] # None
    BY <1>2
  <2>2. tx[q].month # tx[p].month
    BY <1>1, <2>1 DEF IInv, OnePlanOfAMonth
  <2>3. Keys(tx[q]) \cap Keys(tx[p]) = {}
    BY <1>1, <2>1, <2>2, PlanTypes DEF IInv
  <2> QED
    BY <1>1, <2>1, <2>3 DEF IInv, PlansNeverCollide
<1> QED
  BY <1>2, <1>3, <1>4, <1>5

----------------------------------------------------------------------------
(* Checks. *)

\* Nothing is said of an idle check.
LEMMA IdleCheck == Idle \in Progress /\ Idle.pc = "idle"
  BY SyncPlanningAssumption DEF Idle, Months, Progress

\* What has a task keeps it.
LEMMA TaskedGrows ==
  ASSUME NEW m \in Months, planned \subseteq planned', manual \subseteq manual'
  PROVE  Tasked(m) \subseteq Tasked(m)'
  BY DEF Tasked

\* A check keeps what is said of it while it stays where it is, its plan and its claim
\* are not touched, and what it has found ready does not stop being so unnoticed.
LEMMA CheckKept ==
  ASSUME IInv, NEW k \in Checks,
         check'[k].pc = check[k].pc, check'[k].month = check[k].month,
         check'[k].steady \subseteq check[k].steady,
         tx'[k] = tx[k], planned \subseteq planned', manual \subseteq manual',
         \A m \in Months : run[m] # None => run'[m] # None,
         \A m \in Months : (m = check[k].month /\ check[k].pc = "claimed") =>
             check'[k].steady \cap Ready(m) \subseteq Ready(m)'
  PROVE  CheckInv(k)'
<1> DEFINE m == check[k].month
<1>1. m \in Months /\ CheckInv(k)
  BY DEF IInv, TypeOK, Progress
<1>2. Tasked(m) \subseteq Tasked(m)'
  BY DEF Tasked
<1>3. check'[k].pc # "idle" => run'[m] # None
  BY <1>1 DEF CheckInv
<1>4. check'[k].pc = "claimed" => check'[k].steady \subseteq Ready(m)'
  BY <1>1 DEF CheckInv
<1>5. check'[k].pc = "planning" =>
        /\ tx'[k] # None /\ tx'[k].month = m
        /\ check'[k].steady \subseteq tx'[k].create \cup Tasked(m)'
  BY <1>1, <1>2 DEF CheckInv
<1>6. check'[k].pc = "planned" => check'[k].steady \subseteq Tasked(m)'
  BY <1>1, <1>2 DEF CheckInv
<1> QED
  BY <1>3, <1>4, <1>5, <1>6 DEF CheckInv

\* A step that leaves base data alone, and every check but one, keeps what is said of
\* the others.
LEMMA OthersKept ==
  ASSUME IInv, NEW k \in Checks, CheckInv(k)', UNCHANGED baseData,
         \A j \in Checks \ {k} : check'[j] = check[j] /\ tx'[j] = tx[j],
         planned \subseteq planned', manual \subseteq manual',
         \A m \in Months : run[m] # None => run'[m] # None
  PROVE  \A j \in Checks : CheckInv(j)'
<1>1. \A m \in Months : Ready(m)' = Ready(m)
  BY DEF baseData, Ready, Candidates, CredentialConfigured
<1>2. ASSUME NEW j \in Checks \ {k} PROVE CheckInv(j)'
  BY <1>1, CheckKept
<1> QED
  BY <1>2

\* Nothing that is said of checks is touched by a step that leaves them, base data and
\* their plans alone.
LEMMA AllKept ==
  ASSUME IInv, UNCHANGED <<baseData, check>>, \A k \in Checks : tx'[k] = tx[k],
         planned \subseteq planned', manual \subseteq manual',
         \A m \in Months : run[m] # None => run'[m] # None
  PROVE  \A k \in Checks : CheckInv(k)'
<1>1. \A m \in Months : Ready(m)' = Ready(m)
  BY DEF baseData, Ready, Candidates, CredentialConfigured
<1>2. ASSUME NEW k \in Checks PROVE CheckInv(k)'
  BY <1>1, CheckKept
<1> QED
  BY <1>2

----------------------------------------------------------------------------
(* Steps. *)

\* A month that nobody has planned satisfies the invariant.
LEMMA InitIInv == Init => IInv
<1> SUFFICES ASSUME Init PROVE IInv
  OBVIOUS
<1> USE SyncPlanningAssumption DEF Init
<1>1. TypeOK
  <2>1. check \in [Checks -> Progress]
    BY IdleCheck
  <2>2. /\ account \in [Accounts -> Statuses \cup {None}]
        /\ credential \in [Subjects -> Statuses \cup {None}]
    BY DEF Statuses
  <2>3. target \in Months /\ faults \in 0 .. MaxFaults /\ edits \in 0 .. MaxEdits
    BY DEF Months
  <2>5. locked \subseteq Months /\ due \in BOOLEAN
    OBVIOUS
  <2>4. /\ run \in [Months -> Attempt \cup {None}]
        /\ planned \subseteq Months \X Subjects /\ manual \subseteq Months \X Subjects
        /\ tx \in [Planners -> Plan \cup {None}]
        /\ request \in [Administrators -> [month : Months, subject : Subjects] \cup {None}]
    OBVIOUS
  <2> HIDE DEF Init
  <2> QED
    BY <2>1, <2>2, <2>3, <2>4, <2>5 DEF TypeOK
<1>2. OnePlanOfAMonth /\ PlansNeverCollide
  BY DEF OnePlanOfAMonth, PlansNeverCollide
<1>3. \A k \in Checks : CheckInv(k)
  BY DEF CheckInv, Idle
<1> QED
  BY <1>1, <1>2, <1>3 DEF IInv

\* An administrator plans a month.
LEMMA GenerateStep ==
  ASSUME IInv, NEW d \in Administrators, Generate(d)
  PROVE  IInv'
<1>0. d \in Planners /\ TypeOK /\ \A k \in Checks : k \in Planners /\ k # d
  BY SyncPlanningAssumption DEF Planners, IInv
<1>1. ASSUME NEW m \in Months, Begin(d, m), UNCHANGED check PROVE IInv'
  <2>1. /\ UNCHANGED <<baseData, clock, run, tasks, request, bounds>>
        /\ tx' \in [Planners -> Plan \cup {None}]
        /\ \A k \in Checks : tx'[k] = tx[k]
        /\ OnePlanOfAMonth' /\ PlansNeverCollide'
    BY <1>0, <1>1, BeginPlan DEF Begin, Read
  <2>2. TypeOK'
    BY <1>0, <1>1, <2>1 DEF TypeOK, baseData, clock, tasks, bounds
  <2>3. \A k \in Checks : CheckInv(k)'
    BY <1>1, <2>1, AllKept DEF tasks
  <2> QED
    BY <2>1, <2>2, <2>3 DEF IInv
<1>2. ASSUME Commit(d), UNCHANGED check PROVE IInv'
  <2>1. /\ UNCHANGED <<baseData, clock, run, manual, request, bounds>>
        /\ planned \subseteq planned' /\ planned' \subseteq Months \X Subjects
        /\ tx' \in [Planners -> Plan \cup {None}]
        /\ \A k \in Checks : tx'[k] = tx[k]
        /\ OnePlanOfAMonth' /\ PlansNeverCollide'
    BY <1>0, <1>2, CommitPlan DEF Commit
  <2>2. TypeOK'
    BY <1>0, <1>2, <2>1 DEF TypeOK, baseData, clock, bounds
  <2>3. \A k \in Checks : CheckInv(k)'
    BY <1>2, <2>1, AllKept
  <2> QED
    BY <2>1, <2>2, <2>3 DEF IInv
<1>3. ASSUME Rollback(d), UNCHANGED check PROVE IInv'
  <2>1. /\ UNCHANGED <<baseData, clock, run, tasks, request, edits>>
        /\ tx' = [tx EXCEPT ![d] = None]
    BY <1>3 DEF Rollback
  <2>2. /\ tx' \in [Planners -> Plan \cup {None}]
        /\ \A q \in Planners : tx'[q] \in {tx[q], None}
        /\ \A k \in Checks : tx'[k] = tx[k]
    BY <1>0, <2>1 DEF TypeOK
  <2>3. faults' \in 0 .. MaxFaults
    BY <1>0, <1>3, SyncPlanningAssumption DEF Rollback, Fault, TypeOK
  <2>4. TypeOK'
    BY <1>0, <1>3, <2>1, <2>2, <2>3 DEF TypeOK, baseData, clock, tasks
  <2>5. OnePlanOfAMonth' /\ PlansNeverCollide'
    BY <2>1, <2>2, PlansKept DEF tasks
  <2>6. \A k \in Checks : CheckInv(k)'
    BY <1>3, <2>1, <2>2, AllKept DEF tasks
  <2> QED
    BY <2>4, <2>5, <2>6 DEF IInv
<1> QED
  BY <1>1, <1>2, <1>3 DEF Generate

\* An administrator creates a single task.
LEMMA CreateStep ==
  ASSUME IInv, NEW d \in Administrators, AllowCreate(d) \/ Create(d)
  PROVE  IInv'
<1>0. TypeOK
  BY DEF IInv
<1>1. /\ UNCHANGED <<baseData, clock, run, planned, tx, check, faults>>
      /\ manual \subseteq manual'
  BY DEF AllowCreate, Create, tasks, bounds
<1>2. CASE AllowCreate(d)
  <2>1. PICK s \in Subjects, m \in Months :
          /\ Edit /\ UNCHANGED manual
          /\ request' = [request EXCEPT ![d] = [month |-> m, subject |-> s]]
    BY <1>2 DEF AllowCreate, tasks
  <2>2. /\ request' \in [Administrators -> [month : Months, subject : Subjects] \cup {None}]
        /\ edits' \in 0 .. MaxEdits
    BY <1>0, <2>1, SyncPlanningAssumption DEF TypeOK, Edit
  <2> QED
    BY <1>0, <1>1, <2>1, <2>2, AllKept, PlansKept DEF IInv, TypeOK, baseData, clock
<1>3. CASE Create(d)
  <2>1. request[d] \in [month : Months, subject : Subjects]
    BY <1>0, <1>3 DEF Create, TypeOK
  <2>2. /\ request' \in [Administrators -> [month : Months, subject : Subjects] \cup {None}]
        /\ manual' \subseteq Months \X Subjects
        /\ edits' = edits
    BY <1>0, <1>3, <2>1 DEF Create, TypeOK, bounds
  <2> QED
    BY <1>0, <1>1, <2>2, AllKept, PlansKept DEF IInv, TypeOK, baseData, clock
<1> QED
  BY <1>2, <1>3

\* What a check writes of itself, at the step it is at.
LEMMA ToNext ==
  ASSUME TypeOK, NEW k \in Checks,
         NEW pc \in {"idle", "claimed", "planning", "planned", "failed"}, To(k, pc)
  PROVE  /\ check' \in [Checks -> Progress]
         /\ check'[k].pc = pc /\ check'[k].month = check[k].month
         /\ check'[k].steady = check[k].steady
         /\ \A j \in Checks \ {k} : check'[j] = check[j]
<1>1. check[k] \in Progress
  BY DEF TypeOK
<1>2. check' = [check EXCEPT ![k] = [check[k] EXCEPT !.pc = pc]]
  BY DEF To
<1> QED
  BY <1>1, <1>2 DEF TypeOK, Progress

\* A check claims its month.
LEMMA ClaimStep ==
  ASSUME IInv, NEW k \in Checks, claim(k)
  PROVE  IInv'
<1> DEFINE new == [pc |-> "claimed", month |-> target, steady |-> Ready(target)]
           row == [status |-> "running", age |-> 0]
<1>0. TypeOK /\ target \in Months
  BY DEF IInv, TypeOK
<1>1. /\ UNCHANGED <<baseData, clock, tasks, tx, request, bounds>>
      /\ run' = [run EXCEPT ![target] = row] /\ check' = [check EXCEPT ![k] = new]
  BY DEF claim
<1>2. row \in Attempt /\ row # None
  <2>1. row \in Attempt
    BY SyncPlanningAssumption DEF Attempt
  <2> QED
    BY <2>1, NoneIsNoRow
<1>3. new \in Progress
  BY <1>0 DEF Ready, Candidates, Subjects, Progress
<1>4. TypeOK'
  BY <1>0, <1>1, <1>2, <1>3 DEF TypeOK, baseData, clock, tasks, bounds
<1>5. \A m \in Months : run[m] # None => run'[m] # None
  BY <1>0, <1>1, <1>2 DEF TypeOK
<1>6. CheckInv(k)'
  <2>1. check'[k] = new /\ run'[target] = row
    BY <1>0, <1>1 DEF TypeOK
  <2>2. Ready(target)' = Ready(target)
    BY <1>1 DEF clock, baseData, Ready, Candidates, CredentialConfigured
  <2> QED
    BY <1>1, <1>2, <2>1, <2>2 DEF CheckInv, clock
<1>7. \A j \in Checks : CheckInv(j)'
  BY <1>0, <1>1, <1>5, <1>6, OthersKept DEF TypeOK, tasks
<1>8. OnePlanOfAMonth' /\ PlansNeverCollide'
  BY <1>1, PlansKept DEF tasks
<1> QED
  BY <1>4, <1>7, <1>8 DEF IInv

\* A check reads its plan: what has been ready since the claim is in it.
LEMMA BeginScheduledStep ==
  ASSUME IInv, NEW k \in Checks, BeginScheduled(k)
  PROVE  IInv'
<1> DEFINE m == check[k].month
<1>0. TypeOK /\ k \in Planners /\ m \in Months /\ check[k].pc = "claimed" /\ Begin(k, m)
  BY DEF BeginScheduled, IInv, TypeOK, Planners, Progress
<1>1. UNCHANGED <<baseData, clock, run, tasks, request, bounds>>
  BY <1>0 DEF Begin, Read
<1>2. /\ tx' \in [Planners -> Plan \cup {None}]
      /\ tx'[k] = [month |-> m, create |-> Creatable(m)] /\ tx'[k] # None
      /\ \A q \in Planners \ {k} : tx'[q] = tx[q]
      /\ OnePlanOfAMonth' /\ PlansNeverCollide'
  BY <1>0, BeginPlan
<1>3. /\ check' \in [Checks -> Progress]
      /\ check'[k].pc = "planning" /\ check'[k].month = m /\ check'[k].steady = check[k].steady
      /\ \A j \in Checks \ {k} : check'[j] = check[j]
  BY <1>0, ToNext DEF BeginScheduled
<1>4. TypeOK'
  BY <1>0, <1>1, <1>2, <1>3 DEF TypeOK, baseData, clock, tasks, bounds
<1>5. check[k].steady \subseteq Creatable(m) \cup Tasked(m)
  <2>1. check[k].steady \subseteq Ready(m)
    BY <1>0 DEF IInv, CheckInv
  <2> QED
    BY <2>1 DEF Ready, Creatable, Existing
<1>6. Tasked(m)' = Tasked(m)
  BY <1>1, <1>3 DEF tasks, Tasked
<1>7. run[m] # None
  BY <1>0 DEF IInv, CheckInv
<1>8. CheckInv(k)'
  BY <1>1, <1>2, <1>3, <1>5, <1>6, <1>7 DEF CheckInv
<1>9. \A j \in Checks : CheckInv(j)'
  BY <1>1, <1>2, <1>3, <1>8, OthersKept DEF tasks, Planners
<1> QED
  BY <1>2, <1>4, <1>9 DEF IInv

\* A check commits its plan: what has been ready since the claim has a task.
LEMMA CommitScheduledStep ==
  ASSUME IInv, NEW k \in Checks, CommitScheduled(k)
  PROVE  IInv'
<1> DEFINE m == check[k].month
<1>0. /\ TypeOK /\ k \in Planners /\ m \in Months /\ check[k].pc = "planning"
      /\ Commit(k) /\ tx[k] # None
  BY DEF CommitScheduled, Commit, IInv, TypeOK, Planners, Progress
<1>1. /\ UNCHANGED <<baseData, clock, run, manual, request, bounds>>
      /\ planned' = planned \cup Keys(tx[k])
  BY <1>0 DEF Commit
<1>2. /\ tx' \in [Planners -> Plan \cup {None}]
      /\ \A q \in Planners \ {k} : tx'[q] = tx[q]
      /\ planned' \subseteq Months \X Subjects
      /\ OnePlanOfAMonth' /\ PlansNeverCollide'
  BY <1>0, CommitPlan
<1>3. /\ check' \in [Checks -> Progress]
      /\ check'[k].pc = "planned" /\ check'[k].month = m /\ check'[k].steady = check[k].steady
      /\ \A j \in Checks \ {k} : check'[j] = check[j]
  BY <1>0, ToNext DEF CommitScheduled
<1>4. TypeOK'
  BY <1>0, <1>1, <1>2, <1>3 DEF TypeOK, baseData, clock, bounds
<1>5. check[k].steady \subseteq Tasked(m)'
  <2>1. tx[k].month = m /\ check[k].steady \subseteq tx[k].create \cup Tasked(m)
    BY <1>0 DEF IInv, CheckInv
  <2>2. tx[k].create \subseteq Subjects
    BY <1>0, PlanTypes
  <2>3. \A s \in tx[k].create : s \in Tasked(m)'
    BY <1>1, <1>3, <2>1, <2>2 DEF Keys, Tasked
  <2>4. Tasked(m) \subseteq Tasked(m)'
    BY <1>1, <1>3 DEF Tasked
  <2> QED
    BY <2>1, <2>3, <2>4
<1>6. CheckInv(k)'
  BY <1>0, <1>1, <1>3, <1>5 DEF CheckInv, IInv
<1>7. \A j \in Checks : CheckInv(j)'
  BY <1>1, <1>2, <1>3, <1>6, OthersKept DEF Planners
<1> QED
  BY <1>2, <1>4, <1>7 DEF IInv

\* A check that stops writing: it fails, or starts over, with its plan gone or none.
LEMMA EndedCheck ==
  ASSUME IInv, TypeOK', NEW k \in Checks, check'[k].pc \in {"idle", "failed"},
         check'[k].pc # "idle" => check'[k].month = check[k].month /\ check[k].pc # "idle",
         \A j \in Checks \ {k} : check'[j] = check[j],
         \A q \in Planners : tx'[q] \in {tx[q], None},
         \A q \in Planners \ {k} : tx'[q] = tx[q],
         UNCHANGED <<baseData, tasks>>, \A m \in Months : run[m] # None => run'[m] # None
  PROVE  IInv'
<1>1. OnePlanOfAMonth' /\ PlansNeverCollide'
  BY PlansKept DEF tasks
<1>2. CheckInv(k)'
  BY DEF IInv, CheckInv, TypeOK, Progress
<1>3. \A j \in Checks : CheckInv(j)'
  BY <1>2, OthersKept DEF tasks, Planners
<1> QED
  BY <1>1, <1>3 DEF IInv

\* A planning transaction of a check fails, or its success cannot be recorded, or the
\* process stops.
LEMMA FailingStep ==
  ASSUME IInv, NEW k \in Checks, RollbackScheduled(k) \/ RecordingFails(k) \/ Stop(k)
  PROVE  IInv'
<1>0. TypeOK /\ k \in Planners /\ check[k].pc # "idle"
  BY DEF IInv, Planners, RollbackScheduled, RecordingFails, Stop
<1>1. /\ UNCHANGED <<baseData, clock, run, tasks, request, edits>>
      /\ faults' \in 0 .. MaxFaults
  BY <1>0, SyncPlanningAssumption
     DEF RollbackScheduled, RecordingFails, Stop, Rollback, Fault, TypeOK
<1>2. /\ tx' \in [Planners -> Plan \cup {None}]
      /\ \A q \in Planners : tx'[q] \in {tx[q], None}
      /\ \A q \in Planners \ {k} : tx'[q] = tx[q]
  BY <1>0 DEF RollbackScheduled, RecordingFails, Stop, Rollback, TypeOK
<1>3. /\ check' \in [Checks -> Progress]
      /\ check'[k].pc \in {"idle", "failed"}
      /\ check'[k].pc # "idle" => check'[k].month = check[k].month
      /\ \A j \in Checks \ {k} : check'[j] = check[j]
  <2>1. CASE To(k, "failed")
    BY <1>0, <2>1, ToNext
  <2>2. CASE Stop(k)
    BY <1>0, <2>2, IdleCheck DEF Stop, TypeOK
  <2> QED
    BY <2>1, <2>2 DEF RollbackScheduled, RecordingFails
<1>4. TypeOK'
  BY <1>0, <1>1, <1>2, <1>3 DEF TypeOK, baseData, clock, tasks
<1> QED
  BY <1>0, <1>1, <1>2, <1>3, <1>4, EndedCheck

\* The outcome of a check is written over whatever the row of the month says.
LEMMA RecordStep ==
  ASSUME IInv, NEW k \in Checks, RecordSuccess(k) \/ RecordFailure(k)
  PROVE  IInv'
<1> DEFINE m == check[k].month
<1>0. TypeOK /\ k \in Planners /\ check[k].pc # "idle" /\ m \in Months
  BY DEF IInv, Planners, RecordSuccess, RecordFailure, TypeOK, Progress
<1>1. PICK status \in {"succeeded", "failed"} : Record(k, status)
  BY DEF RecordSuccess, RecordFailure
<1>2. run[m] \in Attempt
  BY <1>0 DEF IInv, CheckInv, TypeOK
<1> DEFINE row == [run[m] EXCEPT !.status = status]
<1>3. row \in Attempt
  BY <1>2 DEF Attempt
<1>4. row # None
  BY <1>3, NoneIsNoRow
<1>5. /\ run' = [run EXCEPT ![m] = row] /\ check' = [check EXCEPT ![k] = Idle]
      /\ UNCHANGED <<baseData, clock, tasks, tx, request, bounds>>
  BY <1>1 DEF Record
<1> HIDE DEF row
<1>6. TypeOK'
  BY <1>0, <1>3, <1>5, IdleCheck DEF TypeOK, baseData, clock, tasks, bounds
<1>7. \A n \in Months : run[n] # None => run'[n] # None
  BY <1>0, <1>4, <1>5 DEF TypeOK
<1>8. check'[k].pc = "idle" /\ \A j \in Checks \ {k} : check'[j] = check[j]
  BY <1>0, <1>5, IdleCheck DEF TypeOK
<1> QED
  BY <1>5, <1>6, <1>7, <1>8, EndedCheck

\* An account or a credential changes: what is not ready any more is not steady.
LEMMA BaseDataStep ==
  ASSUME IInv, UNCHANGED <<locked, clock, run, tasks, tx, request, faults>>, Edit,
         account' \in [Accounts -> Statuses \cup {None}],
         credential' \in [Subjects -> Statuses \cup {None}],
         NEW s \in Subjects, Interrupt(s) \/ UNCHANGED check,
         \A m \in Months : \A t \in Ready(m) : t \in Ready(m)' \/ (t = s /\ Interrupt(s))
  PROVE  IInv'
<1>0. TypeOK
  BY DEF IInv
<1>1. edits' \in 0 .. MaxEdits
  BY <1>0, SyncPlanningAssumption DEF Edit, TypeOK
<1>2. \A k \in Checks : check[k] \in Progress
  BY <1>0 DEF TypeOK
<1>3. /\ check' \in [Checks -> Progress]
      /\ \A k \in Checks : /\ check'[k].pc = check[k].pc /\ check'[k].month = check[k].month
                           /\ check'[k].steady \subseteq check[k].steady
                           /\ Interrupt(s) => s \notin check'[k].steady
  <2>1. CASE Interrupt(s)
    <3>1. \A k \in Checks : check'[k] = [check[k] EXCEPT !.steady = check[k].steady \ {s}]
      BY <2>1 DEF Interrupt
    <3>2. check' = [k \in Checks |-> check'[k]]
      BY <2>1 DEF Interrupt
    <3>3. ASSUME NEW k \in Checks
          PROVE  /\ check'[k] \in Progress
                 /\ check'[k].pc = check[k].pc /\ check'[k].month = check[k].month
                 /\ check'[k].steady = check[k].steady \ {s}
      <4>1. check[k] \in Progress /\ check'[k] = [check[k] EXCEPT !.steady = check[k].steady \ {s}]
        BY <1>2, <3>1
      <4> QED
        BY <4>1 DEF Progress
    <3> QED
      BY <3>2, <3>3
  <2>2. CASE UNCHANGED check /\ ~Interrupt(s)
    BY <1>0, <2>2 DEF TypeOK
  <2> QED
    BY <2>1, <2>2
<1>4. TypeOK'
  BY <1>0, <1>1, <1>3 DEF TypeOK, clock, tasks
<1>5. ASSUME NEW k \in Checks PROVE CheckInv(k)'
  BY <1>3, CheckKept DEF tasks, Planners
<1>6. OnePlanOfAMonth' /\ PlansNeverCollide'
  BY PlansKept DEF tasks
<1> QED
  BY <1>4, <1>5, <1>6 DEF IInv

\* A credential is entered or disabled.
LEMMA CredentialStep ==
  ASSUME IInv, NEW s \in Subjects, NEW status \in Statuses, SetCredential(s, status)
  PROVE  IInv'
<1>1. /\ UNCHANGED <<account, locked, clock, run, tasks, tx, request, faults>>
      /\ Edit /\ credential' = [credential EXCEPT ![s] = status]
      /\ Interrupt(s) \/ (UNCHANGED check /\ status = "active")
  BY DEF SetCredential
<1>2. /\ account' \in [Accounts -> Statuses \cup {None}]
      /\ credential' \in [Subjects -> Statuses \cup {None}]
  BY <1>1 DEF IInv, TypeOK
<1>3. \A m \in Months : \A t \in Ready(m) : t \in Ready(m)' \/ (t = s /\ Interrupt(s))
  BY <1>1 DEF IInv, TypeOK, Ready, Candidates, CredentialConfigured, Subjects
<1> QED
  BY <1>1, <1>2, <1>3, BaseDataStep

\* An account is created, changed or disabled, or its credential is.
LEMMA AccountStep ==
  ASSUME IInv, NEW a \in Accounts, Account(a)
  PROVE  IInv'
<1>0. a \in Subjects /\ TypeOK
  BY DEF Subjects, IInv
<1> USE DEF Ready, Candidates, CredentialConfigured
<1>1. ASSUME NEW status \in Statuses, SetAccount(a, status) PROVE IInv'
  <2>1. /\ UNCHANGED <<credential, locked, clock, run, tasks, tx, request, faults>>
        /\ Edit /\ Interrupt(a) /\ account' = [account EXCEPT ![a] = status]
    BY <1>1 DEF SetAccount
  <2>2. /\ account' \in [Accounts -> Statuses \cup {None}]
        /\ credential' \in [Subjects -> Statuses \cup {None}]
    BY <1>0, <2>1 DEF TypeOK
  <2>3. \A m \in Months : \A t \in Ready(m) : t \in Ready(m)' \/ (t = a /\ Interrupt(a))
    BY <1>0, <2>1 DEF TypeOK
  <2> QED
    BY <1>0, <2>1, <2>2, <2>3, BaseDataStep
<1>2. ASSUME NEW status \in Statuses, SetCredential(a, status) PROVE IInv'
  BY <1>0, <1>2, CredentialStep
<1> QED
  BY <1>1, <1>2 DEF Account, createAccount, updateAccount, disableAccount, upsertAffiliateAccount,
                    disableAffiliateAccount, Statuses

\* A month is locked: nothing of it has been ready ever since.
LEMMA LockMonthStep ==
  ASSUME IInv, NEW m \in Months, LockMonth(m)
  PROVE  IInv'
<1>0. TypeOK
  BY DEF IInv
<1>1. /\ UNCHANGED <<account, credential, clock, run, tasks, tx, request, faults>>
      /\ Edit /\ locked' = locked \cup {m}
  BY DEF LockMonth
<1>2. edits' \in 0 .. MaxEdits
  BY <1>0, <1>1, SyncPlanningAssumption DEF Edit, TypeOK
<1>3. /\ check' = [k \in Checks |-> check'[k]]
      /\ \A k \in Checks : check'[k] = IF check[k].month = m
                                       THEN [check[k] EXCEPT !.steady = {}] ELSE check[k]
  BY DEF LockMonth
<1>4. ASSUME NEW k \in Checks
      PROVE  /\ check'[k] \in Progress
             /\ check'[k].pc = check[k].pc /\ check'[k].month = check[k].month
             /\ check'[k].steady = IF check[k].month = m THEN {} ELSE check[k].steady
  <2>1. check[k] \in Progress
    BY <1>0 DEF TypeOK
  <2> QED
    BY <1>3, <2>1 DEF Progress
<1>5. TypeOK'
  BY <1>0, <1>1, <1>2, <1>3, <1>4 DEF TypeOK, clock, tasks
<1>6. \A n \in Months : n # m => Ready(n) \subseteq Ready(n)'
  BY <1>1 DEF Ready, Candidates, CredentialConfigured
<1>7. ASSUME NEW k \in Checks PROVE CheckInv(k)'
  BY <1>1, <1>4, <1>6, CheckKept DEF tasks, Planners
<1>8. OnePlanOfAMonth' /\ PlansNeverCollide'
  BY <1>1, PlansKept DEF tasks
<1> QED
  BY <1>5, <1>7, <1>8 DEF IInv

\* Time passes.
LEMMA TimeStep ==
  ASSUME IInv, Tick \/ DayComes \/ MonthTurns
  PROVE  IInv'
<1>0. TypeOK
  BY DEF IInv
<1>1. UNCHANGED <<baseData, tasks, tx, check, request, bounds>>
  BY DEF Tick, DayComes, MonthTurns
<1>2. /\ run' \in [Months -> Attempt \cup {None}]
      /\ \A m \in Months : run[m] # None => run'[m] # None
  <2>1. CASE Tick
    <3>1. ASSUME NEW m \in Months
          PROVE  Age(run[m]) \in Attempt \cup {None} /\ (run[m] # None => Age(run[m]) # None)
      <4>1. CASE run[m] = None \/ run[m].age = Stale
        BY <1>0, <4>1 DEF Age, TypeOK
      <4>2. CASE run[m] # None /\ run[m].age # Stale
        <5>1. run[m] \in Attempt
          BY <1>0, <4>2 DEF TypeOK
        <5>2. [run[m] EXCEPT !.age = @ + 1] \in Attempt
          BY <4>2, <5>1, SyncPlanningAssumption DEF Attempt
        <5>3. Age(run[m]) = [run[m] EXCEPT !.age = @ + 1]
          BY <4>2 DEF Age
        <5> QED
          BY <5>2, <5>3, NoneIsNoRow
      <4> QED
        BY <4>1, <4>2
    <3>2. run' = [m \in Months |-> Age(run[m])]
      BY <2>1 DEF Tick
    <3> QED
      BY <3>1, <3>2
  <2>2. CASE DayComes \/ MonthTurns
    BY <1>0, <2>2 DEF DayComes, MonthTurns, TypeOK
  <2> QED
    BY <2>1, <2>2
<1>3. target' \in Months
  BY <1>0, SyncPlanningAssumption DEF Tick, DayComes, MonthTurns, TypeOK, Months, clock
<1>4. due' \in BOOLEAN
  BY <1>0 DEF Tick, DayComes, MonthTurns, TypeOK, clock
<1>5. TypeOK'
  BY <1>0, <1>1, <1>2, <1>3, <1>4 DEF TypeOK, baseData, tasks, bounds
<1>6. \A k \in Checks : CheckInv(k)'
  BY <1>1, <1>2, AllKept DEF tasks
<1>7. OnePlanOfAMonth' /\ PlansNeverCollide'
  BY <1>1, PlansKept DEF tasks
<1> QED
  BY <1>5, <1>6, <1>7 DEF IInv

----------------------------------------------------------------------------
(* Results. *)

\* Every step keeps the invariant.
LEMMA NextIInv == IInv /\ [Next]_vars => IInv'
<1> SUFFICES ASSUME IInv, [Next]_vars PROVE IInv'
  OBVIOUS
<1>1. ASSUME NEW k \in Checks, Check(k) PROVE IInv'
  BY <1>1, ClaimStep, BeginScheduledStep, CommitScheduledStep, FailingStep, RecordStep DEF Check
<1>2. ASSUME NEW d \in Administrators, Administrator(d) PROVE IInv'
  BY <1>2, GenerateStep, CreateStep DEF Administrator
<1>3. ASSUME NEW p \in Providers, upsertCardProvider(p) \/ disableCardProvider(p) PROVE IInv'
  BY <1>3, CredentialStep DEF upsertCardProvider, disableCardProvider, Statuses, Subjects
<1>4. CASE UNCHANGED vars
  <2>1. TypeOK'
    BY <1>4 DEF vars, IInv, TypeOK, baseData, clock, tasks, bounds
  <2>2. \A k \in Checks : CheckInv(k)'
    BY <1>4, AllKept DEF vars, tasks
  <2>3. OnePlanOfAMonth' /\ PlansNeverCollide'
    BY <1>4, PlansKept DEF vars, tasks
  <2> QED
    BY <2>1, <2>2, <2>3 DEF IInv
<1> QED
  BY <1>1, <1>2, <1>3, <1>4, AccountStep, LockMonthStep, TimeStep DEF Next

\* However many checks, requests and changes of base data overlap: no two plans of a
\* month collide on a planning key, and what was ready from the claim of a check until
\* it has planned its month has a task of that month.
THEOREM PlannersAgree == Spec => []PlanningInv
<1>1. IInv => PlanningInv
  BY DEF IInv, PlanningInv, CheckInv, PlannedMonthIsCovered
<1> QED
  BY <1>1, InitIInv, NextIInv, PTL DEF Spec
=============================================================================
