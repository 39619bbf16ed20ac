------------------------ MODULE SyncTaskLifecycleProofs ------------------------
(***************************************************************************)
(* What the leases and conditional updates of sync tasks guarantee for any *)
(* number of tasks, instances, requests and attempts; and what the clients *)
(* on which the executing of a task waits guarantee for any number of      *)
(* callers, tokens, rows and pages.                                        *)
(***************************************************************************)
EXTENDS SyncTaskLifecycle, ProviderClients, TLAPS, FiniteSetTheorems, SequenceTheorems

\* A lease has an owner, and only a running task has one.
LeaseOfRunning ==
    \A t \in Tasks :
        /\ owner[t] = NoOne <=> lease[t] = "none"
        /\ owner[t] # NoOne => status[t] = "running"

\* A handler under way executes the claim of an instance.
WorkerHasPhase == \A c \in Claims : phase[c] = "idle" <=> worker[c] = NoOne

\* No claim is ahead of the attempts counted, and an instance that holds the lease
\* of a task is executing no older claim of it: it polls only when it has nothing
\* in flight.  This is why comparing the instance is enough for a finish.
OwnerIsCurrent ==
    \A c \in Claims : worker[c] # NoOne =>
        /\ c[2] <= attempts[c[1]]
        /\ owner[c[1]] = worker[c] => c[2] = attempts[c[1]]

\* A request that is about to run a task by hand has read a status that allows it.
ReadExecutable ==
    \A r \in Requests :
        pc[r] \in {"executeCheck", "executeStart"} => seen[r].status \in Executable

IInv ==
    /\ TypeOK
    /\ LeaseOfRunning
    /\ WorkerHasPhase
    /\ OwnerIsCurrent
    /\ ReadExecutable
    /\ RetryHasAttempt
    /\ ManualRunIsAlone

\* The task and the attempt that name a claim.
LEMMA ClaimParts ==
  ASSUME NEW c \in Claims
  PROVE  c[1] \in Tasks /\ c[2] \in Attempts /\ c = <<c[1], c[2]>>
  BY DEF Claims

\* Tasks that wait, idle workers and idle requests satisfy the invariant.
LEMMA InitIInv == Init => IInv
<1> SUFFICES ASSUME Init PROVE IInv
  OBVIOUS
<1> USE SyncTaskAssumption DEF Init
<1>1. TypeOK
  BY DEF TypeOK, Statuses, Phases, Pcs
<1>2. LeaseOfRunning /\ WorkerHasPhase /\ OwnerIsCurrent
  BY ClaimParts DEF LeaseOfRunning, WorkerHasPhase, OwnerIsCurrent
<1>3. ReadExecutable /\ RetryHasAttempt /\ ManualRunIsAlone
  BY DEF ReadExecutable, RetryHasAttempt, ManualRunIsAlone
<1> QED
  BY <1>1, <1>2, <1>3 DEF IInv

\* A poll takes tasks that nobody works on and that have an attempt left.
LEMMA PollStep ==
  ASSUME IInv, NEW i \in Instances, NEW held \in SUBSET Tasks, Poll(i, held)
  PROVE  IInv'
<1> DEFINE batch == Oldest({t \in Tasks : Claimable(t)} \ held)
<1> USE SyncTaskAssumption
<1>1. batch \subseteq {t \in Tasks : Claimable(t)} /\ ClaimBatch(i, batch) /\ ~inFlight(i)
  BY DEF Poll, Oldest
<1> HIDE DEF batch
<1>2. \A t \in batch : /\ t \in Tasks /\ attempts[t] < MaxAttempts
                       /\ \/ status[t] \in {"pending", "retry_wait"}
                          \/ status[t] = "running" /\ lease[t] = "expired"
  <2> TAKE t \in batch
  <2>1. t \in Tasks /\ Claimable(t)
    BY <1>1
  <2> QED
    BY <2>1 DEF Claimable
<1>3. TypeOK'
  <2>1. attempts' \in [Tasks -> 0 .. MaxAttempts]
    BY <1>1, <1>2 DEF IInv, TypeOK, ClaimBatch
  <2>2. /\ status' \in [Tasks -> Statuses]
        /\ owner' \in [Tasks -> Instances \cup {NoOne}]
        /\ lease' \in [Tasks -> {"none", "live", "expired"}]
        /\ due' \in [Tasks -> BOOLEAN]
    BY <1>1 DEF IInv, TypeOK, ClaimBatch, Statuses
  <2>3. worker' \in [Claims -> Instances \cup {NoOne}]
    BY <1>1 DEF IInv, TypeOK, ClaimBatch
  <2>4. phase' \in [Claims -> Phases]
    BY <1>1 DEF IInv, TypeOK, ClaimBatch, Phases
  <2>5. UNCHANGED <<ready, stage, pc, seen>>
    BY <1>1 DEF ClaimBatch, requestVars
  <2> QED
    BY <2>1, <2>2, <2>3, <2>4, <2>5 DEF IInv, TypeOK
<1>4. LeaseOfRunning' /\ RetryHasAttempt'
  BY <1>1, <1>2 DEF IInv, TypeOK, LeaseOfRunning, RetryHasAttempt, ClaimBatch
<1>5. WorkerHasPhase'
  BY <1>1, <1>2 DEF IInv, TypeOK, WorkerHasPhase, ClaimBatch
<1>6. OwnerIsCurrent'
  BY <1>1, <1>2, ClaimParts DEF IInv, TypeOK, OwnerIsCurrent, ClaimBatch, inFlight, Attempts
<1>7. ReadExecutable'
  BY <1>1 DEF IInv, ReadExecutable, ClaimBatch, requestVars
<1>8. ManualRunIsAlone'
  BY <1>1, <1>2 DEF IInv, TypeOK, Seen, ManualRunIsAlone, LeaseOfRunning, ClaimBatch, requestVars
<1> QED
  BY <1>3, <1>4, <1>5, <1>6, <1>7, <1>8 DEF IInv

\* A handler that goes on or ends without writing its task keeps the invariant.
LEMMA QuietStep ==
  ASSUME IInv, UNCHANGED <<taskVars, requestVars>>,
         ready' \in [Tasks -> BOOLEAN],
         stage' \in [Instances -> {"new", "up", "stopped"}],
         worker' \in [Claims -> Instances \cup {NoOne}],
         phase' \in [Claims -> Phases],
         \A c \in Claims : /\ worker'[c] \in {worker[c], NoOne}
                           /\ phase'[c] = "idle" <=> worker'[c] = NoOne
  PROVE  IInv'
<1> USE DEF taskVars, requestVars
<1>1. TypeOK'
  BY DEF IInv, TypeOK
<1>2. LeaseOfRunning' /\ WorkerHasPhase' /\ RetryHasAttempt'
  BY DEF IInv, LeaseOfRunning, WorkerHasPhase, RetryHasAttempt
<1>3. OwnerIsCurrent'
  BY DEF IInv, OwnerIsCurrent
<1>4. ReadExecutable' /\ ManualRunIsAlone'
  BY DEF IInv, ReadExecutable, ManualRunIsAlone
<1> QED
  BY <1>1, <1>2, <1>3, <1>4 DEF IInv

\* A worker that finishes a task it owns holds the claim of the current attempt.
LEMMA OwnsCurrent ==
  ASSUME IInv, NEW c \in Claims, phase[c] # "idle", Owns(c)
  PROVE  /\ worker[c] # NoOne
         /\ c[2] = attempts[c[1]]
         /\ \A r \in Requests : pc[r] = "execute" => seen[r].task # c[1]
  BY ClaimParts DEF IInv, WorkerHasPhase, OwnerIsCurrent, Owns, ManualRunIsAlone

\* A worker finishes its own claim, or ends and writes nothing.
LEMMA FinishStep ==
  ASSUME IInv, NEW c \in Claims,
         finishSuccess(c) \/ \E retryable \in BOOLEAN : finishFailure(c, retryable)
  PROVE  IInv'
<1> USE SyncTaskAssumption, ClaimParts
<1>1. /\ phase[c] # "idle" /\ EndClaim(c) /\ UNCHANGED <<ready, stage, requestVars>>
      /\ \/ ~Owns(c) /\ UNCHANGED taskVars
         \/ /\ Owns(c)
            /\ \E s \in {"completed", "failed", "retry_wait"}, d \in BOOLEAN :
                /\ SetTask(c[1], s, NoOne, "none", d)
                /\ s = "retry_wait" => c[2] < MaxAttempts
  BY DEF finishSuccess, finishFailure
<1>2. /\ worker' \in [Claims -> Instances \cup {NoOne}]
      /\ phase' \in [Claims -> Phases]
      /\ \A d \in Claims : /\ worker'[d] \in {worker[d], NoOne}
                           /\ phase'[d] = "idle" <=> worker'[d] = NoOne
  BY <1>1 DEF IInv, TypeOK, WorkerHasPhase, EndClaim, Phases
<1>3. CASE UNCHANGED taskVars
  BY <1>1, <1>2, <1>3, QuietStep DEF IInv, TypeOK
<1>4. ASSUME Owns(c), NEW s \in {"completed", "failed", "retry_wait"}, NEW d \in BOOLEAN,
             SetTask(c[1], s, NoOne, "none", d), s = "retry_wait" => c[2] < MaxAttempts
      PROVE  IInv'
  <2> USE <1>4 DEF SetTask
  <2>1. TypeOK'
    BY <1>1, <1>2 DEF IInv, TypeOK, Statuses, requestVars
  <2>2. LeaseOfRunning' /\ RetryHasAttempt'
    BY <1>1, OwnsCurrent DEF IInv, TypeOK, LeaseOfRunning, RetryHasAttempt
  <2>3. WorkerHasPhase' /\ OwnerIsCurrent'
    BY <1>1, <1>2 DEF IInv, TypeOK, WorkerHasPhase, OwnerIsCurrent
  <2>4. ReadExecutable' /\ ManualRunIsAlone'
    BY <1>1, OwnsCurrent DEF IInv, TypeOK, Seen, ReadExecutable, ManualRunIsAlone, requestVars
  <2> QED
    BY <2>1, <2>2, <2>3, <2>4 DEF IInv
<1> QED
  BY <1>1, <1>3, <1>4

\* A request reads its task and remembers a status that allows what it will do.
LEMMA LoadStep ==
  ASSUME IInv, NEW r \in Requests, NEW t \in Tasks,
         execute(r, t) \/ requestRetry(r, t) \/ cancel(r, t)
  PROVE  IInv'
<1>1. /\ pc[r] = "idle"
      /\ UNCHANGED <<taskVars, ready, stage, workerVars>>
      /\ seen' = [seen EXCEPT ![r] = [task |-> t, status |-> status[t],
                                     attempts |-> attempts[t]]]
      /\ \E next \in {"executeCheck", "retryCheck", "cancel", "cancelExpired"} :
            /\ pc' = [pc EXCEPT ![r] = next]
            /\ next = "executeCheck" => status[t] \in Executable
  BY DEF execute, requestRetry, cancel, Load
<1>2. [task |-> t, status |-> status[t], attempts |-> attempts[t]] \in Seen
  BY DEF IInv, TypeOK, Seen
<1> USE <1>1 DEF taskVars, workerVars
<1>3. TypeOK'
  BY <1>2 DEF IInv, TypeOK, Pcs
<1>4. LeaseOfRunning' /\ WorkerHasPhase' /\ OwnerIsCurrent' /\ RetryHasAttempt'
  BY DEF IInv, LeaseOfRunning, WorkerHasPhase, OwnerIsCurrent, RetryHasAttempt
<1>5. ReadExecutable'
  BY DEF IInv, TypeOK, ReadExecutable
<1>6. ManualRunIsAlone'
  BY DEF IInv, TypeOK, ManualRunIsAlone
<1> QED
  BY <1>3, <1>4, <1>5, <1>6 DEF IInv

\* A request goes on or ends without writing the task.
LEMMA GotoStep ==
  ASSUME IInv, NEW r \in Requests, pc[r] # "idle",
         NEW next \in {"idle", "executeStart", "retry"}, Goto(r, next),
         next = "executeStart" => pc[r] = "executeCheck",
         UNCHANGED <<taskVars, ready, stage, workerVars>>
  PROVE  IInv'
<1> USE DEF taskVars, workerVars, Goto
<1>1. TypeOK'
  BY DEF IInv, TypeOK, Pcs
<1>2. LeaseOfRunning' /\ WorkerHasPhase' /\ OwnerIsCurrent' /\ RetryHasAttempt'
  BY DEF IInv, LeaseOfRunning, WorkerHasPhase, OwnerIsCurrent, RetryHasAttempt
<1>3. ReadExecutable' /\ ManualRunIsAlone'
  BY DEF IInv, TypeOK, ReadExecutable, ManualRunIsAlone
<1> QED
  BY <1>1, <1>2, <1>3 DEF IInv

\* A retry or a cancellation takes a task that no request is running by hand and
\* leaves it without a lease.
LEMMA ReleaseStep ==
  ASSUME IInv, NEW r \in Requests, NEW t \in Tasks, NEW s \in {"pending", "cancelled"},
         \A q \in Requests : pc[q] = "execute" => seen[q].task # t,
         SetTask(t, s, NoOne, "none", TRUE), Goto(r, "idle"),
         UNCHANGED <<ready, stage, workerVars>>
  PROVE  IInv'
<1> USE DEF workerVars, Goto, SetTask
<1>1. TypeOK'
  BY DEF IInv, TypeOK, Pcs, Statuses
<1>2. LeaseOfRunning' /\ RetryHasAttempt'
  BY DEF IInv, TypeOK, LeaseOfRunning, RetryHasAttempt
<1>3. WorkerHasPhase' /\ OwnerIsCurrent'
  BY ClaimParts DEF IInv, TypeOK, WorkerHasPhase, OwnerIsCurrent
<1>4. ReadExecutable'
  BY DEF IInv, TypeOK, ReadExecutable
<1>5. ManualRunIsAlone'
  BY DEF IInv, TypeOK, Seen, ManualRunIsAlone
<1> QED
  BY <1>1, <1>2, <1>3, <1>4, <1>5 DEF IInv

\* The update of a request whose check passed, or whose task has changed since.
LEMMA ApplyStep ==
  ASSUME IInv, NEW r \in Requests, RetryApply(r) \/ CancelApply(r) \/ CancelExpiredApply(r)
  PROVE  IInv'
<1> DEFINE t == seen[r].task
<1>1. /\ pc[r] # "idle" /\ Goto(r, "idle") /\ UNCHANGED <<ready, stage, workerVars>>
      /\ \/ UNCHANGED taskVars
         \/ /\ \/ status[t] # "running"
               \/ lease[t] = "expired"
            /\ \E s \in {"pending", "cancelled"} : SetTask(t, s, NoOne, "none", TRUE)
  BY DEF RetryApply, CancelApply, CancelExpiredApply, ACTIVE_RETRY_STATUSES, CANCELABLE_STATUSES
<1>2. t \in Tasks
  BY <1>1 DEF IInv, TypeOK, Seen
<1>3. CASE UNCHANGED taskVars
  BY <1>1, <1>3, GotoStep
<1>4. CASE /\ status[t] # "running" \/ lease[t] = "expired"
           /\ \E s \in {"pending", "cancelled"} : SetTask(t, s, NoOne, "none", TRUE)
  <2>1. \A q \in Requests : pc[q] = "execute" => seen[q].task # t
    BY <1>2, <1>4 DEF IInv, LeaseOfRunning, ManualRunIsAlone
  <2> QED
    BY <1>1, <1>2, <1>4, <2>1, ReleaseStep
<1> QED
  BY <1>1, <1>3, <1>4

\* A run by hand starts from a task nobody runs and ends one nobody else runs.
LEMMA ManualStep ==
  ASSUME IInv, NEW r \in Requests,
         ExecuteStart(r) \/ \E result \in {"completed", "failed"} : ExecuteFinish(r, result)
  PROVE  IInv'
<1> DEFINE t == seen[r].task
<1>1. pc[r] # "idle" /\ t \in Tasks
  BY DEF IInv, TypeOK, Seen, ExecuteStart, ExecuteFinish
<1>2. CASE UNCHANGED status /\ Goto(r, "idle")
  BY <1>1, <1>2, GotoStep DEF ExecuteStart, ExecuteFinish, taskVars
<1>3. CASE /\ pc[r] = "executeStart" /\ Goto(r, "execute")
           /\ status[t] = seen[r].status /\ owner[t] = NoOne
           /\ status' = [status EXCEPT ![t] = "running"]
           /\ UNCHANGED <<attempts, owner, lease, due, ready, stage, workerVars>>
  <2> USE <1>3 DEF workerVars, Goto
  <2>1. status[t] # "running"
    BY DEF IInv, ReadExecutable, Executable
  <2>2. TypeOK'
    BY <1>1 DEF IInv, TypeOK, Pcs, Statuses
  <2>3. LeaseOfRunning' /\ RetryHasAttempt' /\ WorkerHasPhase' /\ OwnerIsCurrent'
    BY <1>1, <2>1
       DEF IInv, TypeOK, LeaseOfRunning, RetryHasAttempt, WorkerHasPhase, OwnerIsCurrent
  <2>4. ReadExecutable' /\ ManualRunIsAlone'
    BY <1>1, <2>1 DEF IInv, TypeOK, Seen, ReadExecutable, ManualRunIsAlone
  <2> QED
    BY <2>2, <2>3, <2>4 DEF IInv
<1>4. ASSUME NEW result \in {"completed", "failed"}, pc[r] = "execute", Goto(r, "idle"),
             status' = [status EXCEPT ![t] = result],
             UNCHANGED <<attempts, owner, lease, due, ready, stage, workerVars>>
      PROVE  IInv'
  <2> USE <1>4 DEF workerVars, Goto
  <2>1. status[t] = "running" /\ owner[t] = NoOne
    BY DEF IInv, ManualRunIsAlone
  <2>2. TypeOK'
    BY <1>1 DEF IInv, TypeOK, Pcs, Statuses
  <2>3. LeaseOfRunning' /\ RetryHasAttempt' /\ WorkerHasPhase' /\ OwnerIsCurrent'
    BY <1>1, <2>1
       DEF IInv, TypeOK, LeaseOfRunning, RetryHasAttempt, WorkerHasPhase, OwnerIsCurrent
  <2>4. ReadExecutable' /\ ManualRunIsAlone'
    BY <1>1 DEF IInv, TypeOK, Seen, ReadExecutable, ManualRunIsAlone
  <2> QED
    BY <2>2, <2>3, <2>4 DEF IInv
<1> QED
  BY <1>2, <1>3, <1>4 DEF ExecuteStart, ExecuteFinish

\* Time, and locks, credentials and accounts that change, keep the invariant.
LEMMA EnvironmentStep ==
  ASSUME IInv, NEW t \in Tasks, Environment(t)
  PROVE  IInv'
<1>1. CASE ExpireLease(t)
  BY <1>1 DEF ExpireLease, IInv, TypeOK, LeaseOfRunning, WorkerHasPhase, OwnerIsCurrent,
              ReadExecutable, RetryHasAttempt, ManualRunIsAlone, workerVars, requestVars
<1>2. CASE FallDue(t) \/ ChangeReady(t)
  <2> USE <1>2 DEF FallDue, ChangeReady, taskVars, workerVars, requestVars
  <2>1. TypeOK'
    BY DEF IInv, TypeOK
  <2>2. LeaseOfRunning' /\ WorkerHasPhase' /\ OwnerIsCurrent' /\ RetryHasAttempt'
    BY DEF IInv, LeaseOfRunning, WorkerHasPhase, OwnerIsCurrent, RetryHasAttempt
  <2>3. ReadExecutable' /\ ManualRunIsAlone'
    BY DEF IInv, ReadExecutable, ManualRunIsAlone
  <2> QED
    BY <2>1, <2>2, <2>3 DEF IInv
<1> QED
  BY <1>1, <1>2 DEF Environment

\* Every step keeps the invariant.
LEMMA NextIInv == IInv /\ [Next]_vars => IInv'
<1> SUFFICES ASSUME IInv, [Next]_vars PROVE IInv'
  OBVIOUS
<1>1. ASSUME NEW i \in Instances, Instance(i) PROVE IInv'
  <2>1. CASE onApplicationBootstrap(i) \/ onModuleDestroy(i)
    BY <2>1, QuietStep DEF IInv, TypeOK, WorkerHasPhase, onApplicationBootstrap,
                           onModuleDestroy, workerVars
  <2>2. CASE Crash(i)
    BY <2>2, QuietStep DEF IInv, TypeOK, WorkerHasPhase, Crash, Phases
  <2> QED
    BY <1>1, <2>1, <2>2, PollStep DEF Instance
<1>2. ASSUME NEW c \in Claims, ExecuteClaim(c) \/ GiveUp(c) PROVE IInv'
  <2>1. CASE ReadClaim(c) \/ preExecutionBlocker(c) \/ GiveUp(c)
    BY <2>1, QuietStep DEF IInv, TypeOK, WorkerHasPhase, ReadClaim, preExecutionBlocker,
                           GiveUp, EndClaim, Phases
  <2> QED
    BY <1>2, <2>1, FinishStep DEF ExecuteClaim
<1>3. ASSUME NEW r \in Requests, Request(r) PROVE IInv'
  <2>1. CASE CheckReady(r) \/ Abort(r)
    BY <2>1, GotoStep DEF CheckReady, Abort
  <2> QED
    BY <1>3, <2>1, LoadStep, ManualStep, ApplyStep DEF Request
<1>4. CASE UNCHANGED vars
  BY <1>4, QuietStep DEF IInv, TypeOK, WorkerHasPhase, vars, workerVars
<1> QED
  BY <1>1, <1>2, <1>3, <1>4, EnvironmentStep DEF Next

\* The invariant holds in every state the program reaches.
THEOREM Invariance == Spec => []IInv
  BY InitIInv, NextIInv, PTL DEF Spec

\* The attempts, leases and statuses of the tasks keep their types and bounds.
THEOREM TypeCorrect == Spec => []TypeOK
<1>1. IInv => TypeOK
  BY DEF IInv
<1> QED
  BY <1>1, Invariance, PTL

\* Instances and executions change the status of a task only where it waits or runs.
LEMMA WorkerKeepsFinal ==
  ASSUME IInv, NEW t \in Tasks, status[t] \in {"completed", "cancelled"},
         \/ \E i \in Instances : Instance(i)
         \/ \E c \in Claims : ExecuteClaim(c) \/ GiveUp(c)
  PROVE  status'[t] = status[t]
<1>1. ASSUME NEW i \in Instances, NEW held \in SUBSET Tasks, Poll(i, held)
      PROVE  status'[t] = status[t]
  BY <1>1 DEF Poll, ClaimBatch, Oldest, Claimable, IInv, TypeOK
<1>2. ASSUME NEW c \in Claims, ExecuteClaim(c) \/ GiveUp(c)
      PROVE  status'[t] = status[t]
  BY <1>2 DEF ExecuteClaim, GiveUp, ReadClaim, preExecutionBlocker, finishSuccess,
              finishFailure, SetTask, Owns, taskVars, IInv, TypeOK
<1> QED
  BY <1>1, <1>2 DEF Instance, onApplicationBootstrap, onModuleDestroy, Crash, taskVars

\* Requests change the status of a task only where they may run, retry or cancel it.
LEMMA RequestKeepsFinal ==
  ASSUME IInv, NEW t \in Tasks, status[t] \in {"completed", "cancelled"},
         NEW r \in Requests, Request(r)
  PROVE  status'[t] = status[t]
<1>1. CASE ExecuteStart(r)
  BY <1>1 DEF ExecuteStart, IInv, TypeOK, ReadExecutable, Executable
<1>2. CASE \E result \in {"completed", "failed"} : ExecuteFinish(r, result)
  BY <1>2 DEF ExecuteFinish, IInv, TypeOK
<1>3. CASE RetryApply(r) \/ CancelApply(r) \/ CancelExpiredApply(r)
  BY <1>3 DEF RetryApply, CancelApply, CancelExpiredApply, SetTask, taskVars, IInv, TypeOK,
              ACTIVE_RETRY_STATUSES, CANCELABLE_STATUSES
<1> QED
  BY <1>1, <1>2, <1>3 DEF Request, execute, requestRetry, cancel, Load, CheckReady, Abort,
                          taskVars

\* Completed and cancelled tasks stay so: every update is conditional on a status
\* that is neither.
THEOREM EndedTasksStayEnded == Spec => TerminalIsFinal
<1>1. IInv /\ [Next]_vars =>
        [\A t \in Tasks : status[t] \in {"completed", "cancelled"} =>
            status'[t] = status[t]]_vars
  <2> SUFFICES ASSUME IInv, Next, NEW t \in Tasks, status[t] \in {"completed", "cancelled"}
               PROVE  status'[t] = status[t]
    OBVIOUS
  <2>1. CASE \E u \in Tasks : Environment(u)
    BY <2>1 DEF Environment, ExpireLease, FallDue, ChangeReady, taskVars
  <2> QED
    BY <2>1, WorkerKeepsFinal, RequestKeepsFinal DEF Next
<1> QED
  BY <1>1, Invariance, PTL DEF Spec, TerminalIsFinal

\* What may happen in a step to a task under a live lease.
Kept(t) ==
    \/ <<status'[t], attempts'[t], owner'[t]>> = <<status[t], attempts[t], owner[t]>>
    \/ /\ status'[t] \in {"completed", "retry_wait", "failed"}
       /\ worker[<<t, attempts[t]>>] = owner[t]
       /\ worker'[<<t, attempts[t]>>] = NoOne

\* A worker that finishes a leased task is the worker of its current attempt.
LEMMA WorkerKeepsLease ==
  ASSUME IInv, NEW t \in Tasks, lease[t] = "live",
         \/ \E i \in Instances : Instance(i)
         \/ \E c \in Claims : ExecuteClaim(c) \/ GiveUp(c)
  PROVE  Kept(t)
<1>0. owner[t] # NoOne /\ status[t] = "running"
  BY DEF IInv, LeaseOfRunning
<1>1. ASSUME NEW i \in Instances, NEW held \in SUBSET Tasks, Poll(i, held)
      PROVE  Kept(t)
  BY <1>0, <1>1 DEF Poll, ClaimBatch, Oldest, Claimable, IInv, TypeOK, Kept
<1>2. ASSUME NEW c \in Claims, ReadClaim(c) \/ preExecutionBlocker(c) \/ GiveUp(c)
      PROVE  Kept(t)
  BY <1>2 DEF ReadClaim, preExecutionBlocker, GiveUp, taskVars, Kept
<1>3. ASSUME NEW c \in Claims,
             finishSuccess(c) \/ \E retryable \in BOOLEAN : finishFailure(c, retryable)
      PROVE  Kept(t)
  <2>1. phase[c] # "idle" /\ EndClaim(c)
    BY <1>3 DEF finishSuccess, finishFailure
  <2>2. CASE ~Owns(c)
    BY <1>3, <2>2 DEF finishSuccess, finishFailure, taskVars, Kept
  <2>3. CASE Owns(c) /\ c[1] = t
    <3>1. c = <<t, attempts[t]>>
      BY <2>1, <2>3, ClaimParts, OwnsCurrent
    <3>2. worker[c] = owner[t] /\ worker'[c] = NoOne
      BY <2>1, <2>3 DEF Owns, EndClaim, IInv, TypeOK
    <3>3. status'[t] \in {"completed", "retry_wait", "failed"}
      BY <1>3, <2>3 DEF finishSuccess, finishFailure, SetTask, IInv, TypeOK
    <3> QED
      BY <3>1, <3>2, <3>3 DEF Kept
  <2>4. CASE Owns(c) /\ c[1] # t
    BY <1>3, <2>4 DEF finishSuccess, finishFailure, SetTask, IInv, TypeOK, Kept
  <2> QED
    BY <2>2, <2>3, <2>4
<1>4. ASSUME NEW i \in Instances, onApplicationBootstrap(i) \/ onModuleDestroy(i) \/ Crash(i)
      PROVE  Kept(t)
  BY <1>4 DEF onApplicationBootstrap, onModuleDestroy, Crash, taskVars, Kept
<1> QED
  BY <1>1, <1>2, <1>3, <1>4 DEF Instance, ExecuteClaim

\* No request writes a leased task.
LEMMA RequestKeepsLease ==
  ASSUME IInv, NEW t \in Tasks, lease[t] = "live", NEW r \in Requests, Request(r)
  PROVE  Kept(t)
<1>0. owner[t] # NoOne /\ status[t] = "running"
  BY DEF IInv, LeaseOfRunning
<1>1. CASE ExecuteStart(r)
  BY <1>0, <1>1 DEF ExecuteStart, IInv, TypeOK, Kept
<1>2. CASE \E result \in {"completed", "failed"} : ExecuteFinish(r, result)
  BY <1>0, <1>2 DEF ExecuteFinish, IInv, TypeOK, Kept
<1>3. CASE RetryApply(r) \/ CancelApply(r) \/ CancelExpiredApply(r)
  BY <1>0, <1>3 DEF RetryApply, CancelApply, CancelExpiredApply, SetTask, taskVars, IInv,
                    TypeOK, Kept, ACTIVE_RETRY_STATUSES, CANCELABLE_STATUSES
<1> QED
  BY <1>1, <1>2, <1>3 DEF Request, execute, requestRetry, cancel, Load, CheckReady, Abort,
                          taskVars, Kept

\* A live lease excludes every other worker and every request.
THEOREM LeaseIsExclusive == Spec => LiveLeaseIsKept
<1>1. IInv /\ [Next]_vars => [\A t \in Tasks : lease[t] = "live" => Kept(t)]_vars
  <2> SUFFICES ASSUME IInv, Next, NEW t \in Tasks, lease[t] = "live" PROVE Kept(t)
    OBVIOUS
  <2>1. CASE \E u \in Tasks : Environment(u)
    BY <2>1 DEF Environment, ExpireLease, FallDue, ChangeReady, taskVars, Kept
  <2> QED
    BY <2>1, WorkerKeepsLease, RequestKeepsLease DEF Next
<1> QED
  BY <1>1, Invariance, PTL DEF Spec, LiveLeaseIsKept, Kept

\* A retry is never scheduled beyond the last attempt.
THEOREM RetriesHaveAttempts == Spec => []RetryHasAttempt
<1>1. IInv => RetryHasAttempt
  BY DEF IInv
<1> QED
  BY <1>1, Invariance, PTL

\* A run by hand shares its task with no worker and no other request.
THEOREM ManualRunsAreAlone == Spec => []ManualRunIsAlone
<1>1. IInv => ManualRunIsAlone
  BY DEF IInv
<1> QED
  BY <1>1, Invariance, PTL
-----------------------------------------------------------------------------
(* The provider clients.                                                   *)

\* Steps in which a call is under way.
Active == {"requesting", "joined", "login", "sent"}

\* Listings, answers and calls.
Lists == {"cards", "transactions", "detail", "holders", "report", None}

ReplyRow == [kind : ReplyKinds, rows : SUBSET Nat, total : Nat \cup {None}, token : Nat \cup {None}]
CallRow == [list : Lists, step : Steps, again : BOOLEAN, token : Nat \cup {None},
            page : Nat, known : SUBSET Nat, read : SUBSET Nat, refused : SUBSET Nat,
            odd : BOOLEAN, reply : ReplyRow, late : BOOLEAN, waits : Callers \cup {None},
            result : Results \cup {None}]

\* The rows of a listing are numbered in the order in which they entered it.
ListingOK ==
    /\ listing \in Seq(Nat) /\ Len(listing) <= MaxRows
    /\ \A i \in 1 .. Len(listing) : listing[i] \in 1 .. Len(listing)
    /\ \A i, j \in 1 .. Len(listing) : listing[i] = listing[j] => i = j

\* A token is issued at until - expiresIn, and cached for less than it lives.
TokensOK ==
    /\ tokens \in Seq([expiresIn : Nat, until : Nat]) /\ Len(tokens) <= MaxTokens
    /\ revoked \subseteq 1 .. Len(tokens)
    /\ tokenCache # None =>
          /\ tokenCache \in [token : 1 .. Len(tokens), expiresAt : Nat]
          /\ tokens[tokenCache.token].expiresIn > REQUEST_TIMEOUT
                => tokenCache.expiresAt <= tokens[tokenCache.token].until

\* What a call still has to read lies behind the pages it has read.
PositionOK(k) ==
    /\ k.page >= FirstPage
    /\ k.known \subseteq RowSet
    /\ Paged(k) => \A i \in 1 .. Len(listing) : listing[i] \in k.known \ k.read => i > Offset(k)

\* So it is with the page that has arrived, and after the last one nothing is left.
PageOK(k) ==
    /\ Paged(k) => \A i \in 1 .. Len(listing) :
                      listing[i] \in k.known \ (k.read \cup k.reply.rows) => i > Offset(k) + RowsPerPage
    /\ ~ (Paged(k) /\ hasMore(k) /\ k.reply.rows # {}) => k.known \subseteq k.read \cup k.reply.rows

\* The second attempt follows one refused token, and is made with another.
RefusedOK(k) ==
    client = "photonpay" =>
        IF k.again THEN \E t \in Nat : k.refused = {t} /\ k.token # t ELSE k.refused = {}

\* The answer to a token request arrives before a second step of the clock.
InTime(k) ==
    k.reply.token # None =>
        LET issued == tokens[k.reply.token].until - tokens[k.reply.token].expiresIn
        IN  /\ clock <= issued + REQUEST_TIMEOUT
            /\ ~ k.late => clock = issued

\* The tokens of a call have been issued.
TokensKnown(k) ==
    /\ k.token # None => k.token \in 1 .. Len(tokens)
    /\ k.reply.token # None => k.reply.token \in 1 .. Len(tokens)
    /\ k.refused \subseteq 1 .. Len(tokens)

\* What is true of one call.
CallOK(k) ==
    /\ k \in CallRow
    /\ TokensKnown(k)
    /\ k.step = "ended" <=> k.result # None
    /\ k.step \in Active => PositionOK(k) /\ RefusedOK(k)
    /\ k.step = "sent" =>
          /\ k.reply.kind = "rows" => PageOK(k)
          /\ isInvalidAccessToken(k.reply.kind) => k.token # None
          /\ client = "photonpay" => k.token # None
    /\ k.step \in Active \ {"sent"} => ~ isInvalidAccessToken(k.reply.kind)
    /\ k.step \in {"requesting", "joined"} => client = "photonpay"
    /\ k.step = "login" => client = "airwallex"
    /\ k.step = "requesting" => k.token = None /\ InTime(k)
    /\ k.step = "joined" => k.token = None /\ k.reply.token = None
    /\ k.step = "ended" =>
          /\ client = "photonpay" /\ isInvalidAccessToken(k.reply.kind) /\ k.refused # {}
                => Cardinality(k.refused) = 2
          /\ k.result = "completed" /\ ~ k.odd /\ k.list # "holders" => k.known = {}

\* Nobody has been given the token that is on its way.
Unseen(t) ==
    /\ tokenCache # None => tokenCache.token # t
    /\ \A d \in Callers : call[d].token # t /\ t \notin call[d].refused

\* The request in flight is the only one, and who has joined waits for it.
RequestsOK ==
    /\ tokenRequest \in Callers \cup {None}
    /\ \A c \in Callers :
          /\ call[c].step = "requesting" <=> tokenRequest = c
          /\ call[c].step = "joined" => call[c].waits = tokenRequest /\ tokenRequest # None
          /\ call[c].step = "requesting" /\ call[c].reply.token # None
                => Unseen(call[c].reply.token)

\* The inductive invariant.
CallsIInv ==
    /\ client \in {"photonpay", "airwallex", "cake", "everflow"} /\ totals \in BOOLEAN
    /\ clock \in Nat /\ clock <= MaxClock
    /\ ListingOK /\ TokensOK
    /\ call \in [Callers -> CallRow]
    /\ \A c \in Callers : \A k \in CallRow : k = call[c] => CallOK(k)
    /\ RequestsOK

-----------------------------------------------------------------------------
\* No call has begun.
LEMMA CallsInitially == CallsInit => CallsIInv
<1> SUFFICES ASSUME CallsInit PROVE CallsIInv
  OBVIOUS
<1>1. /\ ListingOK /\ TokensOK
      /\ client \in {"photonpay", "airwallex", "cake", "everflow"} /\ totals \in BOOLEAN
      /\ clock \in Nat /\ clock <= MaxClock
  BY CallsAssumption DEF CallsInit, ListingOK, TokensOK
<1>2. Idle \in CallRow
  BY DEF Idle, CallRow, Lists, Steps, NoReply, ReplyRow, ReplyKinds
<1>3. CallOK(Idle)
  BY <1>2 DEF CallOK, TokensKnown, Idle, NoReply, Active
<1>4. RequestsOK
  BY NoneIsNoCall DEF CallsInit, RequestsOK, Idle
<1> QED
  BY <1>1, <1>2, <1>3, <1>4 DEF CallsInit, CallsIInv

\* The invariant holds what is claimed.
LEMMA CallsImplied == CallsIInv => CallsInv
<1> SUFFICES ASSUME CallsIInv PROVE CallsInv
  OBVIOUS
<1> USE DEF CallsIInv
<1>1. OneTokenRequest
  <2>1. {c \in Callers : call[c].step = "requesting"} \subseteq {tokenRequest}
    BY DEF RequestsOK
  <2>2. Cardinality({tokenRequest}) = 1 /\ IsFiniteSet({tokenRequest})
    BY FS_Singleton
  <2> QED
    BY <2>1, <2>2, FS_Subset, FS_CardinalityType DEF OneTokenRequest
<1>2. TwoTokensRefused
  BY DEF CallOK, TwoTokensRefused
<1>3. CachedTokensAreAlive
  <2> SUFFICES ASSUME tokenCache # None, tokenCache.expiresAt > clock,
                      tokens[tokenCache.token].expiresIn > REQUEST_TIMEOUT
               PROVE  clock < tokens[tokenCache.token].until
    BY DEF CachedTokensAreAlive
  <2>1. tokenCache.token \in 1 .. Len(tokens) /\ tokenCache.expiresAt \in Nat
    BY DEF TokensOK
  <2>2. tokens[tokenCache.token] \in [expiresIn : Nat, until : Nat]
    BY <2>1, ElementOfSeq DEF TokensOK
  <2> QED
    BY <2>1, <2>2 DEF TokensOK
<1>4. CompletedListingsAreWhole
  BY DEF CallOK, CompletedListingsAreWhole
<1>5. CallsTypeOK
  <2>1. DOMAIN tokens = 1 .. Len(tokens) /\ DOMAIN listing = 1 .. Len(listing)
    BY DEF TokensOK, ListingOK
  <2>2. /\ clock \in 0 .. MaxClock
        /\ RowSet \subseteq 1 .. MaxRows
        /\ DOMAIN tokens \subseteq 1 .. MaxTokens
        /\ revoked \subseteq DOMAIN tokens
        /\ tokenCache # None => tokenCache.token \in DOMAIN tokens
    BY <2>1, CallsAssumption DEF TokensOK, ListingOK, RowSet
  <2>3. tokenRequest # None => call[tokenRequest].step = "requesting"
    BY DEF RequestsOK
  <2>4. ASSUME NEW c \in Callers
        PROVE  /\ call[c].step \in Steps
               /\ call[c].reply.kind \in ReplyKinds
               /\ NumberOr(call[c].token, DOMAIN tokens)
               /\ call[c].step = "joined" => call[call[c].waits].step = "requesting"
               /\ call[c].step = "ended" <=> call[c].result \in Results
    <3>1. CallOK(call[c]) /\ call[c] \in CallRow
      OBVIOUS
    <3>2. call[c].step = "joined" => call[call[c].waits].step = "requesting"
      BY DEF RequestsOK
    <3>4. call[c].step \in Steps /\ call[c].reply.kind \in ReplyKinds /\ call[c].result \in Results \cup {None}
      BY <3>1 DEF CallRow, ReplyRow
    <3> QED
      BY <3>1, <3>2, <3>4, <2>1, NoneIsNoCall DEF CallOK, TokensKnown, NumberOr
  <2> QED
    BY <2>2, <2>3, <2>4 DEF CallsTypeOK
<1> QED
  BY <1>1, <1>2, <1>3, <1>4, <1>5 DEF CallsInv

\* What is true of a call stays true while the provider and the clock stand still.
LEMMA SameProvider ==
  ASSUME UNCHANGED <<fixedVars, clock, listing, tokens>>, NEW k, CallOK(k)
  PROVE  CallOK(k)'
  BY DEF fixedVars, CallOK, TokensKnown, PositionOK, RefusedOK, PageOK, hasMore,
         Paged, Offset, FirstPage, RowSet, InTime

\* One call moves, the others and what they share stay.
LEMMA CallMoves ==
  ASSUME CallsIInv, UNCHANGED <<providerVars, tokenCache, tokenRequest>>,
         NEW c \in Callers, call[c].step # "requesting",
         NEW new, CallOK(new), new.step \in {"sent", "login", "ended"},
         call' = [call EXCEPT ![c] = new],
         \A d \in Callers : call[d].step = "requesting" /\ call[d].reply.token # None
            => new.token # call[d].reply.token /\ call[d].reply.token \notin new.refused
  PROVE  CallsIInv'
<1>1. new \in CallRow
  BY DEF CallOK
<1>2. call' \in [Callers -> CallRow]
  BY <1>1 DEF CallsIInv
<1>3. \A d \in Callers : \A k \in CallRow : k = call'[d] => CallOK(k)'
  BY <1>1, SameProvider DEF CallsIInv, providerVars
<1>4. RequestsOK'
  BY NoneIsNoCall DEF CallsIInv, RequestsOK, Unseen
<1>5. (ListingOK /\ TokensOK)'
  BY DEF CallsIInv, ListingOK, TokensOK, providerVars
<1> QED
  BY <1>2, <1>3, <1>4, <1>5 DEF CallsIInv, providerVars, fixedVars

\* A call with a request to make.
Ready(k) ==
    /\ k \in CallRow /\ k.result = None /\ PositionOK(k)
    /\ k.refused \subseteq 1 .. Len(tokens)
    /\ IF k.again THEN \E t \in Nat : k.refused = {t} ELSE k.refused = {}
    /\ k.token # None => k.token \in 1 .. Len(tokens)
    /\ \A d \in Callers : call[d].step = "requesting" /\ call[d].reply.token # None
            => call[d].reply.token \notin k.refused

\* Sending, joining and requesting change nothing that PositionOK looks at.
LEMMA SentIs ==
  ASSUME NEW k \in CallRow, NEW t \in Nat \cup {None}
  PROVE  LET s == Send(k, t)
         IN  /\ s \in CallRow
             /\ s.step = "sent" /\ s.token = t /\ s.reply = NoReply /\ s.waits = None
             /\ s.list = k.list /\ s.page = k.page /\ s.known = k.known /\ s.read = k.read
             /\ s.again = k.again /\ s.refused = k.refused /\ s.odd = k.odd /\ s.result = k.result
             /\ s.late = FALSE
  BY DEF Send, CallRow, NoReply, ReplyRow, ReplyKinds, Steps

\* A request sent with a token that has not been refused.
LEMMA SendingIsOK ==
  ASSUME CallsIInv, NEW k, Ready(k), NEW t \in 1 .. Len(tokens) \cup {None},
         client = "photonpay" => t # None /\ t \notin k.refused
  PROVE  CallOK(Send(k, t)) /\ Send(k, t).step = "sent" /\ Send(k, t).token = t
         /\ Send(k, t).refused = k.refused
<1> DEFINE s == Send(k, t)
<1>1. t \in Nat \cup {None} /\ k \in CallRow
  BY DEF Ready, CallsIInv, TokensOK
<1>2. /\ s \in CallRow
      /\ s.step = "sent" /\ s.token = t /\ s.reply = NoReply /\ s.waits = None
      /\ s.list = k.list /\ s.page = k.page /\ s.known = k.known /\ s.read = k.read
      /\ s.again = k.again /\ s.refused = k.refused /\ s.odd = k.odd /\ s.result = k.result
  BY <1>1, SentIs
<1> HIDE DEF s
<1>3. PositionOK(s)
  BY <1>2 DEF Ready, PositionOK, Paged, Offset, FirstPage
<1>4. RefusedOK(s)
  BY <1>2 DEF Ready, RefusedOK
<1>5. TokensKnown(s)
  BY <1>2 DEF Ready, TokensKnown, NoReply
<1>6. CallOK(s)
  BY <1>2, <1>3, <1>4, <1>5 DEF Ready, CallOK, NoReply, isInvalidAccessToken, Active
<1> QED
  BY <1>2, <1>6 DEF s

\* A call that has asked for a token or joined who did.
TokenAwaited(k, step, w) == [Send(k, None) EXCEPT !.step = step, !.waits = w]

\* A call that waits for a token, of its own request or of another's.
LEMMA WaitingIsOK ==
  ASSUME CallsIInv, client = "photonpay", NEW k, Ready(k),
         NEW step \in {"requesting", "joined"}, NEW w \in Callers \cup {None},
         NEW n, n = TokenAwaited(k, step, w)
  PROVE  CallOK(n) /\ n.step = step /\ n.waits = w /\ n.refused = k.refused /\ n.token = None
         /\ n.reply.token = None
<1> DEFINE s == Send(k, None)
<1>1. k \in CallRow
  BY DEF Ready
<1>2. /\ s \in CallRow
      /\ s.token = None /\ s.reply = NoReply
      /\ s.list = k.list /\ s.page = k.page /\ s.known = k.known /\ s.read = k.read
      /\ s.again = k.again /\ s.refused = k.refused /\ s.result = k.result
  BY <1>1, SentIs
<1> HIDE DEF s
<1>3. n = [s EXCEPT !.step = step, !.waits = w]
  BY DEF s, TokenAwaited
<1>4. /\ n \in CallRow /\ n.step = step /\ n.waits = w
      /\ n.token = None /\ n.reply = NoReply
      /\ n.list = k.list /\ n.page = k.page /\ n.known = k.known /\ n.read = k.read
      /\ n.again = k.again /\ n.refused = k.refused /\ n.result = k.result
  BY <1>2, <1>3 DEF CallRow, Steps
<1> HIDE DEF s
<1>5. PositionOK(n)
  BY <1>4 DEF Ready, PositionOK, Paged, Offset, FirstPage
<1>6. RefusedOK(n)
  BY <1>4, NoneIsNoCall DEF Ready, RefusedOK
<1>7. TokensKnown(n) /\ InTime(n)
  BY <1>4 DEF Ready, TokensKnown, InTime, NoReply
<1> QED
  BY <1>4, <1>5, <1>6, <1>7 DEF Ready, CallOK, NoReply, isInvalidAccessToken, Active

\* A caller gets a token that was not refused, joins the request in flight, or makes one.
LEMMA AccessTokenStep ==
  ASSUME CallsIInv, client = "photonpay", UNCHANGED providerVars,
         NEW c \in Callers, call[c].step # "requesting", NEW k, Ready(k),
         accessToken(c, k, k.again)
  PROVE  CallsIInv'
<1> DEFINE cached == ~ k.again /\ tokenCache # None /\ tokenCache.expiresAt > clock
<1>1. CASE cached
  <2>1. call' = [call EXCEPT ![c] = Send(k, tokenCache.token)] /\ UNCHANGED <<tokenCache, tokenRequest>>
    BY <1>1 DEF accessToken
  <2> DEFINE t == tokenCache.token
  <2>2. t \in 1 .. Len(tokens) /\ t # None /\ k.refused = {}
    BY <1>1, NoneIsNoCall DEF CallsIInv, TokensOK, Ready
  <2>3. \A d \in Callers : call[d].step = "requesting" /\ call[d].reply.token # None
           => t # call[d].reply.token
    BY <1>1 DEF CallsIInv, RequestsOK, Unseen
  <2>4. PICK new : new = Send(k, t)
    OBVIOUS
  <2>5. CallOK(new) /\ new.step = "sent" /\ new.token = t /\ new.refused = {}
    BY <2>2, <2>4, SendingIsOK
  <2> QED
    BY <2>1, <2>3, <2>4, <2>5, CallMoves
<1>2. CASE ~ cached
  <2>1. /\ tokenCache' \in {None, tokenCache}
        /\ \/ /\ tokenRequest # None /\ tokenRequest' = tokenRequest
              /\ call' = [call EXCEPT ![c] =
                            [Send(k, None) EXCEPT !.step = "joined", !.waits = tokenRequest]]
           \/ /\ tokenRequest = None /\ tokenRequest' = c
              /\ call' = [call EXCEPT ![c] = [Send(k, None) EXCEPT !.step = "requesting"]]
    BY <1>2 DEF accessToken
  <2>2. [Send(k, None) EXCEPT !.step = "requesting"] = TokenAwaited(k, "requesting", None)
    BY DEF Send, TokenAwaited
  <2>3. PICK step \in {"requesting", "joined"}, w \in Callers \cup {None} :
           /\ call' = [call EXCEPT ![c] = TokenAwaited(k, step, w)]
           /\ \/ step = "joined" /\ tokenRequest # None /\ tokenRequest' = tokenRequest /\ w = tokenRequest
              \/ step = "requesting" /\ tokenRequest = None /\ tokenRequest' = c
    BY <2>1, <2>2 DEF CallsIInv, RequestsOK, TokenAwaited
  <2>x. PICK new : new = TokenAwaited(k, step, w)
    OBVIOUS
  <2>4. CallOK(new) /\ new.step = step /\ new.waits = w /\ new.refused = k.refused
        /\ new.token = None /\ new.reply.token = None
    BY <2>3, <2>x, WaitingIsOK
  <2>5. new \in CallRow
    BY <2>4 DEF CallOK
  <2>6. call' \in [Callers -> CallRow]
    BY <2>3, <2>x, <2>5 DEF CallsIInv
  <2>7. \A d \in Callers : \A x \in CallRow : x = call'[d] => CallOK(x)'
    BY <2>3, <2>x, <2>4, <2>5, SameProvider DEF CallsIInv, providerVars
  <2>8. RequestsOK'
    BY <2>1, <2>3, <2>x, <2>4, NoneIsNoCall DEF CallsIInv, RequestsOK, Unseen, Ready
  <2>9. (ListingOK /\ TokensOK)'
    BY <2>1 DEF CallsIInv, ListingOK, TokensOK, providerVars
  <2> QED
    BY <2>6, <2>7, <2>8, <2>9 DEF CallsIInv, providerVars, fixedVars
<1> QED
  BY <1>1, <1>2

\* A call asks: with the token it has or gets, or for one.
LEMMA AskStep ==
  ASSUME CallsIInv, UNCHANGED providerVars, NEW c \in Callers, call[c].step # "requesting",
         NEW k, Ready(k), k.again = FALSE, Ask(c, k)
  PROVE  CallsIInv'
<1>1. CASE client = "photonpay"
  <2>1. accessToken(c, k, k.again)
    BY <1>1 DEF Ask
  <2> QED
    BY <1>1, <2>1, AccessTokenStep
<1>2. CASE client # "photonpay"
  <2>1. \A d \in Callers : call[d].step # "requesting"
    BY <1>2 DEF CallsIInv, CallOK
  <2>2. CASE client = "airwallex" /\ k.token = None
    <3>1. /\ call' = [call EXCEPT ![c] = [Send(k, None) EXCEPT !.step = "login"]]
          /\ UNCHANGED <<tokenCache, tokenRequest>>
      BY <2>2 DEF Ask
    <3>2. PICK s : s = Send(k, None)
      OBVIOUS
    <3>3. CallOK(s) /\ s.step = "sent" /\ s.token = None /\ s.refused = k.refused
      BY <1>2, <3>2, SendingIsOK
    <3>4. /\ s \in CallRow /\ s.reply = NoReply
          /\ s.list = k.list /\ s.page = k.page /\ s.known = k.known /\ s.read = k.read
          /\ s.again = k.again /\ s.result = k.result
      BY <3>2, SentIs DEF Ready
    <3>5. PICK n : n = [s EXCEPT !.step = "login"]
      OBVIOUS
    <3>6. /\ n \in CallRow /\ n.step = "login" /\ n.token = s.token /\ n.reply = s.reply
          /\ n.list = s.list /\ n.page = s.page /\ n.known = s.known /\ n.read = s.read
          /\ n.again = s.again /\ n.refused = s.refused /\ n.result = s.result
      BY <3>4, <3>5 DEF CallRow, Steps
    <3>7. PositionOK(n)
      BY <3>3, <3>6 DEF CallOK, Active, PositionOK, Paged, Offset, FirstPage
    <3>8. CallOK(n)
      BY <1>2, <2>2, <3>3, <3>4, <3>6, <3>7 DEF CallOK, Active, RefusedOK, TokensKnown, NoReply, isInvalidAccessToken
    <3>9. call' = [call EXCEPT ![c] = n]
      BY <3>1, <3>2, <3>5
    <3> QED
      BY <2>1, <3>1, <3>6, <3>8, <3>9, CallMoves
  <2>3. CASE ~ (client = "airwallex" /\ k.token = None)
    <3>1. PICK t \in 1 .. Len(tokens) \cup {None} :
             /\ call' = [call EXCEPT ![c] = Send(k, t)]
             /\ UNCHANGED <<tokenCache, tokenRequest>>
      BY <1>2, <2>3 DEF Ask, Ready
    <3>2. PICK s : s = Send(k, t)
      OBVIOUS
    <3>3. CallOK(s) /\ s.step = "sent"
      BY <1>2, <3>2, SendingIsOK
    <3> QED
      BY <2>1, <3>1, <3>2, <3>3, CallMoves
  <2> QED
    BY <2>2, <2>3
<1> QED
  BY <1>1, <1>2

\* The next listing begins in front of the first row.
LEMMA StartStep ==
  ASSUME CallsIInv, NEW c \in Callers, NEW list \in ClientLists[client], StartListing(c, list)
  PROVE  CallsIInv'
<1>1. list \in Lists
  BY DEF CallsIInv, ClientLists, Lists
<1>2. PICK k : k = [Idle EXCEPT !.list = list, !.page = FirstPage, !.known = RowSet]
  OBVIOUS
<1>3. RowSet \subseteq Nat
  BY DEF RowSet, CallsIInv, ListingOK
<1>4. /\ k \in CallRow /\ k.result = None /\ k.again = FALSE /\ k.refused = {} /\ k.token = None
      /\ k.page = FirstPage /\ k.known = RowSet
  BY <1>1, <1>2, <1>3 DEF Idle, CallRow, Steps, NoReply, ReplyRow, ReplyKinds, FirstPage
<1>5. PositionOK(k)
  BY <1>4, CallsAssumption DEF PositionOK, Offset, FirstPage
<1>6. Ready(k)
  BY <1>4, <1>5 DEF Ready
<1>7. Ask(c, k) /\ call[c].step # "requesting" /\ UNCHANGED providerVars
  BY <1>2 DEF StartListing
<1> QED
  BY <1>4, <1>6, <1>7, AskStep

\* What an ended call keeps.
LEMMA EndedIs ==
  ASSUME NEW k \in CallRow, NEW result \in Results
  PROVE  LET e == Ended(k, result)
         IN  /\ e \in CallRow /\ e.step = "ended" /\ e.result = result /\ e.token = None
             /\ e.reply.token = None /\ e.reply.kind = k.reply.kind /\ e.refused = k.refused
             /\ e.known = k.known \ k.read /\ e.odd = k.odd /\ e.list = k.list
  BY DEF Ended, CallRow, NoReply, ReplyRow, Steps

\* A call may end with its rows read, with an error, or with an odd answer.
LEMMA EndingIsOK ==
  ASSUME CallsIInv, NEW k \in CallRow, k.refused \subseteq 1 .. Len(tokens), NEW result \in Results,
         client = "photonpay" /\ isInvalidAccessToken(k.reply.kind) /\ k.refused # {}
            => Cardinality(k.refused) = 2,
         result = "completed" /\ ~ k.odd /\ k.list # "holders" => k.known \subseteq k.read,
         NEW e, e = Ended(k, result)
  PROVE  CallOK(e) /\ e.step = "ended" /\ e.token = None /\ e.refused = k.refused
<1>1. /\ e \in CallRow /\ e.step = "ended" /\ e.result = result /\ e.token = None
      /\ e.reply.token = None /\ e.reply.kind = k.reply.kind /\ e.refused = k.refused
      /\ e.known = k.known \ k.read /\ e.odd = k.odd /\ e.list = k.list
  BY EndedIs
<1> QED
  BY <1>1, NoneIsNoCall DEF CallOK, TokensKnown, Active

\* What is known of a call and of a token on its way.
LEMMA CallKnown ==
  ASSUME CallsIInv, NEW c \in Callers
  PROVE  /\ call[c] \in CallRow /\ CallOK(call[c])
         /\ \A d \in Callers : call[d].step = "requesting" /\ call[d].reply.token # None
               => call[c].token # call[d].reply.token /\ call[d].reply.token \notin call[c].refused
  BY DEF CallsIInv, RequestsOK, Unseen

\* Pages are counted from zero or one, and hold rows.
LEMMA PagesAreNumbers == FirstPage \in Nat /\ RowsPerPage \in Nat /\ RowsPerPage > 0
  BY CallsAssumption DEF FirstPage

\* The page after begins where this one ends.
LEMMA NextPage ==
  ASSUME CallsIInv, NEW k \in CallRow, PositionOK(k), PageOK(k), Paged(k), NEW n \in CallRow,
         n.page = k.page + 1, n.known = k.known, n.read = k.read \cup k.reply.rows, n.list = k.list
  PROVE  PositionOK(n)
<1>1. k.page \in Nat /\ n.page \in Nat
  BY DEF CallRow
<1>2. Offset(n) = Offset(k) + RowsPerPage
  BY <1>1, PagesAreNumbers DEF Offset
<1>3. n.page >= FirstPage
  BY <1>1, PagesAreNumbers DEF PositionOK
<1> QED
  BY <1>2, <1>3 DEF PositionOK, PageOK, Paged

\* A page has arrived.
LEMMA PageStep ==
  ASSUME CallsIInv, NEW c \in Callers, TakePage(c)
  PROVE  CallsIInv'
<1> DEFINE k == call[c]
<1>1. /\ k \in CallRow /\ CallOK(k) /\ k.step = "sent" /\ k.reply.kind = "rows"
      /\ UNCHANGED <<providerVars, calls>>
  BY CallKnown DEF TakePage
<1>2. PositionOK(k) /\ PageOK(k) /\ TokensKnown(k) /\ k.result = None
  BY <1>1 DEF CallOK, Active
<1>3. PICK read : read = [k EXCEPT !.read = @ \cup k.reply.rows]
  OBVIOUS
<1>4. PICK next : next = [read EXCEPT !.page = @ + 1, !.again = FALSE, !.refused = {}]
  OBVIOUS
<1>5. /\ read \in CallRow /\ read.read = k.read \cup k.reply.rows /\ read.known = k.known
      /\ read.refused = k.refused /\ read.reply = k.reply /\ read.odd = k.odd /\ read.list = k.list
      /\ read.page = k.page /\ read.result = k.result /\ read.token = k.token
  BY <1>1, <1>3 DEF CallRow, ReplyRow
<1>6. /\ next \in CallRow /\ next.read = read.read /\ next.known = k.known /\ next.list = k.list
      /\ next.refused = {} /\ next.again = FALSE /\ next.page = k.page + 1
      /\ next.result = k.result /\ next.token = k.token
  <2>1. PICK paged : paged = [read EXCEPT !.page = @ + 1]
    OBVIOUS
  <2>2. /\ paged \in CallRow /\ paged.read = read.read /\ paged.known = k.known /\ paged.list = k.list
        /\ paged.page = k.page + 1 /\ paged.result = k.result /\ paged.token = k.token
    BY <1>5, <2>1 DEF CallRow
  <2>3. next = [paged EXCEPT !.again = FALSE, !.refused = {}]
    BY <1>4, <1>5, <2>1 DEF CallRow
  <2> HIDE DEF k
  <2> QED
    BY <2>2, <2>3 DEF CallRow
<1> HIDE DEF k
<1>7. ~ isInvalidAccessToken(k.reply.kind)
  BY <1>1 DEF isInvalidAccessToken
<1>8. CASE /\ Paged(k) /\ Ask(c, next)
  <2>1. PositionOK(next)
    BY <1>1, <1>2, <1>5, <1>6, <1>8, NextPage
  <2>2. Ready(next)
    BY <1>2, <1>6, <2>1 DEF Ready, TokensKnown
  <2> QED
    BY <1>1, <1>6, <1>8, <2>2, AskStep DEF k
<1>9. CASE \E result \in Results :
              /\ call' = [call EXCEPT ![c] = Ended(read, result)]
              /\ UNCHANGED <<tokenCache, tokenRequest>>
              /\ result = "completed" /\ ~ read.odd /\ read.list # "holders" => read.known \subseteq read.read
  <2>1. PICK result \in Results :
              /\ call' = [call EXCEPT ![c] = Ended(read, result)]
              /\ UNCHANGED <<tokenCache, tokenRequest>>
              /\ result = "completed" /\ ~ read.odd /\ read.list # "holders" => read.known \subseteq read.read
    BY <1>9
  <2>2. PICK e : e = Ended(read, result)
    OBVIOUS
  <2>3. CallOK(e) /\ e.step = "ended" /\ e.token = None /\ e.refused = k.refused
    BY <1>2, <1>5, <1>7, <2>1, <2>2, EndingIsOK DEF TokensKnown
  <2>4. \A d \in Callers : call[d].step = "requesting" /\ call[d].reply.token # None
               => e.token # call[d].reply.token /\ call[d].reply.token \notin e.refused
    BY <2>3, CallKnown DEF k
  <2>5. call' = [call EXCEPT ![c] = e] /\ call[c].step # "requesting"
    BY <1>1, <2>1, <2>2 DEF k
  <2> QED
    BY <1>1, <2>1, <2>3, <2>4, <2>5, CallMoves
<1> QED
  <2>1. CASE Paged(k) /\ Ask(c, next)
    BY <1>8, <2>1
  <2>2. CASE call' = [call EXCEPT ![c] = Ended(read, "BUSINESS_REJECTED")] /\ UNCHANGED <<tokenCache, tokenRequest>>
    BY <1>9, <2>2 DEF Results, Categories
  <2>3. CASE /\ ~ (Paged(k) /\ hasMore(k) /\ k.reply.rows # {}) \/ k.list = "holders"
             /\ call' = [call EXCEPT ![c] = Ended(read, "completed")]
             /\ UNCHANGED <<tokenCache, tokenRequest>>
    <3>1. read.list # "holders" => read.known \subseteq read.read
      BY <1>2, <1>5, <2>3 DEF PageOK
    <3> QED
      BY <1>9, <2>3, <3>1 DEF Results
  <2> QED
    BY <1>3, <1>4, <2>1, <2>2, <2>3 DEF TakePage, k

\* An answer of an unknown shape ends a listing.
LEMMA OddStep ==
  ASSUME CallsIInv, NEW c \in Callers, TakeOdd(c)
  PROVE  CallsIInv'
<1> DEFINE k == call[c]
<1>1. k \in CallRow /\ CallOK(k) /\ k.step = "sent" /\ k.reply.kind = "odd"
  BY CallKnown DEF TakeOdd
<1>2. PICK odd : odd = [k EXCEPT !.odd = TRUE]
  OBVIOUS
<1>3. odd \in CallRow /\ odd.odd = TRUE /\ odd.refused = k.refused /\ odd.reply = k.reply
  BY <1>1, <1>2 DEF CallRow
<1>4. PICK e : e = Ended(odd, "completed")
  OBVIOUS
<1>5. CallOK(e) /\ e.step = "ended" /\ e.token = None /\ e.refused = k.refused
  <2>1. "completed" \in Results /\ ~ isInvalidAccessToken(odd.reply.kind) /\ odd.refused \subseteq 1 .. Len(tokens)
    BY <1>1, <1>3 DEF Results, isInvalidAccessToken, CallOK, TokensKnown
  <2> QED
    BY <1>3, <1>4, <2>1, EndingIsOK
<1>6. call' = [call EXCEPT ![c] = e] /\ UNCHANGED <<tokenCache, tokenRequest, providerVars>>
  BY <1>2, <1>4 DEF TakeOdd
<1>7. \A d \in Callers : call[d].step = "requesting" /\ call[d].reply.token # None
               => e.token # call[d].reply.token /\ call[d].reply.token \notin e.refused
  BY <1>5, CallKnown
<1> QED
  BY <1>1, <1>5, <1>6, <1>7, CallMoves

\* A refused token is replaced once; what else stops a call ends it.
LEMMA ErrorStep ==
  ASSUME CallsIInv, NEW c \in Callers, TakeError(c)
  PROVE  CallsIInv'
<1> DEFINE k == call[c]
           invalid == isInvalidAccessToken(k.reply.kind)
<1>1. /\ k \in CallRow /\ CallOK(k) /\ k.step = "sent" /\ k.reply.kind \notin {"none", "rows", "odd"}
      /\ UNCHANGED <<providerVars, calls>>
      /\ \A d \in Callers : call[d].step = "requesting" /\ call[d].reply.token # None
               => k.token # call[d].reply.token /\ call[d].reply.token \notin k.refused
  BY CallKnown DEF TakeError
<1>2. PositionOK(k) /\ RefusedOK(k) /\ TokensKnown(k) /\ k.result = None /\ (invalid => k.token # None)
  BY <1>1 DEF CallOK, Active
<1>3. PICK noted : noted = IF invalid THEN [k EXCEPT !.refused = @ \cup {k.token}] ELSE k
  OBVIOUS
<1>4. \/ /\ client = "photonpay" /\ ~ k.again /\ invalid
         /\ accessToken(c, [noted EXCEPT !.again = TRUE], TRUE)
      \/ /\ ~ (client = "photonpay" /\ ~ k.again /\ invalid)
         /\ call' = [call EXCEPT ![c] = Ended(noted, errorCategory(k.reply.kind))]
         /\ UNCHANGED <<tokenCache, tokenRequest>>
  BY <1>3 DEF TakeError, RetryOnce
<1> HIDE DEF k, invalid
<1>5. k.token \in Nat \cup {None} /\ k.refused \in SUBSET Nat
  BY <1>1 DEF CallRow
<1>6. /\ noted \in CallRow /\ noted.reply = k.reply /\ noted.result = None /\ noted.page = k.page
      /\ noted.list = k.list /\ noted.known = k.known /\ noted.read = k.read /\ noted.odd = k.odd
      /\ noted.token = k.token /\ noted.again = k.again
      /\ noted.refused = IF invalid THEN k.refused \cup {k.token} ELSE k.refused
  BY <1>1, <1>2, <1>3, <1>5 DEF CallRow
<1>7. noted.refused \subseteq 1 .. Len(tokens)
  BY <1>2, <1>6 DEF TokensKnown
<1>8. CASE /\ client = "photonpay" /\ ~ k.again /\ invalid
           /\ accessToken(c, [noted EXCEPT !.again = TRUE], TRUE)
  <2>1. PICK n : n = [noted EXCEPT !.again = TRUE]
    OBVIOUS
  <2>2. /\ n \in CallRow /\ n.result = None /\ n.page = k.page
        /\ n.list = k.list /\ n.known = k.known /\ n.read = k.read
        /\ n.token = k.token /\ n.again = TRUE /\ n.refused = noted.refused
    BY <1>6, <2>1 DEF CallRow
  <2>3. n.refused = {k.token} /\ k.token \in Nat
    BY <1>2, <1>5, <1>6, <1>8, <2>2 DEF RefusedOK
  <2>4. PositionOK(n)
    BY <1>2, <2>2 DEF PositionOK, Paged, Offset
  <2>5. Ready(n)
    BY <1>1, <1>2, <1>7, <2>2, <2>3, <2>4 DEF Ready, TokensKnown
  <2>6. accessToken(c, n, n.again)
    BY <1>8, <2>1, <2>2
  <2>7. call[c].step # "requesting"
    BY <1>1 DEF k
  <2> QED
    BY <1>1, <1>8, <2>5, <2>6, <2>7, AccessTokenStep
<1>9. CASE /\ ~ (client = "photonpay" /\ ~ k.again /\ invalid)
           /\ call' = [call EXCEPT ![c] = Ended(noted, errorCategory(k.reply.kind))]
           /\ UNCHANGED <<tokenCache, tokenRequest>>
  <2>1. PICK result : result = errorCategory(k.reply.kind)
    OBVIOUS
  <2>2. result \in Results /\ result # "completed"
    BY <2>1 DEF errorCategory, Results, Categories
  <2>3. client = "photonpay" /\ invalid => Cardinality(noted.refused) = 2
    <3>1. SUFFICES ASSUME client = "photonpay", invalid PROVE Cardinality(noted.refused) = 2
      OBVIOUS
    <3>2. PICK t \in Nat : k.refused = {t} /\ k.token # t
      BY <1>2, <1>9, <3>1 DEF RefusedOK
    <3>3. noted.refused = {t} \cup {k.token} /\ k.token \notin {t}
      BY <1>6, <3>1, <3>2
    <3>4. IsFiniteSet({t}) /\ Cardinality({t}) = 1
      BY FS_Singleton
    <3>5. Cardinality({t} \cup {k.token}) = Cardinality({t}) + 1
      BY <3>3, <3>4, FS_AddElement
    <3> QED
      BY <3>3, <3>4, <3>5
  <2>4. PICK e : e = Ended(noted, result)
    OBVIOUS
  <2>5. CallOK(e) /\ e.step = "ended" /\ e.token = None /\ e.refused = noted.refused
    BY <1>6, <1>7, <2>2, <2>3, <2>4, EndingIsOK DEF invalid
  <2>6. call' = [call EXCEPT ![c] = e] /\ call[c].step # "requesting"
    BY <1>1, <1>9, <2>1, <2>4 DEF k
  <2>7. \A d \in Callers : call[d].step = "requesting" /\ call[d].reply.token # None
               => e.token # call[d].reply.token /\ call[d].reply.token \notin e.refused
    BY <1>1, <1>6, <2>5
  <2> QED
    BY <1>1, <1>9, <2>5, <2>6, <2>7, CallMoves
<1> QED
  BY <1>4, <1>8, <1>9

\* What stops a login or a token request.
LEMMA TokenErrors == \A kind : tokenErrorCategory(kind) \in Categories
  BY DEF tokenErrorCategory, errorCategory, Categories

\* A login gives the token of its answer or ends.
LEMMA LoginStep ==
  ASSUME CallsIInv, NEW c \in Callers, login(c)
  PROVE  CallsIInv'
<1> DEFINE k == call[c]
<1>1. /\ k \in CallRow /\ CallOK(k) /\ k.step = "login" /\ client = "airwallex"
      /\ UNCHANGED <<tokenCache, tokenRequest, providerVars>>
      /\ call' = [call EXCEPT ![c] = IF k.reply.token = None THEN Ended(k, tokenErrorCategory(k.reply.kind))
                                     ELSE Send(k, k.reply.token)]
  BY CallKnown DEF login, CallOK
<1>2. \A d \in Callers : call[d].step # "requesting"
  BY <1>1 DEF CallsIInv, CallOK
<1>3. call[c].step # "requesting"
  BY <1>2
<1> HIDE DEF k
<1>4. /\ PositionOK(k) /\ TokensKnown(k) /\ k.result = None /\ k.again \in BOOLEAN
      /\ ~ isInvalidAccessToken(k.reply.kind)
  BY <1>1 DEF CallOK, Active, CallRow
<1>5. PICK n : n = IF k.reply.token = None THEN Ended(k, tokenErrorCategory(k.reply.kind))
                   ELSE Send(k, k.reply.token)
  OBVIOUS
<1>6. CallOK(n) /\ n.step \in {"ended", "sent"}
  <2>1. CASE k.reply.token = None
    <3>1. PICK result : result = tokenErrorCategory(k.reply.kind)
      OBVIOUS
    <3>2. result \in Results /\ result # "completed"
      BY <3>1, TokenErrors DEF Results, Categories
    <3>3. n = Ended(k, result)
      BY <1>5, <2>1, <3>1
    <3> QED
      BY <1>1, <1>4, <3>2, <3>3, EndingIsOK DEF TokensKnown
  <2>2. CASE k.reply.token # None
    <3>1. k.reply.token \in 1 .. Len(tokens)
      BY <1>4, <2>2 DEF TokensKnown
    <3>2. PICK t \in 1 .. Len(tokens) : t = k.reply.token
      BY <3>1
    <3>3. n = Send(k, t)
      BY <1>5, <2>2, <3>2
    <3>4. k.reply.kind \in ReplyKinds
      BY <1>1 DEF CallRow, ReplyRow
    <3>5. /\ n \in CallRow
          /\ n.step = "sent" /\ n.token = t /\ n.reply = NoReply
          /\ n.list = k.list /\ n.page = k.page /\ n.known = k.known /\ n.read = k.read
          /\ n.refused = k.refused /\ n.result = k.result
      <4>1. t \in Nat \cup {None}
        BY DEF CallsIInv, TokensOK
      <4> QED
        BY <1>1, <3>3, <4>1, SentIs
    <3>6. PositionOK(n)
      BY <1>4, <3>5 DEF PositionOK, Paged, Offset
    <3> QED
      BY <1>1, <1>4, <3>5, <3>6 DEF CallOK, Active, TokensKnown, RefusedOK, NoReply, isInvalidAccessToken
  <2> QED
    BY <2>1, <2>2
<1>7. call' = [call EXCEPT ![c] = n]
  BY <1>1, <1>5
<1> QED
  BY <1>1, <1>2, <1>3, <1>6, <1>7, CallMoves

\* How long a token is cached.
LEMMA CacheLifetime ==
  ASSUME NEW e \in Nat
  PROVE  cacheLifetime(e) \in Nat /\ (e > REQUEST_TIMEOUT => cacheLifetime(e) + REQUEST_TIMEOUT <= e)
<1> DEFINE tenth == e \div 10
<1>1. tenth \in Nat
  OBVIOUS
<1> HIDE DEF tenth
<1>2. cacheLifetime(e) = Greatest(1, e - Least(300, Greatest(60, tenth)))
  BY DEF cacheLifetime, tenth
<1> QED
  BY <1>1, <1>2 DEF Greatest, Least, REQUEST_TIMEOUT

\* What a caller goes on with when the token request it waits for is over.
TokenOrError(k, reply) ==
    IF reply.token = None THEN Ended([k EXCEPT !.reply = reply], tokenErrorCategory(reply.kind))
    ELSE Send(k, reply.token)

\* A caller sends with the token that arrives, or ends.
LEMMA TokenArrives ==
  ASSUME CallsIInv, client = "photonpay", NEW c \in Callers, call[c].step = "requesting",
         NEW d \in Callers, call[d].step \in {"requesting", "joined"},
         NEW n, n = TokenOrError(call[d], call[c].reply)
  PROVE  CallOK(n) /\ n.step \in {"ended", "sent"}
<1> DEFINE k == call[d]
           r == call[c].reply
<1>1. /\ k \in CallRow /\ CallOK(k) /\ r \in ReplyRow /\ ~ isInvalidAccessToken(r.kind)
      /\ r.token # None => r.token \in 1 .. Len(tokens) /\ r.token \notin k.refused
  <2>1. CallOK(call[c])
    BY CallKnown
  <2> QED
    BY <2>1, CallKnown DEF CallOK, Active, TokensKnown, CallRow
<1>2. PositionOK(k) /\ TokensKnown(k) /\ k.result = None /\ RefusedOK(k) /\ k.again \in BOOLEAN
      /\ k.token = None
  BY <1>1 DEF CallOK, Active, CallRow
<1>3. \A e \in Callers : call[e].step = "requesting" => e = c
  BY DEF CallsIInv, RequestsOK
<1> HIDE DEF k, r
<1>4. CASE r.token = None
  <2>1. PICK result : result = tokenErrorCategory(r.kind)
    OBVIOUS
  <2>2. result \in Results /\ result # "completed"
    BY <2>1, TokenErrors DEF Results, Categories
  <2>3. PICK m : m = [k EXCEPT !.reply = r]
    OBVIOUS
  <2>4. m \in CallRow /\ m.reply = r /\ m.refused = k.refused
    BY <1>1, <2>3 DEF CallRow
  <2>5. n = Ended(m, result)
    BY <1>4, <2>1, <2>3 DEF TokenOrError, k, r
  <2> QED
    BY <1>1, <1>2, <2>2, <2>4, <2>5, EndingIsOK DEF TokensKnown
<1>5. CASE r.token # None
  <2>1. PICK t \in 1 .. Len(tokens) : t = r.token
    BY <1>1, <1>5
  <2>2. t # None /\ t \notin k.refused
    BY <1>1, <1>5, <2>1
  <2>3. n = Send(k, t)
    BY <1>5, <2>1 DEF TokenOrError, k, r
  <2>4. Ready(k)
    BY <1>1, <1>2, <1>3, <1>5 DEF Ready, TokensKnown, RefusedOK, r
  <2> QED
    BY <2>2, <2>3, <2>4, SendingIsOK
<1> QED
  BY <1>4, <1>5

\* The answer to the token request reaches everyone who waits for it.
LEMMA TokenStep ==
  ASSUME CallsIInv, NEW c \in Callers, requestAccessToken(c)
  PROVE  CallsIInv'
<1> DEFINE all == Waiting(c) \cup {c}
           t == call[c].reply.token
<1>1. /\ call[c].step = "requesting" /\ client = "photonpay" /\ tokenRequest = c
      /\ UNCHANGED providerVars
  BY CallKnown DEF requestAccessToken, CallOK, CallsIInv, RequestsOK
<1>2. call' = [d \in Callers |-> IF d \in all THEN TokenOrError(call[d], call[c].reply) ELSE call[d]]
  BY DEF requestAccessToken, TokenOrError
<1>3. tokenCache' = (IF t = None THEN tokenCache
                     ELSE [token |-> t, expiresAt |-> clock + cacheLifetime(tokens[t].expiresIn)])
  BY DEF requestAccessToken
<1>4. tokenRequest' = None
  BY <1>1 DEF requestAccessToken, requestDone
<1>5. \A d \in Callers : d \in all <=> call[d].step \in {"requesting", "joined"}
  BY <1>1, NoneIsNoCall DEF Waiting, CallsIInv, RequestsOK
<1> HIDE DEF all
<1>6. ASSUME NEW d \in Callers
      PROVE  /\ call'[d] \in CallRow /\ call'[d].step \notin {"requesting", "joined"}
             /\ \A x \in CallRow : x = call'[d] => CallOK(x)'
  <2>1. CASE d \in all
    <3>1. PICK n : n = TokenOrError(call[d], call[c].reply)
      OBVIOUS
    <3>2. CallOK(n) /\ n.step \in {"ended", "sent"}
      BY <1>1, <1>5, <2>1, <3>1, TokenArrives
    <3>3. call'[d] = n
      BY <1>2, <2>1, <3>1
    <3>4. n \in CallRow
      BY <3>2 DEF CallOK
    <3> QED
      BY <1>1, <3>2, <3>3, <3>4, SameProvider DEF providerVars
  <2>2. CASE d \notin all
    <3>1. call'[d] = call[d]
      BY <1>2, <2>2
    <3> QED
      BY <1>1, <1>5, <2>2, <3>1, SameProvider DEF providerVars, CallsIInv
  <2> QED
    BY <2>1, <2>2
<1>7. call' \in [Callers -> CallRow]
  BY <1>2, <1>6
<1>8. RequestsOK'
  BY <1>4, <1>6, NoneIsNoCall DEF RequestsOK
<1>9. (ListingOK /\ TokensOK)'
  <2>1. CASE t = None
    BY <1>1, <1>3, <2>1 DEF CallsIInv, ListingOK, TokensOK, providerVars
  <2>2. CASE t # None
    <3>1. t \in 1 .. Len(tokens) /\ InTime(call[c]) /\ clock \in Nat
      BY <1>1, <2>2, CallKnown DEF CallOK, TokensKnown, CallsIInv
    <3>2. PICK row \in [expiresIn : Nat, until : Nat] : row = tokens[t]
      BY <3>1, ElementOfSeq DEF CallsIInv, TokensOK
    <3>3. clock <= row.until - row.expiresIn + REQUEST_TIMEOUT
      BY <2>2, <3>1, <3>2 DEF InTime
    <3>4. PICK life \in Nat : /\ life = cacheLifetime(row.expiresIn)
                              /\ row.expiresIn > REQUEST_TIMEOUT => life + REQUEST_TIMEOUT <= row.expiresIn
      BY <3>2, CacheLifetime
    <3>5. tokenCache' = [token |-> t, expiresAt |-> clock + life]
      BY <1>3, <2>2, <3>2, <3>4
    <3>6. row.expiresIn > REQUEST_TIMEOUT => clock + life <= row.until
      <4>1. row.expiresIn \in Nat /\ row.until \in Nat
        BY <3>2
      <4> QED
        BY <4>1, <3>1, <3>3, <3>4 DEF REQUEST_TIMEOUT
    <3>7. tokenCache' \in [token : 1 .. Len(tokens), expiresAt : Nat]
      BY <3>1, <3>4, <3>5
    <3>8. tokenCache'.token = t /\ tokenCache'.expiresAt = clock + life
      BY <3>5
    <3> QED
      BY <1>1, <3>2, <3>6, <3>7, <3>8 DEF CallsIInv, ListingOK, TokensOK, providerVars
  <2> QED
    BY <2>1, <2>2
<1> QED
  BY <1>1, <1>6, <1>7, <1>8, <1>9 DEF CallsIInv, providerVars, fixedVars

\* An answer on its way changes nothing else.
LEMMA ReplyStep ==
  ASSUME CallsIInv, UNCHANGED <<providerVars, tokenCache, tokenRequest>>,
         NEW c \in Callers, NEW new, CallOK(new),
         call' = [call EXCEPT ![c] = new],
         new.step = call[c].step, new.waits = call[c].waits, new.token = call[c].token,
         new.refused = call[c].refused, new.reply.token = None
  PROVE  CallsIInv'
<1>1. new \in CallRow
  BY DEF CallOK
<1>2. call' \in [Callers -> CallRow]
  BY <1>1 DEF CallsIInv
<1>3. \A d \in Callers : \A k \in CallRow : k = call'[d] => CallOK(k)'
  BY <1>1, SameProvider DEF CallsIInv, providerVars
<1>4. RequestsOK'
  BY NoneIsNoCall DEF CallsIInv, RequestsOK, Unseen
<1>5. (ListingOK /\ TokensOK)'
  BY DEF CallsIInv, ListingOK, TokensOK, providerVars
<1> QED
  BY <1>2, <1>3, <1>4, <1>5 DEF CallsIInv, providerVars, fixedVars

\* A call with another answer.
LEMMA RepliedIs ==
  ASSUME NEW k \in CallRow, NEW r \in ReplyRow, NEW n, n = [k EXCEPT !.reply = r]
  PROVE  /\ n \in CallRow /\ n.reply = r
         /\ n.step = k.step /\ n.waits = k.waits /\ n.token = k.token /\ n.refused = k.refused
         /\ n.list = k.list /\ n.page = k.page /\ n.known = k.known /\ n.read = k.read
         /\ n.again = k.again /\ n.result = k.result /\ n.odd = k.odd /\ n.late = k.late
  BY DEF CallRow

\* It is as good as the answer.
LEMMA RepliedIsOK ==
  ASSUME NEW k, CallOK(k), NEW r \in ReplyRow, NEW n, n = [k EXCEPT !.reply = r],
         k.step \in {"requesting", "login", "sent"},
         r.token # None => r.token \in 1 .. Len(tokens),
         k.step = "sent" /\ r.kind = "rows" => PageOK(n),
         isInvalidAccessToken(r.kind) => k.step = "sent" /\ k.token # None,
         k.step = "requesting" => InTime(n)
  PROVE  CallOK(n)
<1>1. /\ n \in CallRow /\ n.reply = r
      /\ n.step = k.step /\ n.waits = k.waits /\ n.token = k.token /\ n.refused = k.refused
      /\ n.list = k.list /\ n.page = k.page /\ n.known = k.known /\ n.read = k.read
      /\ n.again = k.again /\ n.result = k.result /\ n.odd = k.odd /\ n.late = k.late
  BY RepliedIs DEF CallOK
<1>2. PositionOK(n) /\ RefusedOK(n)
  BY <1>1 DEF CallOK, Active, PositionOK, RefusedOK, Paged, Offset
<1> QED
  BY <1>1, <1>2 DEF CallOK, Active, TokensKnown

\* An error in place of an answer.
LEMMA FailureStep ==
  ASSUME CallsIInv, NEW c \in Callers, AnswerFailure(c) \/ AnswerInvalid(c)
  PROVE  CallsIInv'
<1> DEFINE k == call[c]
<1>1. PICK kind \in ReplyKinds \ {"rows"} :
         /\ Reply(c, kind, {}, None, None)
         /\ isInvalidAccessToken(kind) => k.step = "sent" /\ k.token # None
  BY InterruptionsAssumption DEF AnswerFailure, AnswerInvalid, ReplyKinds, FailureKinds, isInvalidAccessToken
<1>2. k.step \in {"requesting", "login", "sent"} /\ UNCHANGED <<providerVars, tokenCache, tokenRequest>>
  BY DEF AnswerFailure, AnswerInvalid, Asked
<1>3. PICK r : r = [kind |-> kind, rows |-> {}, total |-> None, token |-> None]
  OBVIOUS
<1>4. r \in ReplyRow /\ r.kind = kind /\ r.token = None
  BY <1>3 DEF ReplyRow
<1>5. PICK n : n = [k EXCEPT !.reply = r]
  OBVIOUS
<1>6. k \in CallRow /\ CallOK(k)
  BY CallKnown
<1>7. call' = [call EXCEPT ![c] = n]
  BY <1>1, <1>3, <1>5, <1>6 DEF Reply, CallsIInv
<1>8. n.reply = r /\ n.step = k.step /\ n.waits = k.waits /\ n.token = k.token /\ n.refused = k.refused
  BY <1>4, <1>5, <1>6, RepliedIs
<1>9. CallOK(n)
  BY <1>1, <1>2, <1>4, <1>5, <1>6, <1>8, RepliedIsOK DEF InTime
<1> HIDE DEF k
<1> QED
  BY <1>2, <1>4, <1>7, <1>8, <1>9, ReplyStep DEF k

\* A page that is not full is the last: it ends with the listing.
LEMMA FullPage ==
  ASSUME CallsIInv, NEW from \in Nat, from + RowsPerPage <= Len(listing)
  PROVE  LET rows == {listing[i] : i \in (from + 1) .. (from + RowsPerPage)}
         IN  Cardinality(rows) = RowsPerPage /\ rows # {}
<1> DEFINE places == (from + 1) .. (from + RowsPerPage)
           rows == {listing[i] : i \in places}
           f == [i \in places |-> listing[i]]
<1>1. places \subseteq 1 .. Len(listing) /\ from + 1 \in places
  BY PagesAreNumbers DEF CallsIInv, ListingOK
<1>2. IsFiniteSet(places) /\ Cardinality(places) = RowsPerPage
  <2>1. from + 1 \in Int /\ from + RowsPerPage \in Int
    BY PagesAreNumbers
  <2> QED
    BY <2>1, FS_Interval, PagesAreNumbers
<1>3. \A i, j \in places : listing[i] = listing[j] => i = j
  BY <1>1 DEF CallsIInv, ListingOK
<1> HIDE DEF places
<1>4. f \in Bijection(places, rows)
  BY <1>3 DEF Bijection, Injection, IsInjective, Surjection
<1>5. ExistsBijection(places, rows)
  BY <1>4 DEF ExistsBijection
<1>6. Cardinality(rows) = RowsPerPage
  BY <1>2, <1>5, FS_Bijection
<1> QED
  BY <1>1, <1>6 DEF places

\* The number of rows a call has asked for up to its page.
LEMMA OffsetIs ==
  ASSUME CallsIInv, NEW k \in CallRow, PositionOK(k)
  PROVE  /\ Offset(k) \in Nat
         /\ (IF client = "airwallex" THEN k.page + 1 ELSE k.page) * RowsPerPage = Offset(k) + RowsPerPage
<1>1. k.page \in Nat /\ k.page - FirstPage \in Nat
  BY PagesAreNumbers DEF CallRow, PositionOK
<1>2. Offset(k) \in Nat
  BY <1>1, PagesAreNumbers DEF Offset
<1> QED
  BY <1>1, <1>2, PagesAreNumbers DEF Offset, FirstPage

\* The answer holds the rows of the page as the listing stands.
LEMMA AnsweredPage ==
  ASSUME CallsIInv, NEW k \in CallRow, PositionOK(k), NEW n \in CallRow,
         n.list = k.list, n.page = k.page, n.known = k.known, n.read = k.read,
         n.reply.rows = PageRows(k), n.reply.total \in {None, Len(listing)}
  PROVE  PageOK(n)
<1>1. CASE ~ Paged(k)
  BY <1>1 DEF PageOK, Paged, PageRows, PositionOK
<1>2. CASE Paged(k)
  <2> DEFINE from == Offset(k)
             all == Len(listing)
  <2>1. /\ from \in Nat /\ all \in Nat /\ RowsPerPage \in Nat /\ RowsPerPage > 0 /\ Offset(n) = from
        /\ (IF client = "airwallex" THEN n.page + 1 ELSE n.page) * RowsPerPage = from + RowsPerPage
    BY OffsetIs, PagesAreNumbers DEF CallsIInv, ListingOK, Offset
  <2>2. n.reply.rows = {listing[i] : i \in (from + 1) .. Least(from + RowsPerPage, all)}
    BY <1>2 DEF PageRows
  <2>3. \A i \in 1 .. all : listing[i] \in k.known \ k.read => i > from
    BY <1>2 DEF PositionOK
  <2> HIDE DEF from, all
  <2>4. \A i \in 1 .. all :
           listing[i] \in n.known \ (n.read \cup n.reply.rows) => i > from + RowsPerPage
    <3> SUFFICES ASSUME NEW i \in 1 .. all, listing[i] \in k.known \ k.read, i <= from + RowsPerPage
                 PROVE  listing[i] \in n.reply.rows
      BY <2>1
    <3>1. i \in (from + 1) .. Least(from + RowsPerPage, all)
      BY <2>1, <2>3 DEF Least
    <3> QED
      BY <2>2, <3>1
  <2>5. ASSUME NEW x \in n.known, x \notin n.read \cup n.reply.rows
        PROVE  hasMore(n) /\ n.reply.rows # {}
    <3>1. PICK i \in 1 .. all : listing[i] = x
      BY <2>5 DEF PositionOK, RowSet, CallsIInv, ListingOK, all
    <3>2. from + RowsPerPage < all
      BY <2>1, <2>4, <2>5, <3>1
    <3>3. Least(from + RowsPerPage, all) = from + RowsPerPage
      BY <3>2 DEF Least
    <3>4. Cardinality(n.reply.rows) = RowsPerPage /\ n.reply.rows # {}
      <4>1. n.reply.rows = {listing[j] : j \in (from + 1) .. (from + RowsPerPage)}
        BY <2>2, <3>3
      <4>2. from + RowsPerPage <= Len(listing)
        BY <2>1, <3>2 DEF all
      <4> QED
        BY <2>1, <4>1, <4>2, FullPage
    <3> QED
      BY <2>1, <3>2, <3>4, NoneIsNoCall DEF hasMore, all
  <2> QED
    BY <1>2, <2>1, <2>4, <2>5 DEF PageOK, Paged, all
<1> QED
  BY <1>1, <1>2

\* The provider answers with a page.
LEMMA RowsStep ==
  ASSUME CallsIInv, NEW c \in Callers, AnswerRows(c)
  PROVE  CallsIInv'
<1> DEFINE k == call[c]
<1>1. k.step = "sent" /\ UNCHANGED <<providerVars, tokenCache, tokenRequest>>
  BY DEF AnswerRows
<1>2. k \in CallRow /\ CallOK(k) /\ PositionOK(k)
  BY <1>1, CallKnown DEF CallOK, Active
<1>3. PICK r : r = [kind |-> "rows", rows |-> PageRows(k),
                    total |-> IF totals THEN Len(listing) ELSE None, token |-> None]
  OBVIOUS
<1>4. PageRows(k) \subseteq Nat
  <2>1. RowSet \subseteq Nat
    BY DEF RowSet, CallsIInv, ListingOK
  <2>2. (Offset(k) + 1) .. Least(Offset(k) + RowsPerPage, Len(listing)) \subseteq 1 .. Len(listing)
    BY <1>2, OffsetIs, PagesAreNumbers DEF Least, CallsIInv, ListingOK
  <2>3. \A i \in 1 .. Len(listing) : listing[i] \in Nat
    BY DEF CallsIInv, ListingOK
  <2> HIDE DEF k
  <2> QED
    BY <2>1, <2>2, <2>3 DEF PageRows
<1>5. /\ r \in ReplyRow /\ r.kind = "rows" /\ r.token = None /\ r.rows = PageRows(k)
      /\ r.total \in {None, Len(listing)}
  BY <1>3, <1>4 DEF ReplyRow, ReplyKinds, CallsIInv, ListingOK
<1>6. PICK n : n = [k EXCEPT !.reply = r]
  OBVIOUS
<1>7. /\ n \in CallRow /\ n.reply = r
      /\ n.step = k.step /\ n.waits = k.waits /\ n.token = k.token /\ n.refused = k.refused
      /\ n.list = k.list /\ n.page = k.page /\ n.known = k.known /\ n.read = k.read
  BY <1>2, <1>5, <1>6, RepliedIs
<1>8. call' = [call EXCEPT ![c] = n]
  BY <1>3, <1>6 DEF AnswerRows, Reply, CallsIInv
<1> HIDE DEF k
<1>9. PageOK(n)
  BY <1>2, <1>5, <1>7, AnsweredPage
<1>10. CallOK(n)
  BY <1>1, <1>2, <1>5, <1>6, <1>9, RepliedIsOK DEF isInvalidAccessToken
<1> QED
  BY <1>1, <1>5, <1>7, <1>8, <1>10, ReplyStep DEF k

\* The provider issues a token nobody has.
LEMMA IssueStep ==
  ASSUME CallsIInv, NEW c \in Callers, AnswerToken(c)
  PROVE  CallsIInv'
<1> DEFINE k == call[c]
           new == Len(tokens) + 1
<1>1. /\ k.step \in {"requesting", "login"}
      /\ UNCHANGED <<fixedVars, clock, listing, revoked, tokenCache, tokenRequest>>
      /\ Len(tokens) < MaxTokens
  BY DEF AnswerToken
<1>2. PICK life \in Nat : tokens' = Append(tokens, [expiresIn |-> life, until |-> clock + life])
  BY CallsAssumption DEF AnswerToken
<1>0. Len(tokens) \in Nat
  BY LenProperties DEF CallsIInv, TokensOK
<1>3. /\ tokens' \in Seq([expiresIn : Nat, until : Nat]) /\ Len(tokens') = new /\ new \in Nat
      /\ \A i \in 1 .. Len(tokens) : tokens'[i] = tokens[i]
      /\ tokens'[new] = [expiresIn |-> life, until |-> clock + life]
  BY <1>0, <1>2 DEF CallsIInv, TokensOK
<1>4. PICK r : r = [kind |-> "rows", rows |-> {}, total |-> None, token |-> new]
  OBVIOUS
<1>5. r \in ReplyRow /\ r.kind = "rows" /\ r.token = new
  BY <1>3, <1>4 DEF ReplyRow, ReplyKinds
<1>6. PICK n : n = [k EXCEPT !.reply = r]
  OBVIOUS
<1>7. k \in CallRow /\ CallOK(k)
  BY CallKnown
<1>8. /\ n \in CallRow /\ n.reply = r
      /\ n.step = k.step /\ n.waits = k.waits /\ n.token = k.token /\ n.refused = k.refused
      /\ n.list = k.list /\ n.page = k.page /\ n.known = k.known /\ n.read = k.read
      /\ n.again = k.again /\ n.result = k.result /\ n.odd = k.odd /\ n.late = k.late
  BY <1>5, <1>6, <1>7, RepliedIs
<1>9. call' = [call EXCEPT ![c] = n]
  BY <1>4, <1>6 DEF AnswerToken, Reply, CallsIInv
<1>10. ASSUME NEW x \in CallRow, CallOK(x) PROVE CallOK(x)'
  <2>1. TokensKnown(x) /\ TokensKnown(x)'
    BY <1>0, <1>3, <1>10 DEF CallOK, TokensKnown
  <2>2. InTime(x) => InTime(x)'
    BY <1>1, <1>3, <2>1 DEF InTime, TokensKnown, CallsIInv
  <2>3. PositionOK(x) => PositionOK(x)'
    BY <1>1 DEF PositionOK, Paged, Offset, FirstPage, RowSet, fixedVars
  <2>4. PageOK(x) => PageOK(x)'
    BY <1>1 DEF PageOK, Paged, Offset, FirstPage, hasMore, fixedVars
  <2>5. RefusedOK(x) => RefusedOK(x)'
    BY <1>1 DEF RefusedOK, fixedVars
  <2> QED
    BY <1>1, <1>10, <2>1, <2>2, <2>3, <2>4, <2>5 DEF CallOK, fixedVars
<1>11. ASSUME NEW x \in CallRow, x = k, CallOK(x)' PROVE CallOK(n)'
  <2>1. (PositionOK(x) => PositionOK(n))' /\ (RefusedOK(x) => RefusedOK(n))'
    BY <1>8, <1>11 DEF PositionOK, RefusedOK, Paged, Offset
  <2>2. TokensKnown(n)'
    BY <1>3, <1>5, <1>8, <1>11 DEF TokensKnown, CallOK
  <2>3. InTime(n)'
    BY <1>1, <1>3, <1>5, <1>8 DEF InTime, REQUEST_TIMEOUT, CallsIInv
  <2> HIDE DEF k
  <2> QED
    BY <1>1, <1>5, <1>8, <1>11, <2>1, <2>2, <2>3 DEF CallOK, Active, isInvalidAccessToken
<1>12. \A d \in Callers : \A x \in CallRow : x = call'[d] => CallOK(x)'
  BY <1>7, <1>8, <1>9, <1>10, <1>11 DEF CallsIInv
<1>13. call' \in [Callers -> CallRow]
  BY <1>8, <1>9 DEF CallsIInv
<1>14. RequestsOK'
  <2>1. \A d \in Callers : call[d].token # new /\ new \notin call[d].refused
    BY <1>0, <1>3, NoneIsNoCall, CallKnown DEF CallOK, TokensKnown
  <2>2. tokenCache # None => tokenCache.token # new
    BY <1>3 DEF CallsIInv, TokensOK
  <2> HIDE DEF new, k
  <2>3. ASSUME NEW d \in Callers, call'[d].step = "requesting", call'[d].reply.token # None
        PROVE  Unseen(call[d].reply.token)'
    <3>1. CASE d = c
      BY <1>1, <1>5, <1>8, <1>9, <2>1, <2>2, <3>1 DEF Unseen, k, CallsIInv
    <3>2. CASE d # c
      BY <1>1, <1>8, <1>9, <2>3, <3>2 DEF Unseen, k, CallsIInv, RequestsOK
    <3> QED
      BY <3>1, <3>2
  <2>4. \A d \in Callers : call'[d].step = call[d].step /\ call'[d].waits = call[d].waits
    BY <1>8, <1>9 DEF CallsIInv, k
  <2> QED
    BY <1>1, <2>3, <2>4 DEF RequestsOK, CallsIInv
<1>15. (ListingOK /\ TokensOK)'
  <2>1. ListingOK'
    BY <1>1 DEF CallsIInv, ListingOK
  <2>2. Len(tokens') <= MaxTokens /\ revoked' \subseteq 1 .. Len(tokens')
    BY <1>0, <1>1, <1>3, CallsAssumption DEF CallsIInv, TokensOK
  <2>3. ASSUME tokenCache # None
        PROVE  /\ tokenCache \in [token : 1 .. Len(tokens'), expiresAt : Nat]
               /\ tokens'[tokenCache.token].expiresIn > REQUEST_TIMEOUT
                     => tokenCache.expiresAt <= tokens'[tokenCache.token].until
    <3>1. PICK i \in 1 .. Len(tokens), at \in Nat : tokenCache = [token |-> i, expiresAt |-> at]
      BY <2>3 DEF CallsIInv, TokensOK
    <3>2. i \in 1 .. Len(tokens') /\ tokens'[i] = tokens[i]
      BY <1>0, <1>3, <3>1
    <3> QED
      BY <2>3, <3>1, <3>2 DEF CallsIInv, TokensOK
  <2> QED
    BY <1>1, <1>3, <2>1, <2>2, <2>3 DEF TokensOK
<1> QED
  BY <1>1, <1>12, <1>13, <1>14, <1>15 DEF CallsIInv, fixedVars

\* A token is revoked.
LEMMA RevokeStep ==
  ASSUME CallsIInv, NEW t \in DOMAIN tokens, Revoke(t)
  PROVE  CallsIInv'
<1>1. UNCHANGED <<fixedVars, clock, listing, tokens, tokenCache, tokenRequest, call>>
      /\ revoked' = revoked \cup {t}
  BY DEF Revoke
<1>2. ListingOK' /\ revoked' \subseteq 1 .. Len(tokens)
  BY <1>1, LenProperties DEF CallsIInv, ListingOK, TokensOK
<1>3. TokensOK'
  BY <1>1, <1>2 DEF CallsIInv, TokensOK
<1>4. RequestsOK'
  BY <1>1 DEF CallsIInv, RequestsOK, Unseen
<1>5. \A d \in Callers : \A k \in CallRow : k = call'[d] => CallOK(k)'
  BY <1>1, SameProvider DEF CallsIInv
<1> QED
  BY <1>1, <1>2, <1>3, <1>4, <1>5 DEF CallsIInv, fixedVars

\* A sequence with x behind its first i elements.
Insertion(s, i, x) == SubSeq(s, 1, i) \o <<x>> \o SubSeq(s, i + 1, Len(s))

LEMMA Inserted ==
  ASSUME NEW s \in Seq(Nat), NEW i \in 0 .. Len(s), NEW x \in Nat, NEW t,
         t = Insertion(s, i, x)
  PROVE  /\ t \in Seq(Nat) /\ Len(t) = Len(s) + 1
         /\ \A j \in 1 .. Len(t) : t[j] = IF j <= i THEN s[j] ELSE IF j = i + 1 THEN x ELSE s[j - 1]
<1> DEFINE n == Len(s)
<1>1. n \in Nat /\ i \in Nat /\ i <= n /\ \A j \in 1 .. n : s[j] \in Nat
  BY LenProperties
<1>2. PICK a : a = SubSeq(s, 1, i)
  OBVIOUS
<1>3. a \in Seq(Nat) /\ Len(a) = i /\ \A j \in 1 .. i : a[j] = s[j]
  <2>1. \A j \in 1 .. i : s[j] \in Nat
    BY <1>1
  <2>2. 1 \in Int /\ i \in Int
    BY <1>1
  <2>3. /\ a \in Seq(Nat)
        /\ Len(a) = IF 1 <= i THEN i - 1 + 1 ELSE 0
        /\ \A j \in 1 .. i - 1 + 1 : a[j] = s[1 + j - 1]
    BY <1>2, <2>1, <2>2, SubSeqProperties
  <2> QED
    BY <1>1, <2>3
<1>4. PICK z : z = SubSeq(s, i + 1, n)
  OBVIOUS
<1>5. z \in Seq(Nat) /\ Len(z) = n - i /\ \A j \in 1 .. n - i : z[j] = s[i + j]
  <2>1. \A j \in i + 1 .. n : s[j] \in Nat
    BY <1>1
  <2>2. i + 1 \in Int /\ n \in Int
    BY <1>1
  <2>3. /\ z \in Seq(Nat)
        /\ Len(z) = IF i + 1 <= n THEN n - (i + 1) + 1 ELSE 0
        /\ \A j \in 1 .. n - (i + 1) + 1 : z[j] = s[i + 1 + j - 1]
    BY <1>4, <2>1, <2>2, SubSeqProperties
  <2>4. \A j \in 1 .. n - i : j \in 1 .. n - (i + 1) + 1 /\ i + 1 + j - 1 = i + j
    BY <1>1
  <2>5. Len(z) = n - i
    BY <1>1, <2>3
  <2> QED
    BY <2>3, <2>4, <2>5
<1> HIDE DEF n
<1>6. PICK m : m = a \o <<x>>
  OBVIOUS
<1>7. <<x>> \in Seq(Nat) /\ Len(<<x>>) = 1 /\ <<x>>[1] = x
  OBVIOUS
<1>8. m \in Seq(Nat) /\ Len(m) = i + 1
      /\ \A j \in 1 .. i + 1 : m[j] = IF j <= i THEN s[j] ELSE x
  <2>1. /\ m \in Seq(Nat) /\ Len(m) = Len(a) + Len(<<x>>)
        /\ \A j \in 1 .. Len(a) + Len(<<x>>) : m[j] = IF j <= Len(a) THEN a[j] ELSE <<x>>[j - Len(a)]
    BY <1>3, <1>6, <1>7, ConcatProperties
  <2> QED
    BY <1>1, <1>3, <1>7, <2>1
<1>9. /\ m \o z \in Seq(Nat) /\ Len(m \o z) = Len(m) + Len(z)
      /\ \A j \in 1 .. Len(m) + Len(z) : (m \o z)[j] = IF j <= Len(m) THEN m[j] ELSE z[j - Len(m)]
  BY <1>5, <1>8, ConcatProperties
<1>10. /\ t \in Seq(Nat) /\ Len(t) = Len(m) + Len(z)
       /\ \A j \in 1 .. Len(m) + Len(z) : t[j] = IF j <= Len(m) THEN m[j] ELSE z[j - Len(m)]
  <2>1. t = m \o z
    BY <1>2, <1>4, <1>6 DEF n, Insertion
  <2> QED
    BY <1>9, <2>1
<1>11. /\ Len(t) = n + 1
       /\ \A j \in 1 .. n + 1 : t[j] = IF j <= i + 1 THEN m[j] ELSE z[j - (i + 1)]
  <2>1. Len(m) = i + 1 /\ Len(z) = n - i /\ i + 1 + (n - i) = n + 1
    BY <1>1, <1>5, <1>8
  <2> QED
    BY <1>10, <2>1
<1>12. ASSUME NEW j \in 1 .. n + 1
       PROVE  t[j] = IF j <= i THEN s[j] ELSE IF j = i + 1 THEN x ELSE s[j - 1]
  <2>1. CASE j <= i + 1
    <3>1. j \in 1 .. i + 1 /\ t[j] = m[j]
      BY <1>1, <1>11, <2>1
    <3>2. m[j] = IF j <= i THEN s[j] ELSE x
      BY <1>8, <3>1
    <3> QED
      BY <1>1, <2>1, <3>1, <3>2
  <2>2. CASE ~ (j <= i + 1)
    <3>1. j - (i + 1) \in 1 .. n - i /\ i + (j - (i + 1)) = j - 1
      BY <1>1, <2>2
    <3>2. t[j] = z[j - (i + 1)]
      BY <1>11, <2>2
    <3>3. z[j - (i + 1)] = s[i + (j - (i + 1))]
      BY <1>5, <3>1
    <3> QED
      BY <1>1, <2>2, <3>1, <3>2, <3>3
  <2> QED
    BY <2>1, <2>2
<1> QED
  BY <1>10, <1>11, <1>12 DEF n

\* A row that enters the listing moves others back, never forward.
LEMMA RowStep ==
  ASSUME CallsIInv, NEW i \in 0 .. Len(listing), AddRow(i)
  PROVE  CallsIInv'
<1> DEFINE all == Len(listing)
<1>1. UNCHANGED <<fixedVars, clock, tokens, revoked, tokenCache, tokenRequest, call>>
      /\ all < MaxRows
      /\ listing' = Insertion(listing, i, all + 1)
  BY DEF AddRow, Insertion
<1>2. /\ all \in Nat /\ listing \in Seq(Nat) /\ MaxRows \in Nat /\ i \in Nat /\ i <= all
      /\ \A j \in 1 .. all : listing[j] \in 1 .. all
      /\ \A j, l \in 1 .. all : listing[j] = listing[l] => j = l
  BY CallsAssumption DEF CallsIInv, ListingOK
<1>3. /\ listing' \in Seq(Nat) /\ Len(listing') = all + 1
      /\ \A j \in 1 .. Len(listing') : listing'[j] = IF j <= i THEN listing[j]
                                  ELSE IF j = i + 1 THEN all + 1 ELSE listing[j - 1]
  <2>1. PICK t : t = listing'
    OBVIOUS
  <2>2. PICK x \in Nat : x = all + 1
    BY <1>2
  <2>3. t = Insertion(listing, i, x)
    BY <1>1, <2>1, <2>2 DEF Insertion
  <2>4. /\ t \in Seq(Nat) /\ Len(t) = Len(listing) + 1
        /\ \A j \in 1 .. Len(t) : t[j] = IF j <= i THEN listing[j]
                                         ELSE IF j = i + 1 THEN x ELSE listing[j - 1]
    BY <1>2, <2>3, Inserted
  <2> QED
    BY <2>1, <2>2, <2>4
<1>4. DOMAIN listing = 1 .. all /\ DOMAIN listing' = 1 .. (all + 1)
  BY <1>2, <1>3
<1> HIDE DEF all
<1>0. \A l \in 1 .. (all + 1) : \/ l <= i /\ l \in 1 .. all /\ listing'[l] = listing[l]
                                \/ l = i + 1 /\ listing'[l] = all + 1
                                \/ l > i + 1 /\ l - 1 \in 1 .. all /\ listing'[l] = listing[l - 1]
  BY <1>2, <1>3
<1>5. ASSUME NEW j \in 1 .. all
      PROVE  \E l \in 1 .. (all + 1) : listing'[l] = listing[j] /\ l >= j
  <2>1. CASE j <= i
    <3>1. j \in 1 .. (all + 1) /\ j # i + 1 /\ ~ (j > i + 1)
      BY <1>2, <2>1
    <3> QED
      BY <1>2, <1>0, <3>1
  <2>2. CASE j > i
    <3>1. j + 1 \in 1 .. (all + 1) /\ listing'[j + 1] = listing[(j + 1) - 1] /\ (j + 1) - 1 = j
      BY <1>2, <1>3, <2>2
    <3> QED
      BY <1>2, <3>1
  <2> QED
    BY <1>2, <2>1, <2>2
<1>6. ASSUME NEW l \in 1 .. (all + 1), listing'[l] # all + 1
      PROVE  \E j \in 1 .. all : listing'[l] = listing[j] /\ l >= j
  <2>1. CASE l <= i
    BY <1>2, <1>3, <2>1
  <2>2. CASE l > i + 1
    <3>1. l - 1 \in 1 .. all /\ listing'[l] = listing[l - 1]
      BY <1>2, <1>3, <2>2
    <3> QED
      BY <1>2, <3>1
  <2> QED
    BY <1>2, <1>3, <1>6, <2>1, <2>2
<1>7. RowSet \subseteq RowSet' /\ RowSet \subseteq 1 .. all
  <2>1. RowSet = {listing[j] : j \in 1 .. all} /\ RowSet' = {listing'[l] : l \in 1 .. (all + 1)}
    BY <1>4 DEF RowSet
  <2>2. ASSUME NEW x \in RowSet PROVE x \in RowSet' /\ x \in 1 .. all
    <3>1. PICK j \in 1 .. all : x = listing[j]
      BY <2>1
    <3>2. PICK l \in 1 .. (all + 1) : listing'[l] = listing[j]
      BY <1>5
    <3> QED
      BY <1>2, <2>1, <3>1, <3>2
  <2> QED
    BY <2>2
<1>8. ListingOK'
  <2>1. \A l \in 1 .. (all + 1) : listing'[l] \in 1 .. (all + 1)
    <3> TAKE l \in 1 .. (all + 1)
    <3>1. CASE listing'[l] = all + 1
      BY <1>2, <3>1
    <3>2. CASE listing'[l] # all + 1
      <4>1. PICK j \in 1 .. all : listing'[l] = listing[j]
        BY <1>6, <3>2
      <4>2. listing[j] \in 1 .. all
        BY <1>2
      <4> QED
        BY <1>2, <4>1, <4>2
    <3> QED
      BY <3>1, <3>2
  <2>2. \A j, l \in 1 .. (all + 1) : listing'[j] = listing'[l] => j = l
    <3> SUFFICES ASSUME NEW j \in 1 .. (all + 1), NEW l \in 1 .. (all + 1), listing'[j] = listing'[l]
                 PROVE  j = l
      OBVIOUS
    <3>1. \A m \in 1 .. all : listing[m] # all + 1
      BY <1>2
    <3>2. \A m \in 1 .. (all + 1) : m > i + 1 => m - 1 > i
      BY <1>2
    <3>3. \/ j <= i /\ j \in 1 .. all /\ listing'[j] = listing[j]
          \/ j = i + 1 /\ listing'[j] = all + 1
          \/ j > i + 1 /\ j - 1 \in 1 .. all /\ listing'[j] = listing[j - 1]
      BY <1>0
    <3>4. \/ l <= i /\ l \in 1 .. all /\ listing'[l] = listing[l]
          \/ l = i + 1 /\ listing'[l] = all + 1
          \/ l > i + 1 /\ l - 1 \in 1 .. all /\ listing'[l] = listing[l - 1]
      BY <1>0
    <3> QED
      BY <1>2, <3>1, <3>2, <3>3, <3>4
  <2> QED
    BY <1>1, <1>2, <1>3, <2>1, <2>2 DEF ListingOK
<1>9. TokensOK'
  BY <1>1 DEF CallsIInv, TokensOK
<1>10. RequestsOK'
  BY <1>1 DEF CallsIInv, RequestsOK, Unseen
<1>11. ASSUME NEW k \in CallRow, CallOK(k) PROVE CallOK(k)'
  <2>1. ASSUME PositionOK(k)
        PROVE  k.known \subseteq 1 .. all /\ PositionOK(k)'
    <3>1. k.known \subseteq 1 .. all /\ k.known \subseteq RowSet'
      BY <1>7, <2>1 DEF PositionOK
    <3>2. k.page >= FirstPage' /\ Offset(k)' = Offset(k) /\ Paged(k)' = Paged(k)
      BY <1>1, <2>1 DEF PositionOK, FirstPage, Offset, Paged, fixedVars
    <3>3. ASSUME Paged(k), NEW l \in 1 .. (all + 1), listing'[l] \in k.known \ k.read
          PROVE  l > Offset(k)
      <4>1. PICK j \in 1 .. all : listing'[l] = listing[j] /\ l >= j
        BY <1>2, <1>6, <3>1, <3>3
      <4>2. j > Offset(k)
        BY <2>1, <3>3, <4>1 DEF PositionOK, all
      <4>3. Offset(k) \in Nat
        BY <2>1, OffsetIs
      <4> QED
        BY <1>2, <4>1, <4>2, <4>3
    <3> QED
      BY <1>3, <3>1, <3>2, <3>3 DEF PositionOK
  <2>2. ASSUME PositionOK(k), PageOK(k)
        PROVE  PageOK(k)'
    <3>1. Offset(k)' = Offset(k) /\ Paged(k)' = Paged(k) /\ hasMore(k)' = hasMore(k)
      BY <1>1 DEF FirstPage, Offset, Paged, hasMore, fixedVars
    <3>2. ASSUME Paged(k), NEW l \in 1 .. (all + 1), listing'[l] \in k.known \ (k.read \cup k.reply.rows)
          PROVE  l > Offset(k) + RowsPerPage
      <4>1. PICK j \in 1 .. all : listing'[l] = listing[j] /\ l >= j
        BY <1>2, <1>6, <2>1, <2>2, <3>2
      <4>2. j > Offset(k) + RowsPerPage
        BY <2>2, <3>2, <4>1 DEF PageOK, all
      <4>3. Offset(k) \in Nat /\ RowsPerPage \in Nat
        BY <2>2, OffsetIs, PagesAreNumbers
      <4> QED
        BY <1>2, <4>1, <4>2, <4>3
    <3> QED
      BY <1>3, <2>2, <3>1, <3>2 DEF PageOK
  <2>3. (TokensKnown(k) => TokensKnown(k)') /\ (RefusedOK(k) => RefusedOK(k)') /\ (InTime(k) => InTime(k)')
    BY <1>1 DEF TokensKnown, RefusedOK, InTime, fixedVars
  <2> QED
    BY <1>1, <1>11, <2>1, <2>2, <2>3 DEF CallOK, Active, fixedVars
<1>12. \A d \in Callers : \A k \in CallRow : k = call'[d] => CallOK(k)'
  BY <1>1, <1>11 DEF CallsIInv
<1> QED
  BY <1>1, <1>8, <1>9, <1>10, <1>12 DEF CallsIInv, fixedVars

\* Time goes on: what has been asked is late, unless it was late before.
LEMMA TickStep ==
  ASSUME CallsIInv, Tick
  PROVE  CallsIInv'
<1> DEFINE Asking(d) == call[d].step \in {"requesting", "login", "sent"}
<1>1. /\ UNCHANGED <<fixedVars, listing, tokens, revoked, tokenCache, tokenRequest>>
      /\ clock' = clock + REQUEST_TIMEOUT /\ clock' <= MaxClock
      /\ \A d \in Callers : Asking(d) => ~ call[d].late
      /\ call' = [d \in Callers |-> IF Asking(d) THEN [call[d] EXCEPT !.late = TRUE] ELSE call[d]]
  BY DEF Tick
<1>2. ASSUME NEW d \in Callers
      PROVE  /\ call'[d] \in CallRow
             /\ call'[d].step = call[d].step /\ call'[d].waits = call[d].waits
             /\ call'[d].reply = call[d].reply /\ call'[d].token = call[d].token
             /\ call'[d].refused = call[d].refused
             /\ \A x \in CallRow : x = call'[d] => CallOK(x)'
  <2>1. PICK k \in CallRow : k = call[d] /\ CallOK(k)
    BY CallKnown
  <2>2. PICK n : n = call'[d]
    OBVIOUS
  <2>3. n = IF k.step \in {"requesting", "login", "sent"} THEN [k EXCEPT !.late = TRUE] ELSE k
    BY <1>1, <2>1, <2>2
  <2>4. /\ n \in CallRow
        /\ n.step = k.step /\ n.waits = k.waits /\ n.token = k.token /\ n.refused = k.refused
        /\ n.list = k.list /\ n.page = k.page /\ n.known = k.known /\ n.read = k.read
        /\ n.again = k.again /\ n.result = k.result /\ n.odd = k.odd /\ n.reply = k.reply
    BY <2>1, <2>3 DEF CallRow
  <2>5. k.step = "requesting" => n.late = TRUE /\ ~ k.late
    BY <1>1, <2>1, <2>3 DEF CallRow
  <2>6. (PositionOK(k) => PositionOK(n)') /\ (PageOK(k) => PageOK(n)') /\ (RefusedOK(k) => RefusedOK(n)')
    BY <1>1, <2>4 DEF PositionOK, PageOK, RefusedOK, Paged, Offset, FirstPage, RowSet, hasMore, fixedVars
  <2>7. k.step = "requesting" => InTime(n)'
    <3> SUFFICES ASSUME k.step = "requesting", k.reply.token # None PROVE InTime(n)'
      BY <2>4 DEF InTime
    <3>1. k.reply.token \in 1 .. Len(tokens) /\ InTime(k)
      BY <2>1 DEF CallOK, TokensKnown
    <3>2. PICK row \in [expiresIn : Nat, until : Nat] : row = tokens[k.reply.token]
      BY <3>1, ElementOfSeq DEF CallsIInv, TokensOK
    <3>3. clock = row.until - row.expiresIn /\ clock \in Nat
      BY <2>5, <3>1, <3>2 DEF InTime, CallsIInv
    <3> QED
      BY <1>1, <2>4, <2>5, <3>2, <3>3 DEF InTime, REQUEST_TIMEOUT
  <2>8. CallOK(n)'
    BY <1>1, <2>1, <2>4, <2>6, <2>7 DEF CallOK, Active, TokensKnown, fixedVars
  <2> QED
    BY <2>1, <2>2, <2>4, <2>8
<1> HIDE DEF Asking
<1>3. call' \in [Callers -> CallRow]
  BY <1>1, <1>2
<1>4. RequestsOK'
  BY <1>1, <1>2 DEF CallsIInv, RequestsOK, Unseen
<1>5. (ListingOK /\ TokensOK)'
  BY <1>1 DEF CallsIInv, ListingOK, TokensOK
<1>6. clock' \in Nat
  BY <1>1 DEF CallsIInv, REQUEST_TIMEOUT
<1> QED
  BY <1>1, <1>2, <1>3, <1>4, <1>5, <1>6 DEF CallsIInv, fixedVars

\* Every step of callers, providers and the clock.
LEMMA CallsNextStep == CallsIInv /\ [CallsNext]_callVars => CallsIInv'
<1> SUFFICES ASSUME CallsIInv, [CallsNext]_callVars PROVE CallsIInv'
  OBVIOUS
<1>1. CASE UNCHANGED callVars
  <2>1. (ListingOK /\ TokensOK /\ RequestsOK)'
    BY <1>1 DEF CallsIInv, ListingOK, TokensOK, RequestsOK, Unseen, callVars, providerVars
  <2>2. \A d \in Callers : \A k \in CallRow : k = call'[d] => CallOK(k)'
    BY <1>1, SameProvider DEF CallsIInv, callVars, providerVars
  <2> QED
    BY <1>1, <2>1, <2>2 DEF CallsIInv, callVars, providerVars, fixedVars
<1>2. CASE \E c \in Callers : \E list \in ClientLists[client] : StartListing(c, list)
  BY <1>2, StartStep
<1>3. CASE \E c \in Callers : Answer(c)
  BY <1>3, RowsStep, FailureStep, IssueStep DEF Answer
<1>4. CASE \E c \in Callers : Receive(c)
  BY <1>4, TokenStep, LoginStep, PageStep, OddStep, ErrorStep DEF Receive
<1>5. CASE \E t \in DOMAIN tokens : Revoke(t)
  BY <1>5, RevokeStep
<1>6. CASE \E i \in 0 .. Len(listing) : AddRow(i)
  BY <1>6, RowStep
<1>7. CASE Tick
  BY <1>7, TickStep
<1> QED
  BY <1>1, <1>2, <1>3, <1>4, <1>5, <1>6, <1>7 DEF CallsNext

\* Callers share one token request and give up a token only for another that was refused
\* too; a cached token is alive; and a listing that completes has read every row that was
\* there when it began.
THEOREM SharedCallsAreSound == CallsSpec => []CallsInv
  BY CallsInitially, CallsNextStep, CallsImplied, PTL DEF CallsSpec
=============================================================================
