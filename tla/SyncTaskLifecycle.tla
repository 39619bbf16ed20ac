-------------------------- MODULE SyncTaskLifecycle --------------------------
(***************************************************************************)
(* The life of a sync task: automatic workers claim it under a lease, call *)
(* the provider and finish it; an administrator executes it by hand,       *)
(* requests a retry or cancels it.                                         *)
(*                                                                         *)
(* Each automatic execution is the worker of one claim, named by its task  *)
(* and the attempt it counts; phase says where its handler is.  Each       *)
(* request of an administrator is a handler of its own.  The claim and     *)
(* every conditional update are single statements and hence one step;      *)
(* everything between them interleaves.  Time is abstract: a lease expires *)
(* and a retry falls due in steps of their own.                            *)
(***************************************************************************)
EXTENDS Integers, FiniteSets

CONSTANTS
    Tasks,          \* sync tasks, numbered in order of creation
    Scheduled,      \* those created by the planner, with a planning key
    Instances,      \* identities of service instances; a restart takes a new one
    Requests,       \* requests of administrators in flight
    MaxAttempts,    \* SYNC_AUTO_EXECUTION_MAX_ATTEMPTS
    BatchSize,      \* SYNC_AUTO_EXECUTION_BATCH_SIZE
    NoOne           \* no instance; nothing read

ASSUME SyncTaskAssumption ==
    /\ Tasks \subseteq Nat
    /\ Scheduled \subseteq Tasks
    /\ MaxAttempts \in Nat \ {0}
    /\ BatchSize \in Nat \ {0}
    /\ NoOne \notin Instances

Statuses == {"pending", "retry_wait", "running", "completed", "failed", "cancelled"}
Phases == {"idle", "read", "check", "adapter", "blocked"}
Pcs == {"idle", "executeCheck", "executeStart", "execute", "retryCheck", "retry",
        "cancel", "cancelExpired"}

Attempts == 1 .. MaxAttempts
Claims == Tasks \X Attempts

VARIABLES
    status,         \* sync_tasks.status
    attempts,       \* attempt_count
    owner,          \* lease_owner
    lease,          \* lease_expires_at: null, in the future or past
    due,            \* next_attempt_at is null or past
    ready,          \* the month is unlocked, the account and a credential are active
    stage,          \* an instance has yet to start, polls or has stopped polling
    worker,         \* the instance that executes a claim
    phase,          \* where it is
    pc, seen        \* requests: next call, what was read of the task

taskVars == <<status, attempts, owner, lease, due>>
workerVars == <<worker, phase>>
requestVars == <<pc, seen>>
vars == <<taskVars, ready, stage, workerVars, requestVars>>

Init ==
    /\ status = [t \in Tasks |-> "pending"]
    /\ attempts = [t \in Tasks |-> 0]
    /\ owner = [t \in Tasks |-> NoOne]
    /\ lease = [t \in Tasks |-> "none"]
    /\ due = [t \in Tasks |-> TRUE]
    /\ ready = [t \in Tasks |-> TRUE]
    /\ stage = [i \in Instances |-> "new"]
    /\ worker = [c \in Claims |-> NoOne]
    /\ phase = [c \in Claims |-> "idle"]
    /\ pc = [r \in Requests |-> "idle"]
    /\ seen = [r \in Requests |-> NoOne]

-----------------------------------------------------------------------------
(* Columns written together.                                               *)

SetTask(t, s, o, l, d) ==
    /\ status' = [status EXCEPT ![t] = s]
    /\ owner' = [owner EXCEPT ![t] = o]
    /\ lease' = [lease EXCEPT ![t] = l]
    /\ due' = [due EXCEPT ![t] = d]
    /\ UNCHANGED attempts

EndClaim(c) ==
    /\ worker' = [worker EXCEPT ![c] = NoOne]
    /\ phase' = [phase EXCEPT ![c] = "idle"]

-----------------------------------------------------------------------------
(* Automatic execution.                                                    *)

\* The scheduler starts no poll while the promise of the last one is pending.
inFlight(i) == \E c \in Claims : worker[c] = i

\* variant: attempts are not limited
ClaimableAgain(t) ==
    /\ t \in Scheduled
    /\ \/ status[t] = "pending"
       \/ status[t] = "retry_wait" /\ due[t]
       \/ status[t] = "running" /\ lease[t] = "expired"
    /\ ready[t]

\* variant: expired leases are not looked for
ClaimableFresh(t) ==
    /\ t \in Scheduled
    /\ attempts[t] < MaxAttempts
    /\ \/ status[t] = "pending"
       \/ status[t] = "retry_wait" /\ due[t]
    /\ ready[t]

Claimable(t) ==
    /\ t \in Scheduled
    /\ attempts[t] < MaxAttempts
    /\ \/ status[t] = "pending"
       \/ status[t] = "retry_wait" /\ due[t]
       \/ status[t] = "running" /\ lease[t] = "expired"
    /\ ready[t]

\* ORDER BY created_at LIMIT batchSize
Oldest(tasks) == {t \in tasks : Cardinality({u \in tasks : u < t}) < BatchSize}

ClaimBatch(i, batch) ==
    /\ batch # {}
    /\ status' = [t \in Tasks |-> IF t \in batch THEN "running" ELSE status[t]]
    /\ attempts' = [t \in Tasks |-> IF t \in batch THEN attempts[t] + 1 ELSE attempts[t]]
    /\ owner' = [t \in Tasks |-> IF t \in batch THEN i ELSE owner[t]]
    /\ lease' = [t \in Tasks |-> IF t \in batch THEN "live" ELSE lease[t]]
    /\ due' = [t \in Tasks |-> IF t \in batch THEN TRUE ELSE due[t]]
    /\ worker' = [c \in Claims |->
                    IF c[1] \in batch /\ c[2] = attempts'[c[1]] THEN i ELSE worker[c]]
    /\ phase' = [c \in Claims |->
                    IF c[1] \in batch /\ c[2] = attempts'[c[1]] THEN "read" ELSE phase[c]]
    /\ UNCHANGED <<ready, stage, requestVars>>

\* variant: the scheduler polls while an earlier poll is pending
PollOverlapping(i, held) ==
    /\ stage[i] = "up"
    /\ ClaimBatch(i, Oldest({t \in Tasks : Claimable(t)} \ held))

\* FOR UPDATE SKIP LOCKED passes over the rows that other transactions hold.
Poll(i, held) ==
    /\ stage[i] = "up"
    /\ ~inFlight(i)
    /\ ClaimBatch(i, Oldest({t \in Tasks : Claimable(t)} \ held))

\* executeClaim reads the task again and returns when it is no longer its own.
ReadClaim(c) ==
    /\ phase[c] = "read"
    /\ IF status[c[1]] = "running" /\ owner[c[1]] = worker[c]
       THEN phase' = [phase EXCEPT ![c] = "check"] /\ UNCHANGED worker
       ELSE EndClaim(c)
    /\ UNCHANGED <<taskVars, ready, stage, requestVars>>

preExecutionBlocker(c) ==
    /\ phase[c] = "check"
    /\ phase' = [phase EXCEPT ![c] = IF ready[c[1]] THEN "adapter" ELSE "blocked"]
    /\ UNCHANGED <<taskVars, ready, stage, worker, requestVars>>

\* updateMany where status is running and the lease is this instance's
Owns(c) == status[c[1]] = "running" /\ owner[c[1]] = worker[c]

\* variant: the lease owner is not compared
FinishSuccessUnowned(c) ==
    /\ phase[c] = "adapter"
    /\ SetTask(c[1], "completed", NoOne, "none", TRUE)
    /\ EndClaim(c)
    /\ UNCHANGED <<ready, stage, requestVars>>

finishSuccess(c) ==
    /\ phase[c] = "adapter"
    /\ IF Owns(c)
       THEN SetTask(c[1], "completed", NoOne, "none", TRUE)
       ELSE UNCHANGED taskVars
    /\ EndClaim(c)
    /\ UNCHANGED <<ready, stage, requestVars>>

\* variant: the last attempt is retried once more
FinishFailureOneMore(c, retryable) ==
    /\ phase[c] # "idle"
    /\ IF Owns(c)
       THEN IF retryable /\ c[2] <= MaxAttempts
            THEN SetTask(c[1], "retry_wait", NoOne, "none", FALSE)
            ELSE SetTask(c[1], "failed", NoOne, "none", TRUE)
       ELSE UNCHANGED taskVars
    /\ EndClaim(c)
    /\ UNCHANGED <<ready, stage, requestVars>>

\* The provider failed, the task is blocked, or something threw: the catch
\* block classifies what was thrown and finishes the same way.
finishFailure(c, retryable) ==
    /\ phase[c] # "idle"
    /\ IF Owns(c)
       THEN IF retryable /\ c[2] < MaxAttempts
            THEN SetTask(c[1], "retry_wait", NoOne, "none", FALSE)
            ELSE SetTask(c[1], "failed", NoOne, "none", TRUE)
       ELSE UNCHANGED taskVars
    /\ EndClaim(c)
    /\ UNCHANGED <<ready, stage, requestVars>>

\* The finish in the catch block throws as well, and that is swallowed.
GiveUp(c) ==
    /\ phase[c] # "idle"
    /\ EndClaim(c)
    /\ UNCHANGED <<taskVars, ready, stage, requestVars>>

-----------------------------------------------------------------------------
(* Service instances.                                                      *)

onApplicationBootstrap(i) ==
    /\ stage[i] = "new"
    /\ stage' = [stage EXCEPT ![i] = "up"]
    /\ UNCHANGED <<taskVars, ready, workerVars, requestVars>>

\* A shutdown polls no more and waits for the batch in flight.
onModuleDestroy(i) ==
    /\ stage[i] = "up"
    /\ stage' = [stage EXCEPT ![i] = "stopped"]
    /\ UNCHANGED <<taskVars, ready, workerVars, requestVars>>

\* The process is killed, with the handlers of its batch.
Crash(i) ==
    /\ stage[i] # "new"
    /\ stage' = [stage EXCEPT ![i] = "stopped"]
    /\ worker' = [c \in Claims |-> IF worker[c] = i THEN NoOne ELSE worker[c]]
    /\ phase' = [c \in Claims |-> IF worker[c] = i THEN "idle" ELSE phase[c]]
    /\ UNCHANGED <<taskVars, ready, requestVars>>

-----------------------------------------------------------------------------
(* Requests of administrators: each reads the task, checks, and updates it *)
(* where its status is still one that allows it.                           *)

Executable == {"pending", "retry_wait", "failed"}
ACTIVE_RETRY_STATUSES == {"failed", "retry_wait"}
CANCELABLE_STATUSES == {"pending", "retry_wait", "failed"}

Load(r, t, next) ==
    /\ pc[r] = "idle"
    /\ pc' = [pc EXCEPT ![r] = next]
    /\ seen' = [seen EXCEPT ![r] = [task |-> t, status |-> status[t], attempts |-> attempts[t]]]
    /\ UNCHANGED <<taskVars, ready, stage, workerVars>>

Goto(r, next) ==
    /\ pc' = [pc EXCEPT ![r] = next]
    /\ seen' = IF next = "idle" THEN [seen EXCEPT ![r] = NoOne] ELSE seen

execute(r, t) == status[t] \in Executable /\ Load(r, t, "executeCheck")

requestRetry(r, t) == status[t] \in ACTIVE_RETRY_STATUSES /\ Load(r, t, "retryCheck")

cancel(r, t) ==
    \/ status[t] \in CANCELABLE_STATUSES /\ Load(r, t, "cancel")
    \/ status[t] = "running" /\ lease[t] = "expired" /\ Load(r, t, "cancelExpired")

\* assertWritable or assertUnlocked, and assertHasActiveCredential
CheckReady(r) ==
    /\ pc[r] \in {"executeCheck", "retryCheck"}
    /\ Goto(r, IF ~ready[seen[r].task] THEN "idle"
               ELSE IF pc[r] = "executeCheck" THEN "executeStart" ELSE "retry")
    /\ UNCHANGED <<taskVars, ready, stage, workerVars>>

\* variant: the update names the task by id alone
ExecuteStartById(r) ==
    /\ pc[r] = "executeStart"
    /\ status' = [status EXCEPT ![seen[r].task] = "running"]
    /\ Goto(r, "execute")
    /\ UNCHANGED <<attempts, owner, lease, due, ready, stage, workerVars>>

\* A run by hand takes no lease and counts no attempt.
ExecuteStart(r) ==
    LET t == seen[r].task IN
    /\ pc[r] = "executeStart"
    /\ IF status[t] = seen[r].status /\ owner[t] = NoOne
       THEN status' = [status EXCEPT ![t] = "running"] /\ Goto(r, "execute")
       ELSE UNCHANGED status /\ Goto(r, "idle")
    /\ UNCHANGED <<attempts, owner, lease, due, ready, stage, workerVars>>

ExecuteFinish(r, result) ==
    LET t == seen[r].task IN
    /\ pc[r] = "execute"
    /\ status' = IF status[t] = "running" /\ owner[t] = NoOne
                 THEN [status EXCEPT ![t] = result] ELSE status
    /\ Goto(r, "idle")
    /\ UNCHANGED <<attempts, owner, lease, due, ready, stage, workerVars>>

\* A retry keeps the attempts already counted.
RetryApply(r) ==
    LET t == seen[r].task IN
    /\ pc[r] = "retry"
    /\ IF status[t] \in ACTIVE_RETRY_STATUSES
       THEN SetTask(t, "pending", NoOne, "none", TRUE)
       ELSE UNCHANGED taskVars
    /\ Goto(r, "idle")
    /\ UNCHANGED <<ready, stage, workerVars>>

CancelApply(r) ==
    LET t == seen[r].task IN
    /\ pc[r] = "cancel"
    /\ IF status[t] \in CANCELABLE_STATUSES
       THEN SetTask(t, "cancelled", NoOne, "none", TRUE)
       ELSE UNCHANGED taskVars
    /\ Goto(r, "idle")
    /\ UNCHANGED <<ready, stage, workerVars>>

\* where leaseExpiresAt is not after the time of the read: the lease of any
\* later claim expires after it
CancelExpiredApply(r) ==
    LET t == seen[r].task IN
    /\ pc[r] = "cancelExpired"
    /\ IF status[t] = "running" /\ lease[t] = "expired" /\ attempts[t] = seen[r].attempts
       THEN SetTask(t, "cancelled", NoOne, "none", TRUE)
       ELSE UNCHANGED taskVars
    /\ Goto(r, "idle")
    /\ UNCHANGED <<ready, stage, workerVars>>

\* The handler throws, its adapter included, or its process stops.
Abort(r) ==
    /\ pc[r] # "idle"
    /\ Goto(r, "idle")
    /\ UNCHANGED <<taskVars, ready, stage, workerVars>>

-----------------------------------------------------------------------------
(* Time and the rest of the system.                                        *)

ExpireLease(t) ==
    /\ lease[t] = "live"
    /\ lease' = [lease EXCEPT ![t] = "expired"]
    /\ UNCHANGED <<status, attempts, owner, due, ready, stage, workerVars, requestVars>>

FallDue(t) ==
    /\ ~due[t]
    /\ due' = [due EXCEPT ![t] = TRUE]
    /\ UNCHANGED <<status, attempts, owner, lease, ready, stage, workerVars, requestVars>>

\* The month is locked, or a credential or account is disabled or enabled again.
ChangeReady(t) ==
    /\ ready' = [ready EXCEPT ![t] = ~@]
    /\ UNCHANGED <<taskVars, stage, workerVars, requestVars>>

ExecuteClaim(c) ==
    \/ ReadClaim(c)
    \/ preExecutionBlocker(c)
    \/ finishSuccess(c)
    \/ \E retryable \in BOOLEAN : finishFailure(c, retryable)

Request(r) ==
    \/ \E t \in Tasks : execute(r, t) \/ requestRetry(r, t) \/ cancel(r, t)
    \/ CheckReady(r)
    \/ ExecuteStart(r)
    \/ \E result \in {"completed", "failed"} : ExecuteFinish(r, result)
    \/ RetryApply(r)
    \/ CancelApply(r)
    \/ CancelExpiredApply(r)
    \/ Abort(r)

Instance(i) ==
    \/ onApplicationBootstrap(i)
    \/ onModuleDestroy(i)
    \/ Crash(i)
    \/ \E held \in SUBSET Tasks : Poll(i, held)

Environment(t) == ExpireLease(t) \/ FallDue(t) \/ ChangeReady(t)

Next ==
    \/ \E i \in Instances : Instance(i)
    \/ \E c \in Claims : ExecuteClaim(c) \/ GiveUp(c)
    \/ \E r \in Requests : Request(r)
    \/ \E t \in Tasks : Environment(t)

Spec == Init /\ [][Next]_vars

\* Time passes; an idle scheduler polls again, and other transactions do not hold
\* the same rows at every poll; the provider calls of an execution time out.
Fairness ==
    /\ \A t \in Tasks : WF_vars(ExpireLease(t)) /\ WF_vars(FallDue(t))
    /\ \A i \in Instances : WF_vars(Poll(i, {}))
    /\ \A c \in Claims : WF_vars(ExecuteClaim(c))

FairSpec == Spec /\ Fairness

-----------------------------------------------------------------------------
(* Properties.                                                             *)

Seen == [task : Tasks, status : Statuses, attempts : 0 .. MaxAttempts]

\* Type invariant; an attempt is counted at most MaxAttempts times and a request
\* under way has read its task.
TypeOK ==
    /\ status \in [Tasks -> Statuses]
    /\ attempts \in [Tasks -> 0 .. MaxAttempts]
    /\ owner \in [Tasks -> Instances \cup {NoOne}]
    /\ lease \in [Tasks -> {"none", "live", "expired"}]
    /\ due \in [Tasks -> BOOLEAN]
    /\ ready \in [Tasks -> BOOLEAN]
    /\ stage \in [Instances -> {"new", "up", "stopped"}]
    /\ worker \in [Claims -> Instances \cup {NoOne}]
    /\ phase \in [Claims -> Phases]
    /\ pc \in [Requests -> Pcs]
    /\ seen \in [Requests -> Seen \cup {NoOne}]
    /\ \A r \in Requests : pc[r] # "idle" => seen[r] \in Seen

\* A task that was completed or cancelled stays so, whatever the workers that had
\* claimed it and the requests that had read it still do.
TerminalIsFinal ==
    [][\A t \in Tasks : status[t] \in {"completed", "cancelled"} => status'[t] = status[t]]_vars

\* While a lease is live its task belongs to the worker of the current attempt:
\* nobody else claims, cancels, retries or finishes it, not even an older worker
\* of the same instance, and the lease ends only by running out or with the
\* finish of that worker.
LiveLeaseIsKept ==
    [][\A t \in Tasks : lease[t] = "live" =>
        \/ <<status'[t], attempts'[t], owner'[t]>> = <<status[t], attempts[t], owner[t]>>
        \/ /\ status'[t] \in {"completed", "retry_wait", "failed"}
           /\ worker[<<t, attempts[t]>>] = owner[t]
           /\ worker'[<<t, attempts[t]>>] = NoOne]_vars

\* A task waits for a retry only while an attempt is left for it.
RetryHasAttempt == \A t \in Tasks : status[t] = "retry_wait" => attempts[t] < MaxAttempts

\* A run by hand is alone: as long as it calls the provider its task is running,
\* without a lease a worker could take over, and no other request runs it.
ManualRunIsAlone ==
    \A r \in Requests : pc[r] = "execute" =>
        /\ status[seen[r].task] = "running"
        /\ owner[seen[r].task] = NoOne
        /\ \A s \in Requests \ {r} : pc[s] = "execute" => seen[s].task # seen[r].task

\* Where a task is left to the scheduler and stays ready.
Attended(t) == <>[]ready[t] /\ \E i \in Instances : <>[](stage[i] = "up")

ByHand(t) == status[t] = "running" /\ owner[t] = NoOne

\* Under an instance that stays up, a scheduled task never waits or runs for ever:
\* again and again it has ended, is run by hand, or has used its attempts.
ScheduledTaskSettles ==
    \A t \in Scheduled : Attended(t) =>
        []<>(\/ status[t] \in {"completed", "failed", "cancelled"}
             \/ ByHand(t)
             \/ attempts[t] = MaxAttempts)
=============================================================================
