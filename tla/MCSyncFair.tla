----------------------------- MODULE MCSyncFair -----------------------------
(* What must come to an end: the tasks of SyncTaskLifecycle, or the calls  *)
(* of ProviderClients on which the executing of a task waits.  Of the      *)
(* calls, either one caller of any client while time goes by and the       *)
(* listing grows, or two that share PhotonPay's tokens while nothing else  *)
(* changes.                                                                *)
EXTENDS MCSyncTaskLifecycle, ProviderClients

CONSTANTS a1, a2

VARIABLE part

MCInit == /\ part \in {"tasks", "one caller", "two callers"}
          /\ Init /\ CallsInit
          /\ part = "two callers" => client = "photonpay" /\ totals
          /\ part = "tasks" => client = "everflow" /\ totals

Bounded == /\ part = "one caller" => call'[a2] = Idle
           /\ part = "two callers" => clock' = clock /\ listing' = listing

MCNext == /\ UNCHANGED part
          /\ \/ part = "tasks" /\ Next /\ UNCHANGED callVars
             \/ part # "tasks" /\ CallsNext /\ Bounded /\ UNCHANGED vars

\* Fairness of SyncTaskLifecycle and CallFairness of ProviderClients, each in its part.
Tasked(A) == part = "tasks" /\ A
Called(A) == part # "tasks" /\ A

MCFairness ==
    /\ \A t \in Tasks : WF_vars(Tasked(ExpireLease(t))) /\ WF_vars(Tasked(FallDue(t)))
    /\ \A i \in Instances : WF_vars(Tasked(Poll(i, {})))
    /\ \A c \in Claims : WF_vars(Tasked(ExecuteClaim(c)))
    /\ \A c \in Callers : WF_callVars(Called(Answer(c))) /\ WF_callVars(Called(Receive(c)))

MCSpec == MCInit /\ [][MCNext]_<<part, vars, callVars>> /\ MCFairness
=============================================================================
