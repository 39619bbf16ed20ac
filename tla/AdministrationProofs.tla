------------------------ MODULE AdministrationProofs ------------------------
(***************************************************************************)
(* What the guards and the transactions of administrators, roles and       *)
(* sessions guarantee for any number of administrators, roles, sessions,   *)
(* permissions and requests in flight; what the settlement page shows an   *)
(* administrator and sends in his name, for any months, warnings and       *)
(* requests under way; and what an administrator reads in the audit log,   *)
(* whatever is written to it meanwhile.                                    *)
(***************************************************************************)
EXTENDS AccessControl, SettlementPage, Reports, FiniteSetTheorems, SequenceTheorems, TLAPS

\* No request disables the protected role, or leaves it without the permissions that
\* it must have.
ProtectedRole ==
    /\ role[SuperAdmin] # None
    /\ role[SuperAdmin].active
    /\ Core \subseteq role[SuperAdmin].permissions

\* Administrators are never deleted, so a session has one.
SessionsHaveAnAdmin ==
    \A s \in Sessions : session[s] # None => admin[session[s].admin] # None

\* A request has an administrator and the session that admitted it; a login has read
\* the administrator.
JobsHaveWhatTheyRead ==
    \A c \in Clients : job[c] # None =>
        /\ admin[job[c].admin] # None
        /\ job[c].step = "login" => job[c].seen \in Snapshots
        /\ job[c].step # "login" => job[c].session # None /\ session[job[c].session] # None

\* The requests that are verifying a password of an administrator.
Changing(a) == {c \in Clients : job[c] # None /\ job[c].step = "change" /\ job[c].admin = a}

\* Wrong passwords, counted and still to be counted.  The limiter is asked before the
\* slow verification, hence the clients; the last that it admits is below the limit.
GuessesAreBounded ==
    \A a \in Admins : failures[a] + Cardinality(Changing(a)) < MaxFailures + Cardinality(Clients)

IInv ==
    /\ TypeOK
    /\ ProtectedRole
    /\ AssignedRolesAreActive
    /\ SessionsHaveAnAdmin
    /\ SessionsAreAsAtLogin
    /\ JobsHaveWhatTheyRead
    /\ GuessesAreBounded

----------------------------------------------------------------------------
(* The tables as they are read. *)

\* What is in the tables: accounts, roles and sessions, or nothing.
LEMMA RowsHaveTypes ==
  ASSUME TypeOK
  PROVE  /\ \A a \in Admins : admin[a] # None => admin[a] \in Accounts
         /\ \A r \in Roles : role[r] # None => role[r] \in RoleRows
  BY DEF TypeOK

\* What a login or a guard reads of an administrator has the type of a snapshot.
LEMMA StandingType ==
  ASSUME TypeOK, AssignedRolesAreActive, NEW a \in Admins, admin[a] # None
  PROVE  Granted(a) \in SUBSET Permissions /\ Standing(a) \in Snapshots
<1>1. admin[a] \in Accounts
  BY RowsHaveTypes
<1>2. \A r \in admin[a].roles : role[r] \in RoleRows
  BY <1>1, RowsHaveTypes DEF AssignedRolesAreActive, Accounts
<1>3. Granted(a) \in SUBSET Permissions
  BY <1>2 DEF Granted, ActiveRoles, RoleRows
<1> QED
  BY <1>1, <1>3 DEF Standing, Snapshots, Accounts

\* What is read of an administrator depends on its row and on the roles it holds.
LEMMA StandingKept ==
  ASSUME NEW a \in Admins,
         admin'[a].roles = admin[a].roles, admin'[a].password = admin[a].password,
         \A r \in admin[a].roles : role'[r] = role[r]
  PROVE  Standing(a)' = Standing(a)
<1>1. ActiveRoles(a)' = ActiveRoles(a)
  BY DEF ActiveRoles
<1>2. \A r \in ActiveRoles(a) : role'[r].permissions = role[r].permissions
  BY DEF ActiveRoles
<1>3. Granted(a)' = Granted(a)
  BY <1>1, <1>2 DEF Granted
<1> QED
  BY <1>3 DEF Standing

\* An administrator who holds the protected role and is active can administer.
LEMMA EnabledSuperAdministers ==
  ASSUME TypeOK, ProtectedRole, NEW a \in Admins
  PROVE  CanAdminister(a) <=> admin[a] # None /\ admin[a].active /\ SuperAdmin \in admin[a].roles
<1>1. ASSUME admin[a] # None, admin[a].active, SuperAdmin \in admin[a].roles
      PROVE  Core \subseteq Granted(a)
  BY <1>1 DEF ProtectedRole, Granted, ActiveRoles
<1> QED
  BY <1>1 DEF CanAdminister, IsEnabledSuper, ProtectedRole

----------------------------------------------------------------------------
(* Sessions that end, and requests in flight. *)

\* A step may end sessions, and changes nothing else of them.
SessionsOnlyEnd ==
    \A s \in Sessions : \/ session'[s] = session[s]
                        \/ session[s] # None /\ session'[s] = [session[s] EXCEPT !.live = FALSE]

\* A step may end requests, and changes nothing else of them.
JobsOnlyEnd == \A c \in Clients : job'[c] \in {job[c], None}

\* What is in a session or a request, where there is one.
LEMMA SessionAndJobTypes ==
  ASSUME TypeOK
  PROVE  /\ \A s \in Sessions : session[s] # None => session[s] \in SessionRows
         /\ \A c \in Clients : job[c] # None => job[c] \in RequestsInFlight
  BY DEF TypeOK

\* Revoking the sessions of administrators ends all of theirs and no other.
LEMMA Revoked ==
  ASSUME TypeOK, NEW as, session' = revokeSessions(as)
  PROVE  /\ session' \in [Sessions -> SessionRows \cup {None}]
         /\ SessionsOnlyEnd
         /\ \A s \in Sessions : Live(s)' => Live(s) /\ session[s].admin \notin as
<1>1. \A s \in Sessions : session[s] # None => session[s] \in SessionRows
  BY SessionAndJobTypes
<1>2. \A s \in Sessions : session'[s] = IF session[s] # None /\ session[s].admin \in as
                                        THEN [session[s] EXCEPT !.live = FALSE] ELSE session[s]
  BY DEF revokeSessions
<1>3. session' \in [Sessions -> SessionRows \cup {None}]
  BY <1>1 DEF revokeSessions, SessionRows
<1>4. SessionsOnlyEnd
  BY <1>2 DEF SessionsOnlyEnd
<1>5. \A s \in Sessions : Live(s)' => Live(s) /\ session[s].admin \notin as
  BY <1>1, <1>2 DEF Live, SessionRows
<1> QED
  BY <1>3, <1>4, <1>5

\* A session that stays live has not changed.
LEMMA LiveIsUnchanged ==
  ASSUME TypeOK, SessionsOnlyEnd, NEW s \in Sessions, Live(s)'
  PROVE  session'[s] = session[s] /\ Live(s)
<1>1. session[s] # None => session[s] \in SessionRows
  BY SessionAndJobTypes
<1> QED
  BY <1>1 DEF SessionsOnlyEnd, Live, SessionRows

\* Sessions keep what is said of them when they only end, administrators stay, and
\* the owners of those that stay live keep what can be read of them.
LEMMA SessionsKept ==
  ASSUME IInv, SessionsOnlyEnd,
         \A a \in Admins : admin[a] # None => admin'[a] # None,
         \A s \in Sessions, a \in Admins :
             (Live(s) /\ Live(s)' /\ ~session[s].late /\ session[s].admin = a /\ admin[a].active) =>
                 admin'[a].active /\ Standing(a)' = Standing(a)
  PROVE  SessionsHaveAnAdmin' /\ SessionsAreAsAtLogin'
<1>1. \A s \in Sessions : session[s] # None => session[s] \in SessionRows
  BY SessionAndJobTypes DEF IInv
<1>2. SessionsHaveAnAdmin'
  BY <1>1 DEF IInv, SessionsHaveAnAdmin, SessionsOnlyEnd, SessionRows
<1>3. ASSUME NEW s \in Sessions, NEW a \in Admins, Live(s)', ~session'[s].late, session'[s].admin = a
      PROVE  admin'[a].active /\ Standing(a)' = session'[s].seen
  <2>1. session'[s] = session[s] /\ Live(s)
    BY <1>3, LiveIsUnchanged DEF IInv
  <2>2. admin[a].active /\ Standing(a) = session[s].seen
    BY <1>3, <2>1 DEF IInv, SessionsAreAsAtLogin
  <2> QED
    BY <1>3, <2>1, <2>2
<1>4. SessionsAreAsAtLogin'
  <2> SUFFICES ASSUME NEW s \in Sessions, Live(s)', ~session'[s].late, NEW a, a = session'[s].admin
               PROVE  admin'[a].active /\ Standing(a)' = session'[s].seen
    BY DEF SessionsAreAsAtLogin
  <2>1. session'[s] = session[s] /\ Live(s)
    BY LiveIsUnchanged DEF IInv
  <2>2. a \in Admins
    BY <1>1, <2>1 DEF Live, SessionRows
  <2> QED
    BY <1>3, <2>2
<1> QED
  BY <1>2, <1>4

\* Requests keep what is said of them when they and the sessions only end and
\* administrators stay.
LEMMA JobsKept ==
  ASSUME IInv, SessionsOnlyEnd, JobsOnlyEnd,
         \A a \in Admins : admin[a] # None => admin'[a] # None
  PROVE  JobsHaveWhatTheyRead'
<1>1. \A s \in Sessions : session[s] # None => session'[s] # None
  <2> TAKE s \in Sessions
  <2>1. session[s] # None => session[s] \in SessionRows
    BY SessionAndJobTypes DEF IInv
  <2>2. session[s] # None => [session[s] EXCEPT !.live = FALSE] \in SessionRows
    BY <2>1 DEF SessionRows
  <2> QED
    BY <2>2, NoneIsNoRow DEF SessionsOnlyEnd
<1>2. \A c \in Clients : job[c] # None => job[c] \in RequestsInFlight
  BY SessionAndJobTypes DEF IInv
<1> QED
  BY <1>1, <1>2 DEF IInv, JobsHaveWhatTheyRead, JobsOnlyEnd, RequestsInFlight

----------------------------------------------------------------------------
(* Counting the passwords under verification. *)

\* At most all the clients verify the password of one administrator.
LEMMA ChangingIsFinite ==
  ASSUME NEW a
  PROVE  /\ IsFiniteSet(Changing(a)) /\ Cardinality(Changing(a)) \in Nat
         /\ Cardinality(Clients) \in Nat
         /\ Cardinality(Changing(a)) <= Cardinality(Clients)
<1>1. Changing(a) \subseteq Clients /\ IsFiniteSet(Clients)
  BY AccessAssumption DEF Changing
<1> QED
  BY <1>1, FS_Subset, FS_CardinalityType

\* The same of the state after the step.
LEMMA ChangingIsFiniteNext ==
  ASSUME NEW a
  PROVE  /\ IsFiniteSet(Changing(a)') /\ Cardinality(Changing(a)') \in Nat
         /\ Cardinality(Clients) \in Nat
         /\ Cardinality(Changing(a)') <= Cardinality(Clients)
<1>1. Changing(a)' \subseteq Clients /\ IsFiniteSet(Clients)
  BY AccessAssumption DEF Changing
<1> QED
  BY <1>1, FS_Subset, FS_CardinalityType

\* Guesses stay bounded when requests only end and no failure is added.
LEMMA GuessesKept ==
  ASSUME IInv, JobsOnlyEnd, failures' \in [Admins -> Nat],
         \A a \in Admins : failures'[a] <= failures[a]
  PROVE  GuessesAreBounded'
<1> SUFFICES ASSUME NEW a \in Admins
             PROVE  failures'[a] + Cardinality(Changing(a)') < MaxFailures + Cardinality(Clients)
  BY DEF GuessesAreBounded
<1>1. Changing(a)' \subseteq Changing(a)
  BY DEF Changing, JobsOnlyEnd
<1>2. Cardinality(Changing(a)') <= Cardinality(Changing(a))
  BY <1>1, ChangingIsFinite, FS_Subset
<1>3. failures[a] + Cardinality(Changing(a)) < MaxFailures + Cardinality(Clients)
  BY DEF IInv, GuessesAreBounded
<1> QED
  BY <1>2, <1>3, ChangingIsFinite, ChangingIsFiniteNext, AccessAssumption DEF IInv, TypeOK

----------------------------------------------------------------------------
(* Steps. *)

\* The tables at the start satisfy the invariant.
LEMMA InitIInv == Init => IInv
<1> SUFFICES ASSUME Init PROVE IInv
  OBVIOUS
<1> USE AccessAssumption, NoneIsNoRow DEF Init
<1>1. TypeOK
  <2>1. admin \in [Admins -> Accounts \cup {None}]
    BY DEF Accounts
  <2>2. role \in [Roles -> RoleRows \cup {None}]
    BY DEF RoleRows
  <2>3. /\ session \in [Sessions -> SessionRows \cup {None}]
        /\ job \in [Clients -> RequestsInFlight \cup {None}]
        /\ failures \in [Admins -> Nat]
        /\ operations \in 0..MaxOperations
    OBVIOUS
  <2> HIDE DEF Init
  <2> QED
    BY <2>1, <2>2, <2>3 DEF TypeOK
<1>2. ProtectedRole
  <2>1. [active |-> TRUE, permissions |-> Permissions] \in RoleRows
    BY DEF RoleRows
  <2> QED
    BY <2>1 DEF ProtectedRole
<1>3. AssignedRolesAreActive
  BY <1>2 DEF AssignedRolesAreActive, ProtectedRole
<1>4. SessionsHaveAnAdmin /\ SessionsAreAsAtLogin /\ JobsHaveWhatTheyRead
  BY DEF SessionsHaveAnAdmin, SessionsAreAsAtLogin, Live, JobsHaveWhatTheyRead
<1>5. GuessesAreBounded
  <2>1. \A a \in Admins : Changing(a) = {}
    BY DEF Changing
  <2> QED
    BY <2>1, ChangingIsFinite, FS_EmptySet DEF GuessesAreBounded
<1> QED
  BY <1>1, <1>2, <1>3, <1>4, <1>5 DEF IInv

\* A step that ends sessions and requests keeps the invariant when the tables it
\* leaves are right, and the owners of the sessions that stay are as they were.
LEMMA TableStep ==
  ASSUME IInv, TypeOK', SessionsOnlyEnd, JobsOnlyEnd,
         \A a \in Admins : admin[a] # None => admin'[a] # None,
         \A s \in Sessions, a \in Admins :
             (Live(s) /\ Live(s)' /\ ~session[s].late /\ session[s].admin = a /\ admin[a].active) =>
                 admin'[a].active /\ Standing(a)' = Standing(a),
         \A a \in Admins : failures'[a] <= failures[a],
         ProtectedRole', AssignedRolesAreActive'
  PROVE  IInv'
<1>1. SessionsHaveAnAdmin' /\ SessionsAreAsAtLogin'
  BY SessionsKept
<1>2. JobsHaveWhatTheyRead'
  BY JobsKept
<1>3. GuessesAreBounded'
  BY GuessesKept DEF TypeOK
<1> QED
  BY <1>1, <1>2, <1>3 DEF IInv

\* A step that only ends sessions and requests keeps the invariant.
LEMMA QuietStep ==
  ASSUME IInv, UNCHANGED <<admin, role, operations>>,
         session' \in [Sessions -> SessionRows \cup {None}], SessionsOnlyEnd,
         job' \in [Clients -> RequestsInFlight \cup {None}], JobsOnlyEnd,
         failures' \in [Admins -> Nat], \A a \in Admins : failures'[a] <= failures[a]
  PROVE  IInv'
<1>1. TypeOK'
  BY DEF IInv, TypeOK
<1>2. ProtectedRole' /\ AssignedRolesAreActive'
  BY DEF IInv, ProtectedRole, AssignedRolesAreActive
<1>3. \A a \in Admins : Standing(a)' = Standing(a)
  BY DEF Standing, Granted, ActiveRoles
<1> QED
  BY <1>1, <1>2, <1>3, TableStep

\* A request that ends leaves the others.
LEMMA JobEnded ==
  ASSUME TypeOK, NEW c \in Clients, End(c)
  PROVE  JobsOnlyEnd /\ job' \in [Clients -> RequestsInFlight \cup {None}]
  BY DEF TypeOK, End, JobsOnlyEnd

\* A session that ends leaves the others.
LEMMA SessionEnded ==
  ASSUME TypeOK, NEW s \in Sessions, session[s] # None,
         session' = [session EXCEPT ![s].live = FALSE]
  PROVE  SessionsOnlyEnd /\ session' \in [Sessions -> SessionRows \cup {None}]
<1>1. session[s] \in SessionRows
  BY SessionAndJobTypes
<1>2. [session[s] EXCEPT !.live = FALSE] \in SessionRows
  BY <1>1 DEF SessionRows
<1> QED
  BY <1>2 DEF TypeOK, SessionsOnlyEnd

\* No failure is added and the sessions stay: what most steps have in common.
LEMMA SessionsAndFailuresStay ==
  ASSUME TypeOK
  PROVE  /\ UNCHANGED failures => /\ failures' \in [Admins -> Nat]
                                  /\ \A a \in Admins : failures'[a] <= failures[a]
         /\ UNCHANGED session => /\ session' \in [Sessions -> SessionRows \cup {None}]
                                 /\ SessionsOnlyEnd
         /\ UNCHANGED job => /\ job' \in [Clients -> RequestsInFlight \cup {None}]
                             /\ JobsOnlyEnd
  BY DEF TypeOK, SessionsOnlyEnd, JobsOnlyEnd

\* The requests and the timers that end sessions, requests or the limiter's window.
LEMMA EndingSteps ==
  ASSUME IInv,
         \/ \E c \in Clients : Leave(c) \/ logout(c) \/ logoutAll(c) \/ AbandonChange(c)
         \/ \E c \in Clients, s \in Sessions : revokeSession(c, s)
         \/ \E s \in Sessions : Expire(s)
         \/ \E a \in Admins : Forget(a)
  PROVE  IInv'
<1> USE SessionsAndFailuresStay
<1>0. TypeOK
  BY DEF IInv
<1>1. ASSUME NEW c \in Clients, Leave(c) \/ AbandonChange(c) PROVE IInv'
  BY <1>0, <1>1, JobEnded, QuietStep DEF Leave, AbandonChange
<1>2. ASSUME NEW c \in Clients, logout(c) PROVE IInv'
  <2>1. job[c].session \in Sessions /\ session[job[c].session] # None
    BY <1>0, <1>2, SessionAndJobTypes
       DEF logout, Admitted, IInv, JobsHaveWhatTheyRead, RequestsInFlight
  <2>2. SessionsOnlyEnd /\ session' \in [Sessions -> SessionRows \cup {None}]
    BY <1>0, <1>2, <2>1, SessionEnded DEF logout
  <2> QED
    BY <1>0, <1>2, <2>2, JobEnded, QuietStep DEF logout
<1>3. ASSUME NEW c \in Clients, logoutAll(c) PROVE IInv'
  <2>1. SessionsOnlyEnd /\ session' \in [Sessions -> SessionRows \cup {None}]
    BY <1>0, <1>3, Revoked DEF logoutAll
  <2> QED
    BY <1>0, <1>3, <2>1, JobEnded, QuietStep DEF logoutAll
<1>4. ASSUME NEW c \in Clients, NEW s \in Sessions, revokeSession(c, s) PROVE IInv'
  <2>1. SessionsOnlyEnd /\ session' \in [Sessions -> SessionRows \cup {None}]
    BY <1>0, <1>4, SessionEnded DEF revokeSession, Live
  <2> QED
    BY <1>0, <1>4, <2>1, JobEnded, QuietStep DEF revokeSession
<1>5. ASSUME NEW s \in Sessions, Expire(s) PROVE IInv'
  <2>1. SessionsOnlyEnd /\ session' \in [Sessions -> SessionRows \cup {None}]
    BY <1>0, <1>5, SessionEnded DEF Expire, Live
  <2> QED
    BY <1>0, <1>5, <2>1, QuietStep DEF Expire
<1>6. ASSUME NEW a \in Admins, Forget(a) PROVE IInv'
  <2>1. failures' \in [Admins -> Nat] /\ \A b \in Admins : failures'[b] <= failures[b]
    BY <1>0, <1>6 DEF Forget, TypeOK
  <2> QED
    BY <1>0, <1>6, <2>1, QuietStep DEF Forget
<1> QED
  BY <1>1, <1>2, <1>3, <1>4, <1>5, <1>6

\* A request that is admitted, or begins to verify a password, has what it needs.
LEMMA BeginningSteps ==
  ASSUME IInv,
         \/ \E c \in Clients, a \in Admins : StartLogin(c, a)
         \/ \E c \in Clients, s \in Sessions : Admit(c, s)
         \/ \E c \in Clients : StartChange(c)
  PROVE  IInv'
<1> USE DEF Live
<1>0. TypeOK /\ AssignedRolesAreActive
  BY DEF IInv
<1>1. ASSUME UNCHANGED <<admin, role, session, failures, operations>>,
             NEW c \in Clients, NEW new \in RequestsInFlight, job' = [job EXCEPT ![c] = new],
             admin[new.admin] # None, new.step = "login" => new.seen \in Snapshots,
             new.step # "login" => new.session # None /\ session[new.session] # None,
             new.step = "change" => failures[new.admin] < MaxFailures
      PROVE  IInv'
  <2>1. TypeOK' /\ ProtectedRole' /\ AssignedRolesAreActive'
    BY <1>1 DEF IInv, TypeOK, ProtectedRole, AssignedRolesAreActive
  <2>2. SessionsHaveAnAdmin' /\ SessionsAreAsAtLogin'
    BY <1>1 DEF IInv, SessionsHaveAnAdmin, SessionsAreAsAtLogin, Standing, Granted, ActiveRoles
  <2>3. JobsHaveWhatTheyRead'
    BY <1>1 DEF IInv, TypeOK, JobsHaveWhatTheyRead
  <2>4. GuessesAreBounded'
    <3> SUFFICES ASSUME NEW a \in Admins
                 PROVE  failures[a] + Cardinality(Changing(a)') < MaxFailures + Cardinality(Clients)
      BY <1>1 DEF GuessesAreBounded
    <3>1. CASE new.step = "change" /\ new.admin = a
      BY <1>1, <3>1, ChangingIsFiniteNext, AccessAssumption DEF IInv, TypeOK
    <3>2. CASE ~(new.step = "change" /\ new.admin = a)
      <4>1. Changing(a)' \subseteq Changing(a)
        BY <1>0, <1>1, <3>2 DEF Changing, TypeOK
      <4>2. Cardinality(Changing(a)') <= Cardinality(Changing(a))
        BY <4>1, ChangingIsFinite, FS_Subset
      <4> QED
        BY <4>2, ChangingIsFinite, ChangingIsFiniteNext, AccessAssumption
           DEF IInv, TypeOK, GuessesAreBounded
    <3> QED
      BY <3>1, <3>2
  <2> QED
    BY <2>1, <2>2, <2>3, <2>4 DEF IInv
<1>2. ASSUME NEW c \in Clients, NEW a \in Admins, StartLogin(c, a) PROVE IInv'
  <2> DEFINE new == [step |-> "login", admin |-> a, session |-> None, may |-> {}, seen |-> Standing(a)]
  <2>1. Standing(a) \in Snapshots /\ admin[a] # None
    BY <1>0, <1>2, StandingType DEF StartLogin, MayEnter
  <2>2. new \in RequestsInFlight
    BY <2>1 DEF RequestsInFlight
  <2> QED
    BY <1>1, <1>2, <2>1, <2>2 DEF StartLogin
<1>3. ASSUME NEW c \in Clients, NEW s \in Sessions, Admit(c, s) PROVE IInv'
  <2> DEFINE a   == session[s].admin
             new == [step |-> "request", admin |-> a, session |-> s, may |-> Granted(a), seen |-> None]
  <2>1. a \in Admins /\ admin[a] # None /\ session[s] # None
    BY <1>0, <1>3, SessionAndJobTypes DEF Admit, MayEnter, SessionRows
  <2>2. Granted(a) \in SUBSET Permissions
    BY <1>0, <2>1, StandingType
  <2>3. new \in RequestsInFlight
    BY <2>1, <2>2 DEF RequestsInFlight
  <2>4. s # None
    BY AccessAssumption
  <2> QED
    BY <1>1, <1>3, <2>1, <2>3, <2>4 DEF Admit
<1>4. ASSUME NEW c \in Clients, StartChange(c) PROVE IInv'
  <2> DEFINE a   == job[c].admin
             new == [job[c] EXCEPT !.step = "change", !.seen = Standing(a)]
  <2>1. job[c] \in RequestsInFlight /\ job[c] # None /\ job[c].step = "request"
    BY <1>0, <1>4, SessionAndJobTypes DEF StartChange, Admitted
  <2>2. /\ admin[a] # None /\ a \in Admins
        /\ job[c].session # None /\ session[job[c].session] # None
    BY <2>1 DEF IInv, JobsHaveWhatTheyRead, RequestsInFlight
  <2>3. Standing(a) \in Snapshots
    BY <1>0, <2>2, StandingType
  <2>4. /\ new \in RequestsInFlight
        /\ new.step = "change" /\ new.admin = a /\ new.session = job[c].session
    BY <2>1, <2>3 DEF RequestsInFlight
  <2>5. job' = [job EXCEPT ![c] = new] /\ UNCHANGED <<admin, role, session, failures, operations>>
    BY <1>4 DEF StartChange
  <2>6. failures[a] < MaxFailures
    BY <1>4 DEF StartChange, Allowed
  <2>7. /\ admin[new.admin] # None /\ new.step # "login"
        /\ new.session # None /\ session[new.session] # None /\ failures[new.admin] < MaxFailures
    BY <2>2, <2>4, <2>6
  <2> HIDE DEF new
  <2> QED
    BY <1>1, <2>4, <2>5, <2>7
<1> QED
  BY <1>2, <1>3, <1>4

\* A session that a login ends with is that of the account as the login saw it, or
\* is known to be late.
LEMMA CompleteLoginStep ==
  ASSUME IInv, NEW c \in Clients, NEW s \in Sessions, CompleteLogin(c, s)
  PROVE  IInv'
<1> DEFINE a == job[c].admin
<1>1. /\ job[c] # None /\ a \in Admins /\ admin[a] # None /\ job[c].seen \in Snapshots
  BY SessionAndJobTypes DEF CompleteLogin, IInv, JobsHaveWhatTheyRead, RequestsInFlight
<1> DEFINE late == ~MayEnter(a) \/ Standing(a) # job[c].seen
           new  == [admin |-> a, seen |-> job[c].seen, live |-> TRUE, late |-> late]
<1>2. new \in SessionRows /\ new # None
  <2>1. late \in BOOLEAN
    OBVIOUS
  <2>2. new \in SessionRows
    BY <1>1, <2>1 DEF SessionRows
  <2> QED
    BY <2>2, NoneIsNoRow
<1>3. session' = [session EXCEPT ![s] = new] /\ session[s] = None
  BY DEF CompleteLogin
<1>4. JobsOnlyEnd /\ job' \in [Clients -> RequestsInFlight \cup {None}]
  BY JobEnded DEF CompleteLogin, IInv
<1>5. TypeOK'
  BY <1>2, <1>3, <1>4 DEF CompleteLogin, IInv, TypeOK
<1>6. ProtectedRole' /\ AssignedRolesAreActive'
  BY DEF CompleteLogin, IInv, ProtectedRole, AssignedRolesAreActive
<1>7. SessionsHaveAnAdmin'
  BY <1>1, <1>3 DEF CompleteLogin, IInv, TypeOK, SessionsHaveAnAdmin
<1>8. SessionsAreAsAtLogin'
  <2>1. UNCHANGED <<admin, role>>
    BY DEF CompleteLogin
  <2>2. \A b \in Admins : Standing(b)' = Standing(b)
    BY <2>1 DEF Standing, Granted, ActiveRoles
  <2> SUFFICES ASSUME NEW t \in Sessions, Live(t)', ~session'[t].late, NEW b, b = session'[t].admin
               PROVE  admin[b].active /\ Standing(b)' = session'[t].seen
    BY <2>1 DEF SessionsAreAsAtLogin
  <2>3. CASE t = s
    <3>1. session'[t] = new
      BY <1>3, <2>3 DEF IInv, TypeOK
    <3> HIDE DEF late
    <3>2. ~late /\ new.seen = job[c].seen /\ b = a
      BY <3>1
    <3>3. MayEnter(a) /\ Standing(a) = job[c].seen
      BY <3>2 DEF late
    <3> QED
      BY <1>1, <2>2, <3>1, <3>2, <3>3 DEF MayEnter
  <2>4. CASE t # s
    <3>1. session'[t] = session[t]
      BY <1>3, <2>4 DEF IInv, TypeOK
    <3>2. Live(t) /\ b \in Admins
      BY <3>1, SessionAndJobTypes DEF IInv, Live, SessionRows
    <3> QED
      BY <2>2, <3>1, <3>2 DEF IInv, SessionsAreAsAtLogin
  <2> QED
    BY <2>3, <2>4
<1>9. JobsHaveWhatTheyRead'
  BY <1>2, <1>3, <1>4 DEF CompleteLogin, IInv, TypeOK, JobsHaveWhatTheyRead, JobsOnlyEnd
<1>10. GuessesAreBounded'
  BY <1>4, GuessesKept DEF CompleteLogin, IInv, TypeOK
<1> QED
  BY <1>5, <1>6, <1>7, <1>8, <1>9, <1>10 DEF IInv

\* A wrong password is counted when it is no longer under verification.
LEMMA FailChangeStep ==
  ASSUME IInv, NEW c \in Clients, FailChange(c)
  PROVE  IInv'
<1> USE SessionsAndFailuresStay
<1> DEFINE a == job[c].admin
<1>1. TypeOK /\ a \in Admins
  BY SessionAndJobTypes DEF FailChange, IInv, RequestsInFlight
<1>2. JobsOnlyEnd /\ job' \in [Clients -> RequestsInFlight \cup {None}] /\ SessionsOnlyEnd
  BY <1>1, JobEnded DEF FailChange
<1>3. failures' = [failures EXCEPT ![a] = failures[a] + 1] /\ UNCHANGED <<admin, role, session, operations>>
  BY DEF FailChange
<1>4. TypeOK'
  BY <1>1, <1>2, <1>3 DEF TypeOK
<1>5. ProtectedRole' /\ AssignedRolesAreActive'
  BY <1>3 DEF IInv, ProtectedRole, AssignedRolesAreActive
<1>6. \A b \in Admins : Standing(b)' = Standing(b)
  BY <1>3 DEF Standing, Granted, ActiveRoles
<1>7. SessionsHaveAnAdmin' /\ SessionsAreAsAtLogin' /\ JobsHaveWhatTheyRead'
  BY <1>2, <1>3, <1>6, SessionsKept, JobsKept
<1>8. GuessesAreBounded'
  <2> SUFFICES ASSUME NEW b \in Admins
               PROVE  failures'[b] + Cardinality(Changing(b)') < MaxFailures + Cardinality(Clients)
    BY DEF GuessesAreBounded
  <2>1. failures[b] + Cardinality(Changing(b)) < MaxFailures + Cardinality(Clients)
    BY DEF IInv, GuessesAreBounded
  <2>2. Changing(b)' \subseteq Changing(b)
    BY <1>2 DEF Changing, JobsOnlyEnd
  <2>3. Cardinality(Changing(b)') <= Cardinality(Changing(b))
    BY <2>2, ChangingIsFinite, FS_Subset
  <2>4. CASE b = a
    <3>1. c \in Changing(b) /\ c \notin Changing(b)'
      BY <1>1, <2>4 DEF FailChange, Changing, End, TypeOK
    <3>2. Changing(b)' \subseteq Changing(b) \ {c}
      BY <2>2, <3>1
    <3>3. IsFiniteSet(Changing(b) \ {c}) /\ Cardinality(Changing(b) \ {c}) = Cardinality(Changing(b)) - 1
      BY <3>1, ChangingIsFinite, FS_RemoveElement
    <3>4. Cardinality(Changing(b)') <= Cardinality(Changing(b)) - 1
      BY <3>2, <3>3, FS_Subset
    <3>5. failures'[b] = failures[b] + 1
      BY <1>1, <1>3, <2>4 DEF TypeOK
    <3> QED
      BY <1>1, <2>1, <3>4, <3>5, ChangingIsFinite, ChangingIsFiniteNext, AccessAssumption DEF TypeOK
  <2>5. CASE b # a
    <3>1. failures'[b] = failures[b]
      BY <1>1, <1>3, <2>5 DEF TypeOK
    <3> QED
      BY <1>1, <2>1, <2>3, <3>1, ChangingIsFinite, ChangingIsFiniteNext, AccessAssumption DEF TypeOK
  <2> QED
    BY <2>4, <2>5
<1> QED
  BY <1>4, <1>5, <1>7, <1>8 DEF IInv

----------------------------------------------------------------------------
(* Steps that write accounts. *)

\* Writing one account, and ending all its sessions where what is read of it changes,
\* keeps the invariant, whatever the request then does.
LEMMA AccountStep ==
  ASSUME IInv, NEW a \in Admins, NEW row \in Accounts, admin' = [admin EXCEPT ![a] = row],
         row.roles # {}, \A r \in row.roles : role[r] # None /\ role[r].active,
         UNCHANGED role, operations' \in 0..MaxOperations,
         job' \in [Clients -> RequestsInFlight \cup {None}], JobsOnlyEnd,
         failures' \in [Admins -> Nat], \A b \in Admins : failures'[b] <= failures[b],
         \/ session' = revokeSessions({a})
         \/ UNCHANGED session /\ admin[a] = None
         \/ /\ UNCHANGED session
            /\ row.roles = admin[a].roles /\ row.password = admin[a].password
            /\ admin[a].active => row.active
  PROVE  IInv'
<1>0. TypeOK
  BY DEF IInv
<1>1. /\ session' \in [Sessions -> SessionRows \cup {None}] /\ SessionsOnlyEnd
      /\ session' = revokeSessions({a}) =>
            \A s \in Sessions : Live(s)' => Live(s) /\ session[s].admin # a
  BY <1>0, Revoked, SessionsAndFailuresStay
<1>2. /\ admin'[a] = row /\ row # None
      /\ \A b \in Admins \ {a} : admin'[b] = admin[b]
  BY <1>0, NoneIsNoRow DEF TypeOK
<1>3. TypeOK'
  BY <1>0, <1>1 DEF TypeOK
<1>4. ProtectedRole' /\ AssignedRolesAreActive'
  BY <1>2 DEF IInv, ProtectedRole, AssignedRolesAreActive
<1>5. \A b \in Admins \ {a} : Standing(b)' = Standing(b)
  BY <1>2, StandingKept
<1>6. ASSUME NEW s \in Sessions, NEW b \in Admins,
             Live(s), Live(s)', session[s].admin = b, admin[b].active
      PROVE  admin'[b].active /\ Standing(b)' = Standing(b)
  <2>1. CASE b # a
    BY <1>2, <1>5, <1>6, <2>1
  <2>2. CASE b = a
    <3>1. admin[a] # None
      BY <1>6, <2>2 DEF IInv, SessionsHaveAnAdmin, Live
    <3>2. row.roles = admin[a].roles /\ row.password = admin[a].password /\ row.active
      BY <1>1, <1>6, <2>2, <3>1
    <3> QED
      BY <1>2, <2>2, <3>2, StandingKept
  <2> QED
    BY <2>1, <2>2
<1> QED
  BY <1>1, <1>2, <1>3, <1>4, <1>6, TableStep

\* Somebody changes their own password, and the sessions end in the same transaction.
LEMMA CommitChangeStep ==
  ASSUME IInv, NEW c \in Clients, CommitChange(c)
  PROVE  IInv'
<1> DEFINE a   == job[c].admin
           row == [admin[a] EXCEPT !.password = @ + 1]
<1>1. TypeOK /\ a \in Admins /\ admin[a] # None
  BY SessionAndJobTypes DEF CommitChange, IInv, JobsHaveWhatTheyRead, RequestsInFlight
<1>2. admin[a] \in Accounts /\ admin[a].password < MaxPassword
  BY <1>1, RowsHaveTypes DEF CommitChange
<1>3. row \in Accounts /\ row.roles = admin[a].roles
  BY <1>2, AccessAssumption DEF Accounts
<1>4. /\ admin' = [admin EXCEPT ![a] = row] /\ session' = revokeSessions({a})
      /\ failures' = [failures EXCEPT ![a] = 0] /\ UNCHANGED <<role, operations>>
  BY DEF CommitChange
<1>5. JobsOnlyEnd /\ job' \in [Clients -> RequestsInFlight \cup {None}]
  BY <1>1, JobEnded DEF CommitChange
<1>6. failures' \in [Admins -> Nat] /\ \A b \in Admins : failures'[b] <= failures[b]
  BY <1>1, <1>4 DEF TypeOK
<1>7. admin[a].roles # {} /\ \A r \in admin[a].roles : role[r] # None /\ role[r].active
  BY <1>1 DEF IInv, AssignedRolesAreActive
<1> HIDE DEF a, row
<1> QED
  BY <1>1, <1>3, <1>4, <1>5, <1>6, <1>7, AccountStep DEF TypeOK

\* What an operation of an administrator has in common: it counts, ends, and leaves
\* the limiter alone.
LEMMA Operating ==
  ASSUME TypeOK, Operate, NEW c \in Clients, End(c), UNCHANGED failures
  PROVE  /\ operations' \in 0..MaxOperations
         /\ JobsOnlyEnd /\ job' \in [Clients -> RequestsInFlight \cup {None}]
         /\ failures' \in [Admins -> Nat] /\ \A a \in Admins : failures'[a] <= failures[a]
  BY JobEnded, SessionsAndFailuresStay, AccessAssumption DEF TypeOK, Operate

\* An administrator is created with roles that are in force.
LEMMA CreateAdminStep ==
  ASSUME IInv, NEW c \in Clients, NEW a \in Admins, NEW rs \in SomeRoles, NEW b \in BOOLEAN,
         createAdmin(c, a, rs, b)
  PROVE  IInv'
<1> DEFINE row == [active |-> b, roles |-> rs, password |-> 0]
<1>1. row \in Accounts /\ row.roles = rs /\ rs # {}
  BY AccessAssumption DEF Accounts, SomeRoles
<1>2. /\ admin' = [admin EXCEPT ![a] = row] /\ admin[a] = None /\ Operate /\ End(c)
      /\ UNCHANGED <<role, session, failures>> /\ requireActiveRoles(rs)
  BY DEF createAdmin
<1> HIDE DEF row
<1> QED
  BY <1>1, <1>2, Operating, AccountStep DEF IInv, requireActiveRoles

\* An administrator gets other roles, or is disabled, and loses the sessions.
LEMMA UpdateAdminStep ==
  ASSUME IInv, NEW c \in Clients, NEW a \in Admins, NEW given \in SomeRoles \cup {None},
         NEW b \in BOOLEAN, updateAdmin(c, a, given, b)
  PROVE  IInv'
<1> DEFINE rs  == IF given = None THEN admin[a].roles ELSE given
           row == [admin[a] EXCEPT !.roles = rs, !.active = b]
<1>1. /\ admin[a] # None /\ Operate /\ End(c) /\ UNCHANGED <<role, failures>>
      /\ given # None => requireActiveRoles(given)
      /\ admin' = [admin EXCEPT ![a].roles = rs, ![a].active = b]
      /\ session' = IF rs # admin[a].roles \/ (admin[a].active /\ ~b)
                    THEN revokeSessions({a}) ELSE session
  BY DEF updateAdmin
<1>2. TypeOK /\ admin[a] \in Accounts
  BY <1>1, RowsHaveTypes DEF IInv
<1>3. rs # {} /\ rs \in SUBSET Roles /\ \A r \in rs : role[r] # None /\ role[r].active
  BY <1>1, <1>2 DEF IInv, AssignedRolesAreActive, Accounts, SomeRoles, requireActiveRoles
<1>4. /\ row \in Accounts
      /\ row.roles = rs /\ row.active = b /\ row.password = admin[a].password
  BY <1>2, <1>3 DEF Accounts
<1>5. admin' = [admin EXCEPT ![a] = row]
  BY <1>1, <1>2 DEF TypeOK
<1> HIDE DEF rs, row
<1> QED
  BY <1>1, <1>2, <1>3, <1>4, <1>5, Operating, AccountStep

\* An administrator is disabled and loses the sessions, or is enabled.
LEMMA SetAdminEnabledStep ==
  ASSUME IInv, NEW c \in Clients, NEW a \in Admins, NEW enabled \in BOOLEAN,
         setAdminEnabled(c, a, enabled)
  PROVE  IInv'
<1> DEFINE row == [admin[a] EXCEPT !.active = enabled]
<1>1. /\ admin[a] # None /\ Operate /\ End(c) /\ UNCHANGED <<role, failures>>
      /\ admin' = [admin EXCEPT ![a] = row]
      /\ session' = IF enabled THEN session ELSE revokeSessions({a})
  BY DEF setAdminEnabled
<1>2. TypeOK /\ admin[a] \in Accounts
  BY <1>1, RowsHaveTypes DEF IInv
<1>3. /\ row \in Accounts
      /\ row.roles = admin[a].roles /\ row.active = enabled /\ row.password = admin[a].password
  BY <1>2 DEF Accounts
<1>4. admin[a].roles # {} /\ \A r \in admin[a].roles : role[r] # None /\ role[r].active
  BY <1>1 DEF IInv, AssignedRolesAreActive
<1> HIDE DEF row
<1> QED
  BY <1>1, <1>2, <1>3, <1>4, Operating, AccountStep

\* A password is reset and the sessions end.
LEMMA ResetPasswordStep ==
  ASSUME IInv, NEW c \in Clients, NEW a \in Admins, resetPassword(c, a)
  PROVE  IInv'
<1> DEFINE row == [admin[a] EXCEPT !.password = @ + 1]
<1>1. /\ admin[a] # None /\ Operate /\ End(c) /\ UNCHANGED <<role, failures>>
      /\ admin' = [admin EXCEPT ![a] = row] /\ session' = revokeSessions({a})
      /\ admin[a].password < MaxPassword
  BY DEF resetPassword
<1>2. TypeOK /\ admin[a] \in Accounts
  BY <1>1, RowsHaveTypes DEF IInv
<1>3. row \in Accounts /\ row.roles = admin[a].roles
  BY <1>1, <1>2, AccessAssumption DEF Accounts
<1>4. admin[a].roles # {} /\ \A r \in admin[a].roles : role[r] # None /\ role[r].active
  BY <1>1 DEF IInv, AssignedRolesAreActive
<1> HIDE DEF row
<1> QED
  BY <1>1, <1>2, <1>3, <1>4, Operating, AccountStep

\* The command line gives an administrator one role that is in force.
LEMMA ProvisionAdminStep ==
  ASSUME IInv, NEW a \in Admins, NEW r \in Roles, provisionAdmin(a, r)
  PROVE  IInv'
<1>1. /\ TypeOK /\ Operate /\ role[r] # None /\ role[r].active /\ UNCHANGED <<role, job, failures>>
  BY DEF provisionAdmin, IInv
<1>2. /\ operations' \in 0..MaxOperations
      /\ JobsOnlyEnd /\ job' \in [Clients -> RequestsInFlight \cup {None}]
      /\ failures' \in [Admins -> Nat] /\ \A b \in Admins : failures'[b] <= failures[b]
  BY <1>1, SessionsAndFailuresStay, AccessAssumption DEF TypeOK, Operate
<1>3. CASE admin[a] = None
  <2> DEFINE row == [active |-> TRUE, roles |-> {r}, password |-> 0]
  <2>1. row \in Accounts /\ row.roles = {r}
    BY AccessAssumption DEF Accounts
  <2>2. admin' = [admin EXCEPT ![a] = row] /\ UNCHANGED session
    BY <1>3 DEF provisionAdmin
  <2> HIDE DEF row
  <2> QED
    BY <1>1, <1>2, <1>3, <2>1, <2>2, AccountStep
<1>4. CASE admin[a] # None
  <2> DEFINE row == [active |-> TRUE, roles |-> {r}, password |-> admin[a].password + 1]
  <2>1. admin[a] \in Accounts /\ admin[a].password < MaxPassword
    BY <1>1, <1>4, RowsHaveTypes DEF provisionAdmin
  <2>2. row \in Accounts /\ row.roles = {r}
    BY <2>1, AccessAssumption DEF Accounts
  <2>3. admin' = [admin EXCEPT ![a] = row] /\ session' = revokeSessions({a})
    BY <1>4 DEF provisionAdmin
  <2> HIDE DEF row
  <2> QED
    BY <1>1, <1>2, <2>2, <2>3, AccountStep
<1> QED
  BY <1>3, <1>4

----------------------------------------------------------------------------
(* Steps that write roles. *)

\* Writing one role keeps the invariant when nobody holds it, or it stays in force and
\* the sessions of those who hold it end or its permissions stay.
LEMMA RoleRowStep ==
  ASSUME IInv, NEW r \in Roles, NEW row \in RoleRows, role' = [role EXCEPT ![r] = row],
         UNCHANGED <<admin, failures>>, operations' \in 0..MaxOperations,
         job' \in [Clients -> RequestsInFlight \cup {None}], JobsOnlyEnd,
         row.active \/ (r # SuperAdmin /\ Holders(r) = {}),
         r = SuperAdmin => Core \subseteq row.permissions,
         \/ session' = revokeSessions(Holders(r))
         \/ UNCHANGED session /\ Holders(r) = {}
         \/ UNCHANGED session /\ row = role[r]
  PROVE  IInv'
<1>0. TypeOK
  BY DEF IInv
<1>1. /\ session' \in [Sessions -> SessionRows \cup {None}] /\ SessionsOnlyEnd
      /\ session' = revokeSessions(Holders(r)) =>
            \A s \in Sessions : Live(s)' => Live(s) /\ session[s].admin \notin Holders(r)
  BY <1>0, Revoked, SessionsAndFailuresStay
<1>2. /\ role'[r] = row /\ row # None
      /\ \A q \in Roles \ {r} : role'[q] = role[q]
  BY <1>0, NoneIsNoRow DEF TypeOK
<1>3. TypeOK'
  BY <1>0, <1>1 DEF TypeOK
<1>4. ProtectedRole'
  BY <1>2, AccessAssumption DEF IInv, ProtectedRole
<1>5. \A a \in Admins : admin[a] # None => admin[a].roles \subseteq Roles
  BY <1>0, RowsHaveTypes DEF Accounts
<1>6. AssignedRolesAreActive'
  BY <1>2, <1>5 DEF IInv, AssignedRolesAreActive, Holders
<1>7. ASSUME NEW s \in Sessions, NEW a \in Admins,
             Live(s), Live(s)', session[s].admin = a, admin[a].active
      PROVE  admin'[a].active /\ Standing(a)' = Standing(a)
  <2>1. admin[a] # None
    BY <1>7 DEF IInv, SessionsHaveAnAdmin, Live
  <2>2. row = role[r] \/ r \notin admin[a].roles
    BY <1>1, <1>7, <2>1 DEF Holders
  <2>3. \A q \in admin[a].roles : role'[q] = role[q]
    BY <1>2, <1>5, <2>1, <2>2
  <2> QED
    BY <1>7, <2>3, StandingKept
<1> QED
  BY <1>0, <1>1, <1>3, <1>4, <1>6, <1>7, TableStep DEF TypeOK

\* A role that is created is held by nobody.
LEMMA CreateRoleStep ==
  ASSUME IInv, NEW c \in Clients, NEW r \in Roles, NEW ps \in SomePermissions, NEW b \in BOOLEAN,
         createRole(c, r, ps, b)
  PROVE  IInv'
<1> DEFINE row == [active |-> b, permissions |-> ps]
<1>1. row \in RoleRows
  BY DEF RoleRows, SomePermissions
<1>2. /\ role[r] = None /\ Operate /\ End(c) /\ UNCHANGED <<admin, session, failures>>
      /\ role' = [role EXCEPT ![r] = row]
  BY DEF createRole
<1>3. r # SuperAdmin /\ Holders(r) = {}
  BY <1>2 DEF IInv, ProtectedRole, AssignedRolesAreActive, Holders
<1> HIDE DEF row
<1> QED
  BY <1>1, <1>2, <1>3, Operating, RoleRowStep DEF IInv

\* A role keeps its holders in force, and they lose their sessions with its permissions.
LEMMA UpdateRoleStep ==
  ASSUME IInv, NEW c \in Clients, NEW r \in Roles, NEW ps \in SomePermissions, NEW b \in BOOLEAN,
         updateRole(c, r, ps, b)
  PROVE  IInv'
<1> DEFINE row == [active |-> b, permissions |-> ps]
<1>1. row \in RoleRows
  BY DEF RoleRows, SomePermissions
<1>2. /\ role[r] # None /\ Operate /\ End(c) /\ UNCHANGED <<admin, failures>>
      /\ role' = [role EXCEPT ![r] = row]
      /\ (role[r].active /\ ~b) => r # SuperAdmin /\ Holders(r) = {}
      /\ (r = SuperAdmin /\ ps # role[r].permissions) => Core \subseteq ps
      /\ session' = IF ps # role[r].permissions THEN revokeSessions(Holders(r)) ELSE session
  BY DEF updateRole, MayDisable
<1>3. role[r] \in RoleRows
  BY <1>2, RowsHaveTypes DEF IInv
<1>4. ~role[r].active => r # SuperAdmin /\ Holders(r) = {}
  BY DEF IInv, ProtectedRole, AssignedRolesAreActive, Holders
<1>5. row.active = b /\ row.permissions = ps
  OBVIOUS
<1>6. row.active \/ (r # SuperAdmin /\ Holders(r) = {})
  BY <1>2, <1>4, <1>5
<1>7. r = SuperAdmin => Core \subseteq row.permissions
  BY <1>2, <1>5 DEF IInv, ProtectedRole
<1>8. \/ session' = revokeSessions(Holders(r))
      \/ UNCHANGED session /\ Holders(r) = {}
      \/ UNCHANGED session /\ row = role[r]
  <2>1. CASE ps # role[r].permissions
    BY <1>2, <2>1
  <2>2. CASE ps = role[r].permissions /\ b = role[r].active
    <3>1. row = role[r]
      BY <1>3, <2>2 DEF RoleRows
    <3> QED
      BY <1>2, <2>2, <3>1
  <2>3. CASE ps = role[r].permissions /\ b # role[r].active
    <3>1. Holders(r) = {}
      BY <1>2, <1>3, <1>4, <2>3 DEF RoleRows
    <3> QED
      BY <1>2, <2>3, <3>1
  <2> QED
    BY <2>1, <2>2, <2>3
<1> HIDE DEF row
<1> QED
  BY <1>1, <1>2, <1>6, <1>7, <1>8, Operating, RoleRowStep DEF IInv

\* A role is disabled when nobody holds it; nobody can hold one that is enabled.
LEMMA SetRoleEnabledStep ==
  ASSUME IInv, NEW c \in Clients, NEW r \in Roles, NEW enabled \in BOOLEAN,
         setRoleEnabled(c, r, enabled)
  PROVE  IInv'
<1> DEFINE row == [role[r] EXCEPT !.active = enabled]
<1>1. /\ role[r] # None /\ Operate /\ End(c) /\ UNCHANGED <<admin, failures>>
      /\ role' = [role EXCEPT ![r] = row] /\ role[r].active # enabled
      /\ ~enabled => r # SuperAdmin /\ Holders(r) = {}
      /\ session' = IF enabled THEN session ELSE revokeSessions(Holders(r))
  BY DEF setRoleEnabled, MayDisable
<1>2. role[r] \in RoleRows
  BY <1>1, RowsHaveTypes DEF IInv
<1>3. row \in RoleRows /\ row.active = enabled /\ row.permissions = role[r].permissions
  BY <1>2 DEF RoleRows
<1>4. ~role[r].active => r # SuperAdmin /\ Holders(r) = {}
  BY DEF IInv, ProtectedRole, AssignedRolesAreActive, Holders
<1>5. enabled => ~role[r].active
  BY <1>1, <1>2 DEF RoleRows
<1>6. r # SuperAdmin /\ Holders(r) = {}
  BY <1>1, <1>4, <1>5
<1> HIDE DEF row
<1> QED
  BY <1>1, <1>3, <1>6, Operating, RoleRowStep DEF IInv

----------------------------------------------------------------------------
(* Results. *)

\* Every step keeps the invariant.
LEMMA NextIInv == IInv /\ [Next]_vars => IInv'
<1> SUFFICES ASSUME IInv, [Next]_vars PROVE IInv'
  OBVIOUS
<1>1. CASE SessionStep
  BY <1>1, EndingSteps, BeginningSteps, CompleteLoginStep, FailChangeStep, CommitChangeStep
     DEF SessionStep
<1>2. CASE AdminStep
  BY <1>2, CreateAdminStep, UpdateAdminStep, SetAdminEnabledStep, ResetPasswordStep DEF AdminStep
<1>3. CASE RoleStep
  BY <1>3, CreateRoleStep, UpdateRoleStep, SetRoleEnabledStep DEF RoleStep
<1>4. CASE Provisioning
  BY <1>4, ProvisionAdminStep DEF Provisioning
<1>5. CASE UNCHANGED vars
  BY <1>5, QuietStep, SessionsAndFailuresStay DEF vars, IInv
<1> QED
  BY <1>1, <1>2, <1>3, <1>4, <1>5 DEF Next

\* The invariant holds of every reachable state.
LEMMA Invariance == Spec => []IInv
  BY InitIInv, NextIInv, PTL DEF Spec

\* For any administrators, roles, sessions and overlapping requests: assigned roles are
\* in force, live sessions are those of the account as it stands, and wrong passwords
\* are bounded by the limit and the requests in flight.
THEOREM AccessIsAsGranted == Spec => []AccessInv
<1>1. IInv => FailuresAreBounded
  <2> SUFFICES ASSUME IInv, NEW a \in Admins
               PROVE  failures[a] < MaxFailures + Cardinality(Clients)
    BY DEF FailuresAreBounded
  <2>1. failures[a] + Cardinality(Changing(a)) < MaxFailures + Cardinality(Clients)
    BY DEF IInv, GuessesAreBounded
  <2> QED
    BY <2>1, ChangingIsFinite, AccessAssumption DEF IInv, TypeOK
<1>2. IInv => AccessInv
  BY <1>1 DEF IInv, AccessInv
<1> QED
  BY <1>2, Invariance, PTL

\* No step of the API takes the last administrator who can manage administrators and
\* roles away: it checks for another in the transaction that disables or demotes one,
\* and super_admin keeps what it must have.
THEOREM AdministrationIsNeverLost == Spec => SomebodyCanAdminister
<1>1. ASSUME IInv, IInv', Next, ~Provisioning, NEW a \in Admins, CanAdminister(a)
      PROVE  \E b \in Admins : CanAdminister(b)'
  <2>1. /\ TypeOK /\ ProtectedRole /\ TypeOK' /\ ProtectedRole'
        /\ admin[a] # None /\ admin[a].active /\ SuperAdmin \in admin[a].roles
    BY <1>1, EnabledSuperAdministers DEF IInv
  <2>2. \A b \in Admins : CanAdminister(b)' <=>
            admin'[b] # None /\ admin'[b].active /\ SuperAdmin \in admin'[b].roles
    <3>1. ASSUME NEW b \in Admins, admin'[b] # None, admin'[b].active, SuperAdmin \in admin'[b].roles
          PROVE  Core \subseteq Granted(b)'
      BY <2>1, <3>1 DEF ProtectedRole, Granted, ActiveRoles
    <3> QED
      BY <2>1, <3>1 DEF CanAdminister, IsEnabledSuper, ProtectedRole
  <2>3. ASSUME NEW x \in Admins, NEW row \in Accounts, admin' = [admin EXCEPT ![x] = row],
               (x = a /\ ~(row.active /\ SuperAdmin \in row.roles)) => assertAnotherEnabledSuperAdmin(a)
        PROVE  \E b \in Admins : CanAdminister(b)'
    <3>1. row # None /\ admin'[x] = row /\ \A b \in Admins \ {x} : admin'[b] = admin[b]
      BY <2>1, <2>3, NoneIsNoRow DEF TypeOK
    <3>2. CASE x # a
      BY <2>1, <2>2, <3>1, <3>2
    <3>3. CASE x = a /\ row.active /\ SuperAdmin \in row.roles
      BY <2>2, <3>1, <3>3
    <3>4. CASE x = a /\ ~(row.active /\ SuperAdmin \in row.roles)
      <4>1. PICK b \in Admins \ {a} : IsEnabledSuper(b)
        BY <2>3, <3>4 DEF assertAnotherEnabledSuperAdmin
      <4> QED
        BY <2>2, <3>1, <3>4, <4>1 DEF IsEnabledSuper
    <3> QED
      BY <3>2, <3>3, <3>4
  <2>4. CASE UNCHANGED admin
    BY <2>1, <2>2, <2>4
  <2>5. ASSUME NEW x \in Admins, admin[x] # None, admin[x].password < MaxPassword,
               admin' = [admin EXCEPT ![x].password = @ + 1]
        PROVE  \E b \in Admins : CanAdminister(b)'
    <3> DEFINE row == [admin[x] EXCEPT !.password = @ + 1]
    <3>1. admin[x] \in Accounts
      BY <2>1, <2>5, RowsHaveTypes
    <3>2. row \in Accounts /\ row.active = admin[x].active /\ row.roles = admin[x].roles
      BY <2>5, <3>1, AccessAssumption DEF Accounts
    <3>3. admin' = [admin EXCEPT ![x] = row]
      BY <2>5
    <3> HIDE DEF row
    <3> QED
      BY <2>1, <2>3, <3>2, <3>3
  <2>6. CASE SessionStep
    <3>1. ASSUME NEW c \in Clients, CommitChange(c) PROVE \E b \in Admins : CanAdminister(b)'
      <4>1. job[c].admin \in Admins /\ admin[job[c].admin] # None
        BY <1>1, <2>1, <3>1, SessionAndJobTypes
           DEF CommitChange, IInv, JobsHaveWhatTheyRead, RequestsInFlight
      <4> QED
        BY <2>5, <3>1, <4>1 DEF CommitChange
    <3>2. (\E c \in Clients : CommitChange(c)) \/ UNCHANGED admin
      BY <2>6 DEF SessionStep, Leave, logout, logoutAll, StartChange, FailChange, AbandonChange,
                  StartLogin, CompleteLogin, Admit, revokeSession, Expire, Forget
    <3> QED
      BY <2>4, <3>1, <3>2
  <2>7. CASE AdminStep
    <3>1. ASSUME NEW c \in Clients, NEW x \in Admins, NEW rs \in SomeRoles, NEW active \in BOOLEAN,
                 createAdmin(c, x, rs, active)
          PROVE  \E b \in Admins : CanAdminister(b)'
      <4> DEFINE row == [active |-> active, roles |-> rs, password |-> 0]
      <4>1. row \in Accounts
        BY AccessAssumption DEF Accounts, SomeRoles
      <4>2. admin' = [admin EXCEPT ![x] = row] /\ x # a
        BY <2>1, <3>1 DEF createAdmin
      <4> HIDE DEF row
      <4> QED
        BY <2>3, <4>1, <4>2
    <3>2. ASSUME NEW c \in Clients, NEW x \in Admins, NEW given \in SomeRoles \cup {None},
                 NEW active \in BOOLEAN, updateAdmin(c, x, given, active)
          PROVE  \E b \in Admins : CanAdminister(b)'
      <4> DEFINE rs  == IF given = None THEN admin[x].roles ELSE given
                 row == [admin[x] EXCEPT !.roles = rs, !.active = active]
      <4>1. admin[x] \in Accounts
        BY <2>1, <3>2, RowsHaveTypes DEF updateAdmin
      <4>2. rs \in SUBSET Roles
        BY <4>1 DEF Accounts, SomeRoles
      <4>3. row \in Accounts /\ row.roles = rs /\ row.active = active
        BY <4>1, <4>2 DEF Accounts
      <4>4. admin' = [admin EXCEPT ![x] = row]
        BY <2>1, <3>2 DEF updateAdmin, TypeOK
      <4>5. (admin[x].active /\ SuperAdmin \in admin[x].roles /\ ~(active /\ SuperAdmin \in rs))
                => assertAnotherEnabledSuperAdmin(x)
        BY <3>2 DEF updateAdmin
      <4> HIDE DEF rs, row
      <4> QED
        BY <2>1, <2>3, <4>3, <4>4, <4>5
    <3>3. ASSUME NEW c \in Clients, NEW x \in Admins, NEW enabled \in BOOLEAN,
                 setAdminEnabled(c, x, enabled)
          PROVE  \E b \in Admins : CanAdminister(b)'
      <4> DEFINE row == [admin[x] EXCEPT !.active = enabled]
      <4>1. admin[x] \in Accounts
        BY <2>1, <3>3, RowsHaveTypes DEF setAdminEnabled
      <4>2. row \in Accounts /\ row.roles = admin[x].roles /\ row.active = enabled
        BY <4>1 DEF Accounts
      <4>3. admin' = [admin EXCEPT ![x] = row]
        BY <3>3 DEF setAdminEnabled
      <4>4. (~enabled /\ SuperAdmin \in admin[x].roles) => assertAnotherEnabledSuperAdmin(x)
        BY <3>3 DEF setAdminEnabled
      <4> HIDE DEF row
      <4> QED
        BY <2>1, <2>3, <4>2, <4>3, <4>4
    <3>4. ASSUME NEW c \in Clients, NEW x \in Admins, resetPassword(c, x)
          PROVE  \E b \in Admins : CanAdminister(b)'
      BY <2>5, <3>4 DEF resetPassword
    <3> QED
      BY <2>7, <3>1, <3>2, <3>3, <3>4 DEF AdminStep
  <2>8. CASE RoleStep
    BY <2>4, <2>8 DEF RoleStep, createRole, updateRole, setRoleEnabled
  <2> QED
    BY <1>1, <2>6, <2>7, <2>8 DEF Next
<1>2. IInv /\ IInv' /\ [Next]_vars =>
         [(\E a \in Admins : CanAdminister(a)) =>
             (\E a \in Admins : CanAdminister(a)') \/ Provisioning]_vars
  BY <1>1
<1> QED
  BY <1>2, Invariance, PTL DEF Spec, SomebodyCanAdminister

----------------------------------------------------------------------------
(* The settlement page: what it consists of. *)

\* What is agreed to or dropped: the codes of a month.
Agreements == [month: Months, codes: SUBSET Codes]
Preflights == [month: Months, warnings: SUBSET Codes, canGenerate: BOOLEAN]
Summaries == [month: Months, status: Statuses]
Dialogs == [kind: {"warnings", "confirm", "lock"}, month: Months, codes: SUBSET Codes, flow: Nat]

Pages ==
    [month: Months, summary: Summaries \cup {Nothing}, preflight: Preflights \cup {Nothing},
     shown: Nat, latest: Nat, latestMonth: Months, loading: BOOLEAN, checking: BOOLEAN,
     acknowledged: Agreements \cup {Nothing}, generateOpen: BOOLEAN,
     dialog: Dialogs \cup {Nothing}, acting: {Nothing, "generate", "confirm", "lock"}]

Kinds == {"summary", "preflight", "generate", "confirm", "lock"}

Asked ==
    [id: Nat, kind: Kinds, month: Months, codes: SUBSET Codes, flow: Nat, refused: BOOLEAN,
     answer: {"none", "done", "rejected", "failed"}]

PageTypes ==
    /\ book \in [Months -> Month] /\ canView \in BOOLEAN /\ count \in Nat
    /\ page \in Pages
    /\ requests \subseteq Asked

\* Requests are numbered; the one with the number of the latest preflight asks for a
\* preflight, of the month that was remembered with the number.
NumbersAreOfRequests ==
    /\ page.shown <= page.latest /\ page.latest <= count
    /\ \A r \in requests : r.id <= count
    /\ \A r \in requests : r.id = page.latest => r.kind = "preflight" /\ r.month = page.latestMonth

\* The acknowledgement on the page is the one agreed to since the last request for a
\* preflight.
AcknowledgedIsAgreed == page.acknowledged # Nothing => page.acknowledged = agreed

PageIInv ==
    /\ PageTypes
    /\ NumbersAreOfRequests
    /\ LatestPreflightIsShown
    /\ CheckingMeansAsked
    /\ AcknowledgedIsAgreed

\* A page of the right parts has the type that is checked.
LEMMA PageTypesSuffice ==
  ASSUME PageIInv
  PROVE  PageInv
<1>1. page \in Pages /\ \A r \in requests : r \in Asked
  BY DEF PageIInv, PageTypes
<1>2. /\ page.month \in Months /\ page.latestMonth \in Months
      /\ page.summary = Nothing \/ page.summary \in Summaries
      /\ page.preflight = Nothing \/ page.preflight \in Preflights
      /\ page.acknowledged = Nothing \/ page.acknowledged \in Agreements
      /\ page.acting \in {Nothing, "generate", "confirm", "lock"}
      /\ page.loading \in BOOLEAN /\ page.checking \in BOOLEAN /\ page.generateOpen \in BOOLEAN
  BY <1>1 DEF Pages
<1>3. \A r \in requests : r.month \in Months
  BY <1>1 DEF Asked
<1>4. PageTypeOK
  BY <1>2, <1>3 DEF PageTypeOK, PageIInv, PageTypes, NumbersAreOfRequests, Summaries, Preflights,
     Agreements
<1> QED
  BY <1>4 DEF PageInv, PageIInv

\* The page opens as it should be.
LEMMA PageOpens == PageInit => PageIInv
<1> SUFFICES ASSUME PageInit PROVE PageIInv
  OBVIOUS
<1>1. book \in [Months -> Month] /\ canView \in BOOLEAN /\ count = 2
  BY DEF PageInit
<1>2. /\ page.month = CurrentMonth /\ page.latestMonth = CurrentMonth /\ page.preflight = Nothing
      /\ page.shown = 0 /\ page.latest = 2 /\ page.checking = canView
      /\ page.acknowledged = Nothing /\ page \in Pages
  BY <1>1, PageAssumption DEF PageInit, Pages
<1>3. \A r \in requests : \/ r = Ask(1, "summary", CurrentMonth, {}, 0, FALSE)
                          \/ r = Ask(2, "preflight", CurrentMonth, {}, 0, FALSE)
  BY DEF PageInit
<1>4. \A r \in requests : /\ r \in Asked
                          /\ r.id \in {1, 2} /\ (r.id = 2 => r.kind = "preflight")
                          /\ r.month = CurrentMonth
  <2>1. "summary" \in Kinds /\ "preflight" \in Kinds /\ {} \in SUBSET Codes
    BY DEF Kinds
  <2>2. 0 \in Nat /\ 1 \in Nat /\ 2 \in Nat /\ FALSE \in BOOLEAN /\ 1 # 2
    OBVIOUS
  <2>3. /\ Ask(1, "summary", CurrentMonth, {}, 0, FALSE) \in Asked
        /\ Ask(1, "summary", CurrentMonth, {}, 0, FALSE).id = 1
        /\ Ask(1, "summary", CurrentMonth, {}, 0, FALSE).month = CurrentMonth
    BY <2>1, <2>2, PageAssumption DEF Ask, Asked
  <2>4. /\ Ask(2, "preflight", CurrentMonth, {}, 0, FALSE) \in Asked
        /\ Ask(2, "preflight", CurrentMonth, {}, 0, FALSE).id = 2
        /\ Ask(2, "preflight", CurrentMonth, {}, 0, FALSE).kind = "preflight"
        /\ Ask(2, "preflight", CurrentMonth, {}, 0, FALSE).month = CurrentMonth
    BY <2>1, <2>2, PageAssumption DEF Ask, Asked
  <2> QED
    BY <1>3, <2>2, <2>3, <2>4
<1>5. ASSUME canView
      PROVE  \E r \in requests : r.id = 2
  <2>1. TRUE \in {TRUE} \cap {canView}
    BY <1>5, <1>1
  <2>2. Ask(2, "preflight", CurrentMonth, {}, 0, FALSE) \in requests
    BY <2>1 DEF PageInit
  <2> QED
    BY <2>2 DEF Ask
<1> QED
  BY <1>1, <1>2, <1>4, <1>5 DEF PageIInv, PageTypes, NumbersAreOfRequests,
     LatestPreflightIsShown, CheckingMeansAsked, AcknowledgedIsAgreed

----------------------------------------------------------------------------
(* Steps of the page. *)

\* The fields that say which preflight was asked for and which is shown.
SameCheck ==
    /\ page'.month = page.month /\ page'.preflight = page.preflight
    /\ page'.shown = page.shown /\ page'.latest = page.latest
    /\ page'.latestMonth = page.latestMonth /\ page'.checking = page.checking

\* A step may answer requests, send new ones, and take away those that do not ask for
\* the latest preflight.
RequestsGoOn ==
    /\ requests' \subseteq Asked
    /\ count' \in Nat /\ count <= count'
    /\ \A r \in requests' :
          \/ \E q \in requests : r.id = q.id /\ r.kind = q.kind /\ r.month = q.month
          \/ count < r.id /\ r.id <= count'
    /\ \A q \in requests : q.id = page.latest /\ q.month = page.month =>
          \E r \in requests' : r.id = q.id

\* Such steps keep the page consistent while it shows the same preflight.
LEMMA QuietPageStep ==
  ASSUME PageIInv, book' \in [Months -> Month], canView' = canView, page' \in Pages,
         SameCheck, RequestsGoOn, AcknowledgedIsAgreed'
  PROVE  PageIInv'
<1>1. page.latest \in Nat /\ page.shown \in Nat /\ count \in Nat /\ page \in Pages
  BY DEF PageIInv, PageTypes, Pages
<1>2. \A r \in requests : r \in Asked /\ r.id \in Nat
  BY DEF PageIInv, PageTypes, Asked
<1>3. \A r \in requests' : r \in Asked /\ r.id \in Nat
  BY DEF RequestsGoOn, Asked
<1>4. PageTypes'
  BY DEF PageTypes, PageIInv, RequestsGoOn
<1>5. NumbersAreOfRequests'
  <2>1. page'.shown <= page'.latest /\ page'.latest <= count'
    BY <1>1 DEF PageIInv, NumbersAreOfRequests, SameCheck, RequestsGoOn
  <2>2. ASSUME NEW r \in requests'
        PROVE  /\ r.id <= count'
               /\ r.id = page'.latest => r.kind = "preflight" /\ r.month = page'.latestMonth
    <3>1. CASE count < r.id /\ r.id <= count'
      BY <3>1, <1>1, <1>3 DEF PageIInv, NumbersAreOfRequests, SameCheck
    <3>2. CASE \E q \in requests : r.id = q.id /\ r.kind = q.kind /\ r.month = q.month
      BY <3>2, <1>1, <1>2, <1>3 DEF PageIInv, NumbersAreOfRequests, SameCheck, RequestsGoOn
    <3> QED
      BY <3>1, <3>2 DEF RequestsGoOn
  <2> QED
    BY <2>1, <2>2 DEF NumbersAreOfRequests
<1>6. LatestPreflightIsShown'
  BY DEF PageIInv, LatestPreflightIsShown, SameCheck
<1>7. CheckingMeansAsked'
  BY DEF PageIInv, CheckingMeansAsked, SameCheck, RequestsGoOn, NumbersAreOfRequests
<1> QED
  BY <1>4, <1>5, <1>6, <1>7 DEF PageIInv

\* A load of the page or of the preflight has a new number, shows nothing of the last
\* preflight and, where it may be read, asks for it: after it the page is consistent.
LEMMA ReloadStep ==
  ASSUME PageIInv, NEW m \in Months, NEW p \in Pages, NEW n \in Nat,
         page' = Checking(p, n, m), p.shown = page.shown,
         n = count', count < count', requests' \subseteq Asked,
         \A r \in requests' : \/ r \in requests
                              \/ r.id <= n /\ (r.id = n => r.kind = "preflight" /\ r.month = m),
         canView => \E r \in requests' : r.id = n,
         UNCHANGED <<book, canView>>
  PROVE  PageIInv'
<1>1. page.latest \in Nat /\ page.shown \in Nat /\ count \in Nat /\ canView \in BOOLEAN
  BY DEF PageIInv, PageTypes, Pages
<1>2. \A r \in requests' : r.id \in Nat
  BY DEF Asked
<1>3. /\ page' \in Pages
      /\ page'.month = p.month /\ page'.preflight = Nothing /\ page'.acknowledged = Nothing
      /\ page'.shown = p.shown /\ page'.checking = canView
      /\ page'.latestMonth = m /\ page'.latest = n
  BY <1>1 DEF Checking, Pages
<1>4. PageTypes'
  BY <1>3 DEF PageTypes, PageIInv
<1>5. NumbersAreOfRequests'
  <2>1. page'.shown <= page'.latest /\ page'.latest <= count'
    BY <1>1, <1>3 DEF PageIInv, NumbersAreOfRequests
  <2>2. ASSUME NEW r \in requests'
        PROVE  /\ r.id <= count'
               /\ r.id = page'.latest => r.kind = "preflight" /\ r.month = page'.latestMonth
    BY <1>1, <1>2, <1>3 DEF PageIInv, NumbersAreOfRequests
  <2> QED
    BY <2>1, <2>2 DEF NumbersAreOfRequests
<1>6. LatestPreflightIsShown' /\ AcknowledgedIsAgreed'
  BY <1>3 DEF LatestPreflightIsShown, AcknowledgedIsAgreed
<1>7. CheckingMeansAsked'
  BY <1>3 DEF CheckingMeansAsked
<1> QED
  BY <1>4, <1>5, <1>6, <1>7 DEF PageIInv

\* The two ways the page begins a check.
LEMMA ReloadPageStep ==
  ASSUME PageIInv, NEW m \in Months, NEW p \in Pages, NEW flow \in Nat,
         NEW rest \in SUBSET requests, p.shown = page.shown,
         reloadPage(p, rest, m, flow), UNCHANGED <<book, canView>>
  PROVE  PageIInv'
<1>1. count \in Nat /\ requests \subseteq Asked /\ canView \in BOOLEAN
  BY DEF PageIInv, PageTypes
<1> DEFINE first == Ask(count + 1, "summary", m, {}, flow, FALSE)
           second == Ask(count + 2, "preflight", m, {}, flow, FALSE)
           q == [p EXCEPT !.loading = TRUE]
<1>2. /\ "summary" \in Kinds /\ "preflight" \in Kinds /\ {} \in SUBSET Codes
      /\ count + 1 \in Nat /\ count + 2 \in Nat /\ FALSE \in BOOLEAN
  BY <1>1 DEF Kinds
<1>3. first \in Asked /\ first.id = count + 1
  BY <1>2 DEF Ask, Asked
<1>4. second \in Asked /\ second.id = count + 2 /\ second.kind = "preflight" /\ second.month = m
  BY <1>2 DEF Ask, Asked
<1>5. q \in Pages /\ q.shown = page.shown
  BY DEF Pages
<1>6. page' = Checking(q, count + 2, m) /\ count' = count + 2
  BY DEF reloadPage
<1>7. requests' = rest \cup {first} \cup {second : v \in {TRUE} \cap {canView}}
  BY DEF reloadPage
<1> HIDE DEF first, second, q
<1>8. \A r \in requests' : r \in requests \/ r = first \/ r = second
  BY <1>7
<1>9. ASSUME canView
      PROVE  second \in requests'
  <2>1. TRUE \in {TRUE} \cap {canView}
    BY <1>9, <1>1
  <2> QED
    BY <2>1, <1>7
<1>10. /\ requests' \subseteq Asked
       /\ \A r \in requests' :
             \/ r \in requests
             \/ r.id <= count + 2 /\ (r.id = count + 2 => r.kind = "preflight" /\ r.month = m)
       /\ canView => \E r \in requests' : r.id = count + 2
  BY <1>1, <1>3, <1>4, <1>8, <1>9
<1>11. count + 2 \in Nat /\ count < count'
  BY <1>1, <1>6
<1> QED
  BY <1>5, <1>6, <1>10, <1>11, ReloadStep

LEMMA LoadPreflightStep ==
  ASSUME PageIInv, NEW m \in Months, NEW flow \in Nat, NEW rest \in SUBSET requests,
         loadPreflight(page, rest, m, flow), UNCHANGED <<book, canView>>
  PROVE  PageIInv'
<1>1. count \in Nat /\ requests \subseteq Asked /\ canView \in BOOLEAN /\ page \in Pages
  BY DEF PageIInv, PageTypes
<1> DEFINE second == Ask(count + 1, "preflight", m, {}, flow, TRUE)
<1>2. "preflight" \in Kinds /\ {} \in SUBSET Codes /\ count + 1 \in Nat /\ TRUE \in BOOLEAN
  BY <1>1 DEF Kinds
<1>3. second \in Asked /\ second.id = count + 1 /\ second.kind = "preflight" /\ second.month = m
  BY <1>2 DEF Ask, Asked
<1>4. page' = Checking(page, count + 1, m) /\ count' = count + 1
  BY DEF loadPreflight
<1>5. requests' = rest \cup {second : v \in {TRUE} \cap {canView}}
  BY DEF loadPreflight
<1> HIDE DEF second
<1>6. \A r \in requests' : r \in requests \/ r = second
  BY <1>5
<1>7. ASSUME canView
      PROVE  second \in requests'
  <2>1. TRUE \in {TRUE} \cap {canView}
    BY <1>7, <1>1
  <2> QED
    BY <2>1, <1>5
<1>8. /\ requests' \subseteq Asked
      /\ \A r \in requests' :
            \/ r \in requests
            \/ r.id <= count + 1 /\ (r.id = count + 1 => r.kind = "preflight" /\ r.month = m)
      /\ canView => \E r \in requests' : r.id = count + 1
  BY <1>1, <1>3, <1>6, <1>7
<1>9. count + 1 \in Nat /\ count < count'
  BY <1>1, <1>4
<1> QED
  BY <1>1, <1>4, <1>8, <1>9, ReloadStep

----------------------------------------------------------------------------
(* Requests that are sent, answered and taken away. *)

\* What the invariant says of the numbers.
LEMMA Numbers ==
  ASSUME PageIInv
  PROVE  /\ page \in Pages /\ page.latest \in Nat /\ page.shown \in Nat /\ count \in Nat
         /\ page.latest <= count /\ requests \subseteq Asked
         /\ \A r \in requests : r \in Asked /\ r.id \in Nat
         /\ book \in [Months -> Month] /\ canView \in BOOLEAN
  BY DEF PageIInv, PageTypes, NumbersAreOfRequests, Pages, Asked

LEMMA Untouched ==
  ASSUME PageIInv, UNCHANGED <<requests, count>>
  PROVE  RequestsGoOn
  BY Numbers DEF RequestsGoOn

LEMMA Sent ==
  ASSUME PageIInv, NEW r \in Asked, r.id = count + 1,
         requests' = requests \cup {r}, count' = count + 1
  PROVE  RequestsGoOn
  BY Numbers DEF RequestsGoOn

LEMMA AnsweredRequests ==
  ASSUME PageIInv, NEW r \in requests, NEW outcome \in {"none", "done", "rejected", "failed"},
         Answered(r, outcome), count' = count
  PROVE  RequestsGoOn
<1> DEFINE s == [r EXCEPT !.answer = outcome]
<1>1. r \in Asked
  BY Numbers
<1>2. s \in Asked /\ s.id = r.id /\ s.kind = r.kind /\ s.month = r.month
  BY <1>1 DEF Asked
<1>3. requests' = (requests \ {r}) \cup {s}
  BY DEF Answered
<1> HIDE DEF s
<1> QED
  BY <1>2, <1>3, Numbers DEF RequestsGoOn

LEMMA TakenAway ==
  ASSUME PageIInv, NEW r \in requests, r.kind # "preflight" \/ r.month # page.month,
         requests' = requests \ {r}, count' = count
  PROVE  RequestsGoOn
<1>1. \A q \in requests : q.id = page.latest => q.kind = "preflight"
  BY DEF PageIInv, NumbersAreOfRequests
<1> QED
  BY <1>1, Numbers DEF RequestsGoOn

\* A step that only answers or changes the months of the server.
LEMMA ServerStep ==
  ASSUME PageIInv, RequestsGoOn, book' \in [Months -> Month],
         UNCHANGED <<page, canView, agreed>>
  PROVE  PageIInv'
<1>1. page' \in Pages /\ SameCheck
  BY Numbers DEF SameCheck
<1>2. AcknowledgedIsAgreed'
  BY DEF PageIInv, AcknowledgedIsAgreed
<1> QED
  BY <1>1, <1>2, QuietPageStep

LEMMA ServeSteps ==
  ASSUME PageIInv, NEW r \in requests, Serve(r) \/ ServeFailure(r)
  PROVE  PageIInv'
<1>1. r \in Asked /\ r.month \in Months
  BY Numbers DEF Asked
<1>2. book[r.month] \in Month
  BY <1>1, Numbers
<1>3. ASSUME NEW s \in Statuses
      PROVE  [book EXCEPT ![r.month].status = s] \in [Months -> Month]
  BY <1>1, <1>2, Numbers DEF Month
<1>4. CASE ServeGenerate(r)
  <2>1. /\ Answered(r, "done") \/ Answered(r, "rejected")
        /\ book' = book \/ book' = [book EXCEPT ![r.month].status = "draft"]
        /\ UNCHANGED <<page, canView, agreed, count>>
    BY <1>4 DEF ServeGenerate
  <2>2. RequestsGoOn
    BY <2>1, AnsweredRequests
  <2>3. book' \in [Months -> Month]
    BY <2>1, <1>3, Numbers DEF Statuses
  <2> QED
    BY <2>1, <2>2, <2>3, ServerStep
<1>5. ASSUME NEW from \in Statuses, NEW to \in Statuses, ServeStep(r, from, to)
      PROVE  PageIInv'
  <2>1. /\ Answered(r, "done") \/ Answered(r, "failed")
        /\ book' = book \/ book' = [book EXCEPT ![r.month].status = to]
        /\ UNCHANGED <<page, canView, agreed, count>>
    BY <1>5 DEF ServeStep
  <2>2. RequestsGoOn
    BY <2>1, AnsweredRequests
  <2>3. book' \in [Months -> Month]
    BY <2>1, <1>3, Numbers
  <2> QED
    BY <2>1, <2>2, <2>3, ServerStep
<1>6. CASE ServeConfirm(r) \/ ServeLock(r)
  BY <1>5, <1>6 DEF ServeConfirm, ServeLock, Statuses
<1>7. CASE ServeFailure(r)
  <2>1. Answered(r, "failed") /\ UNCHANGED <<book, page, canView, agreed, count>>
    BY <1>7 DEF ServeFailure
  <2> QED
    BY <2>1, AnsweredRequests, ServerStep, Numbers
<1> QED
  BY <1>4, <1>6, <1>7 DEF Serve

LEMMA ChangeBookStep ==
  ASSUME PageIInv, NEW m \in Months, ChangeBook(m)
  PROVE  PageIInv'
<1>1. UNCHANGED <<page, canView, requests, agreed, count>>
  BY DEF ChangeBook
<1>2. book' \in [Months -> Month]
  <2>1. CASE \E b \in Month : book' = [book EXCEPT ![m] = b]
    BY <2>1, Numbers
  <2>2. CASE \E v \in Moves : book' = [book EXCEPT ![m].status = v[2]]
    <3>1. PICK v \in Moves : book' = [book EXCEPT ![m].status = v[2]]
      BY <2>2
    <3>2. v[2] \in Statuses
      BY DEF Moves, Statuses
    <3>3. book[m] \in Month
      BY Numbers
    <3> QED
      BY <3>1, <3>2, <3>3, Numbers DEF Month
  <2> QED
    BY <2>1, <2>2 DEF ChangeBook
<1> QED
  BY <1>1, <1>2, Untouched, ServerStep

----------------------------------------------------------------------------
(* What the administrator does. *)

\* The parts of the page.
LEMMA PageParts ==
  ASSUME PageIInv
  PROVE  /\ page.month \in Months
         /\ page.preflight # Nothing => page.preflight \in Preflights
         /\ page.acknowledged # Nothing => page.acknowledged \in Agreements
         /\ page.dialog # Nothing => page.dialog \in Dialogs
         /\ currentWarningCodes \in SUBSET Codes
         /\ buildSettlementGenerateBody \in SUBSET Codes
<1>1. /\ page.month \in Months
      /\ page.preflight # Nothing => page.preflight \in Preflights
      /\ page.acknowledged # Nothing => page.acknowledged \in Agreements
      /\ page.dialog # Nothing => page.dialog \in Dialogs
  BY Numbers DEF Pages
<1>2. currentWarningCodes \in SUBSET Codes
  BY <1>1 DEF currentWarningCodes, currentPreflight, Preflights
<1>3. buildSettlementGenerateBody \in SUBSET Codes
  BY <1>1 DEF buildSettlementGenerateBody, isWarningAcknowledgementCurrent, Agreements
<1> QED
  BY <1>1, <1>2, <1>3

\* Clicks that send nothing.
LEMMA ClickSteps ==
  ASSUME PageIInv, runGenerate \/ ConfirmWarnings \/ cancelGenerate \/ runConfirm \/ runLock
                   \/ CancelDialog
  PROVE  PageIInv'
<1>1. UNCHANGED <<book, canView, requests, count>>
  BY DEF runGenerate, ConfirmWarnings, cancelGenerate, runConfirm, runLock, AskTo, CancelDialog
<1>2. RequestsGoOn /\ book' \in [Months -> Month] /\ canView' = canView
  BY <1>1, Untouched, Numbers
<1>3. ASSUME page' \in Pages, SameCheck, AcknowledgedIsAgreed'
      PROVE  PageIInv'
  BY <1>2, <1>3, QuietPageStep
<1>4. ASSUME NEW kind \in {"warnings", "confirm", "lock"}, NEW codes \in SUBSET Codes,
             page' = [page EXCEPT !.dialog = [kind |-> kind, month |-> page.month,
                                              codes |-> codes, flow |-> 0]],
             agreed' = agreed
      PROVE  PageIInv'
  <2> DEFINE d == [kind |-> kind, month |-> page.month, codes |-> codes, flow |-> 0]
  <2>1. d \in Dialogs
    BY PageParts DEF Dialogs
  <2>2. page' = [page EXCEPT !.dialog = d]
    BY <1>4
  <2> HIDE DEF d
  <2>3. page' \in Pages /\ SameCheck /\ page'.acknowledged = page.acknowledged
    BY <2>1, <2>2, Numbers DEF Pages, SameCheck
  <2> QED
    BY <2>3, <1>3, <1>4 DEF AcknowledgedIsAgreed, PageIInv
<1>5. CASE runGenerate
  <2>1. CASE currentWarningCodes # {}
    BY <1>4, <1>5, <2>1, PageParts DEF runGenerate
  <2>2. CASE currentWarningCodes = {}
    <3>1. page' = OpenGenerate([page EXCEPT !.acknowledged = Nothing])
      BY <1>5, <2>2 DEF runGenerate
    <3>2. page' \in Pages /\ SameCheck /\ page'.acknowledged = Nothing
      BY <3>1, Numbers DEF OpenGenerate, Pages, SameCheck
    <3> QED
      BY <3>2, <1>3 DEF AcknowledgedIsAgreed
  <2> QED
    BY <2>1, <2>2
<1>6. CASE ConfirmWarnings
  <2> DEFINE a == [month |-> page.dialog.month, codes |-> page.dialog.codes]
  <2>1. page.dialog \in Dialogs /\ agreed' = a
    BY <1>6, PageParts DEF ConfirmWarnings
  <2>2. a \in Agreements
    BY <2>1 DEF Dialogs, Agreements
  <2>3. page' = OpenGenerate([page EXCEPT !.acknowledged = a])
    BY <1>6 DEF ConfirmWarnings
  <2> HIDE DEF a
  <2>4. page' \in Pages /\ SameCheck /\ page'.acknowledged = a
    BY <2>2, <2>3, Numbers DEF OpenGenerate, Pages, SameCheck
  <2> QED
    BY <2>1, <2>4, <1>3 DEF AcknowledgedIsAgreed
<1>7. CASE cancelGenerate
  <2>1. page' \in Pages /\ SameCheck /\ page'.acknowledged = Nothing
    BY <1>7, Numbers DEF cancelGenerate, Pages, SameCheck
  <2> QED
    BY <2>1, <1>3 DEF AcknowledgedIsAgreed
<1>8. CASE runConfirm \/ runLock
  <2>1. {} \in SUBSET Codes
    OBVIOUS
  <2> QED
    BY <2>1, <1>4, <1>8 DEF runConfirm, runLock, AskTo
<1>9. CASE CancelDialog
  <2>1. page' \in Pages /\ SameCheck /\ page'.acknowledged = page.acknowledged /\ agreed' = agreed
    BY <1>9, Numbers DEF CancelDialog, Pages, SameCheck
  <2> QED
    BY <2>1, <1>3 DEF AcknowledgedIsAgreed, PageIInv
<1> QED
  BY <1>5, <1>6, <1>7, <1>8, <1>9

\* Clicks that send a request and begin no check.
LEMMA SendingSteps ==
  ASSUME PageIInv, Query \/ submitGenerate \/ onOk
  PROVE  PageIInv'
<1>1. UNCHANGED <<book, canView, agreed>>
  BY DEF Query, submitGenerate, onOk
<1>2. count + 1 \in Nat /\ 0 \in Nat /\ {} \in SUBSET Codes
  BY Numbers
<1>3. ASSUME page' \in Pages, SameCheck, page'.acknowledged = page.acknowledged, RequestsGoOn
      PROVE  PageIInv'
  <2>1. AcknowledgedIsAgreed'
    BY <1>1, <1>3 DEF PageIInv, AcknowledgedIsAgreed
  <2> QED
    BY <1>1, <1>3, <2>1, QuietPageStep, Numbers
<1>4. ASSUME NEW kind \in Kinds, NEW m \in Months, NEW codes \in SUBSET Codes, NEW flow \in Nat,
             requests' = requests \cup {Ask(count + 1, kind, m, codes, flow, FALSE)},
             count' = count + 1
      PROVE  RequestsGoOn
  <2> DEFINE r == Ask(count + 1, kind, m, codes, flow, FALSE)
  <2>1. r \in Asked /\ r.id = count + 1
    BY <1>2 DEF Ask, Asked
  <2>2. requests' = requests \cup {r}
    BY <1>4
  <2> HIDE DEF r
  <2> QED
    BY <1>4, <2>1, <2>2, Sent
<1>5. CASE Query
  <2>1. page' \in Pages /\ SameCheck /\ page'.acknowledged = page.acknowledged
    BY <1>5, Numbers DEF Query, Pages, SameCheck
  <2>2. RequestsGoOn
    BY <1>2, <1>4, <1>5, PageParts DEF Query, Kinds
  <2> QED
    BY <2>1, <2>2, <1>3
<1>6. CASE submitGenerate
  <2>1. page' \in Pages /\ SameCheck /\ page'.acknowledged = page.acknowledged
    BY <1>6, Numbers DEF submitGenerate, Pages, SameCheck
  <2>2. RequestsGoOn
    BY <1>2, <1>4, <1>6, PageParts DEF submitGenerate, Kinds
  <2> QED
    BY <2>1, <2>2, <1>3
<1>7. CASE onOk
  <2> DEFINE d == [page.dialog EXCEPT !.flow = count + 1]
  <2>1. page.dialog \in Dialogs /\ page.dialog.kind \in {"confirm", "lock"}
    BY <1>7, PageParts DEF onOk, Dialogs
  <2>2. d \in Dialogs
    BY <1>2, <2>1 DEF Dialogs
  <2>3. page' = [page EXCEPT !.acting = page.dialog.kind, !.dialog = d]
    BY <1>7 DEF onOk
  <2> HIDE DEF d
  <2>4. page' \in Pages /\ SameCheck /\ page'.acknowledged = page.acknowledged
    BY <2>1, <2>2, <2>3, Numbers DEF Pages, SameCheck
  <2>5. page.dialog.kind \in Kinds /\ page.dialog.month \in Months
    BY <2>1 DEF Dialogs, Kinds
  <2>6. /\ requests' = requests \cup {Ask(count + 1, page.dialog.kind, page.dialog.month, {},
                                          count + 1, FALSE)}
        /\ count' = count + 1
    BY <1>7 DEF onOk
  <2>7. RequestsGoOn
    BY <1>2, <1>4, <2>5, <2>6
  <2> QED
    BY <2>4, <2>7, <1>3
<1> QED
  BY <1>5, <1>6, <1>7

LEMMA LoadingSteps ==
  ASSUME PageIInv, Refresh \/ \E m \in Months : ChangeMonth(m)
  PROVE  PageIInv'
<1>1. 0 \in Nat /\ requests \in SUBSET requests
  OBVIOUS
<1>2. CASE Refresh
  BY <1>1, <1>2, Numbers, PageParts, ReloadPageStep DEF Refresh
<1>3. ASSUME NEW m \in Months, ChangeMonth(m)
      PROVE  PageIInv'
  <2> DEFINE p == [page EXCEPT !.month = m, !.generateOpen = FALSE]
  <2>1. p \in Pages /\ p.shown = page.shown
    BY Numbers DEF Pages
  <2>2. reloadPage(p, requests, m, 0) /\ UNCHANGED <<book, canView>>
    BY <1>3 DEF ChangeMonth
  <2> HIDE DEF p
  <2> QED
    BY <1>1, <2>1, <2>2, ReloadPageStep
<1> QED
  BY <1>2, <1>3

----------------------------------------------------------------------------
(* What the page does with answers. *)

\* A handler that ends frees its button and closes its own dialog.
LEMMA FinishedFields ==
  ASSUME NEW p \in Pages, NEW flow, NEW refused
  PROVE  /\ Finished(p, flow, refused) \in Pages
         /\ Finished(p, flow, refused).month = p.month
         /\ Finished(p, flow, refused).preflight = p.preflight
         /\ Finished(p, flow, refused).shown = p.shown
         /\ Finished(p, flow, refused).latest = p.latest
         /\ Finished(p, flow, refused).latestMonth = p.latestMonth
         /\ Finished(p, flow, refused).checking = p.checking
         /\ Finished(p, flow, refused).acknowledged \in {Nothing, p.acknowledged}
<1> DEFINE d == IF p.dialog = Nothing THEN Nothing
                ELSE IF p.dialog.flow = flow THEN Nothing ELSE p.dialog
           k == IF refused THEN Nothing ELSE p.acknowledged
<1>1. d \in Dialogs \cup {Nothing} /\ k \in {Nothing, p.acknowledged}
  BY DEF Pages
<1>2. Finished(p, flow, refused) = [p EXCEPT !.acting = Nothing, !.acknowledged = k, !.dialog = d]
  BY DEF Finished
<1> HIDE DEF d, k
<1> QED
  BY <1>1, <1>2 DEF Pages

LEMMA SettleFields ==
  ASSUME NEW p \in Pages, NEW r
  PROVE  /\ Settle(p, r) \in Pages
         /\ Settle(p, r).month = p.month
         /\ Settle(p, r).preflight = p.preflight
         /\ Settle(p, r).shown = p.shown
         /\ Settle(p, r).latest = p.latest
         /\ Settle(p, r).latestMonth = p.latestMonth
         /\ Settle(p, r).checking = p.checking
         /\ Settle(p, r).acknowledged \in {Nothing, p.acknowledged}
  BY FinishedFields DEF Settle

\* The answer to a summary or a preflight that is not the current one changes no check.
LEMMA OtherAnswerStep ==
  ASSUME PageIInv, NEW r \in requests, r.kind # "preflight" \/ r.month # page.month,
         page' \in Pages, SameCheck, page'.acknowledged \in {Nothing, page.acknowledged},
         requests' = requests \ {r}, UNCHANGED <<book, canView, agreed, count>>
  PROVE  PageIInv'
<1>1. RequestsGoOn
  BY TakenAway
<1>2. AcknowledgedIsAgreed'
  BY DEF PageIInv, AcknowledgedIsAgreed
<1> QED
  BY <1>1, <1>2, QuietPageStep, Numbers

LEMMA TakeSummaryStep ==
  ASSUME PageIInv, NEW r \in requests, TakeSummary(r)
  PROVE  PageIInv'
<1> DEFINE s == IF r.answer = "failed" THEN Nothing
                ELSE [month |-> r.month, status |-> book[r.month].status]
           p == [page EXCEPT !.loading = FALSE, !.summary = s]
<1>1. r.month \in Months
  BY Numbers DEF Asked
<1>2. book[r.month] \in Month
  BY <1>1, Numbers
<1>3. s \in Summaries \cup {Nothing}
  BY <1>1, <1>2 DEF Summaries, Month
<1>4. page' = Settle(p, r)
  BY DEF TakeSummary
<1> HIDE DEF s
<1>5. /\ p \in Pages /\ p.month = page.month /\ p.preflight = page.preflight
      /\ p.shown = page.shown /\ p.latest = page.latest /\ p.latestMonth = page.latestMonth
      /\ p.checking = page.checking /\ p.acknowledged = page.acknowledged
  BY <1>3, Numbers DEF Pages
<1> HIDE DEF p
<1>6. page' \in Pages /\ SameCheck /\ page'.acknowledged \in {Nothing, page.acknowledged}
  BY <1>4, <1>5, SettleFields DEF SameCheck
<1> QED
  BY <1>6, OtherAnswerStep DEF TakeSummary

LEMMA TakePreflightStep ==
  ASSUME PageIInv, NEW r \in requests, TakePreflight(r)
  PROVE  PageIInv'
<1>1. r \in Asked /\ r.month \in Months
  BY Numbers DEF Asked
<1>2. CASE isCurrent(r)
  <2> DEFINE f == IF r.answer = "failed" THEN Nothing ELSE Preflight(r.month)
             p == Adopt(page, r)
  <2>1. book[r.month] \in Month
    BY <1>1, Numbers
  <2>2. f \in Preflights \cup {Nothing} /\ (f # Nothing => f.month = r.month)
    BY <1>1, <2>1 DEF Preflight, Preflights, Month
  <2>3. r.id = page.latest /\ r.month = page.month
    BY <1>2 DEF isCurrent
  <2>4. p = [page EXCEPT !.preflight = f, !.shown = r.id, !.checking = FALSE]
    BY DEF Adopt
  <2> HIDE DEF f, p
  <2>5. /\ p \in Pages /\ p.month = page.month /\ p.preflight = f
        /\ p.shown = page.latest /\ p.latest = page.latest /\ p.latestMonth = page.latestMonth
        /\ p.checking = FALSE /\ p.acknowledged = page.acknowledged
    BY <2>2, <2>3, <2>4, Numbers DEF Pages
  <2>6. page' = Settle(p, r)
    BY <1>2 DEF TakePreflight, p
  <2>7. /\ page' \in Pages /\ page'.month = page.month /\ page'.preflight = f
        /\ page'.shown = page.latest /\ page'.latest = page.latest
        /\ page'.latestMonth = page.latestMonth
        /\ page'.checking = FALSE /\ page'.acknowledged \in {Nothing, page.acknowledged}
    BY <2>5, <2>6, SettleFields
  <2>8. requests' = requests \ {r} /\ UNCHANGED <<book, canView, agreed, count>>
    BY DEF TakePreflight
  <2>9. PageTypes'
    BY <2>7, <2>8 DEF PageIInv, PageTypes
  <2>10. NumbersAreOfRequests'
    BY <2>7, <2>8, Numbers DEF PageIInv, NumbersAreOfRequests
  <2>11. LatestPreflightIsShown' /\ CheckingMeansAsked' /\ AcknowledgedIsAgreed'
    BY <2>2, <2>3, <2>7, <2>8 DEF LatestPreflightIsShown, CheckingMeansAsked, AcknowledgedIsAgreed,
       PageIInv
  <2> QED
    BY <2>9, <2>10, <2>11 DEF PageIInv
<1>3. CASE ~isCurrent(r)
  <2>1. page' = Settle(page, r) /\ requests' = requests \ {r}
    BY <1>3 DEF TakePreflight
  <2>2. UNCHANGED <<book, canView, agreed, count>>
    BY DEF TakePreflight
  <2>3. page' \in Pages /\ SameCheck /\ page'.acknowledged \in {Nothing, page.acknowledged}
    BY <2>1, Numbers, SettleFields DEF SameCheck
  <2>4. RequestsGoOn
    BY <1>3, <2>1, <2>2, Numbers DEF RequestsGoOn, isCurrent
  <2>5. AcknowledgedIsAgreed'
    BY <2>2, <2>3 DEF PageIInv, AcknowledgedIsAgreed
  <2> QED
    BY <2>2, <2>3, <2>4, <2>5, QuietPageStep, Numbers
<1> QED
  BY <1>2, <1>3

LEMMA TakeWrittenSteps ==
  ASSUME PageIInv, NEW r \in requests, TakeDone(r) \/ TakeRejection(r) \/ TakeFailure(r)
  PROVE  PageIInv'
<1>1. r \in Asked /\ r.month \in Months /\ r.flow \in Nat
  BY Numbers DEF Asked
<1>2. requests \ {r} \in SUBSET requests
  OBVIOUS
<1>3. CASE TakeDone(r)
  <2> DEFINE p == IF r.kind = "generate"
                  THEN [page EXCEPT !.generateOpen = FALSE, !.acknowledged = Nothing] ELSE page
  <2>1. p \in Pages /\ p.shown = page.shown
    BY Numbers DEF Pages
  <2>2. reloadPage(p, requests \ {r}, r.month, r.flow) /\ UNCHANGED <<book, canView>>
    BY <1>3 DEF TakeDone
  <2> HIDE DEF p
  <2> QED
    BY <1>1, <1>2, <2>1, <2>2, ReloadPageStep
<1>4. CASE TakeRejection(r)
  BY <1>1, <1>2, <1>4, LoadPreflightStep DEF TakeRejection
<1>5. CASE TakeFailure(r)
  <2>1. /\ page' = Finished(page, r.flow, FALSE) /\ requests' = requests \ {r}
        /\ UNCHANGED <<book, canView, agreed, count>> /\ r.kind # "preflight"
    BY <1>5 DEF TakeFailure, AfterFailure
  <2> DEFINE kept == FALSE
  <2>2. page' = Finished(page, r.flow, kept)
    BY <2>1
  <2> HIDE DEF kept
  <2>3. page' \in Pages /\ SameCheck /\ page'.acknowledged \in {Nothing, page.acknowledged}
    BY <2>2, Numbers, FinishedFields DEF SameCheck
  <2> QED
    BY <2>1, <2>3, OtherAnswerStep
<1> QED
  BY <1>3, <1>4, <1>5

----------------------------------------------------------------------------
(* The invariant, and what follows from it. *)

LEMMA PageNextIInv == PageIInv /\ [PageNext]_pageVars => PageIInv'
<1> SUFFICES ASSUME PageIInv, [PageNext]_pageVars PROVE PageIInv'
  OBVIOUS
<1>1. CASE Administrator
  BY <1>1, ClickSteps, SendingSteps, LoadingSteps DEF Administrator
<1>2. ASSUME NEW r \in requests, Serve(r) \/ ServeFailure(r) \/ Take(r)
      PROVE  PageIInv'
  BY <1>2, ServeSteps, TakeSummaryStep, TakePreflightStep, TakeWrittenSteps DEF Take
<1>3. ASSUME NEW m \in Months, ChangeBook(m)
      PROVE  PageIInv'
  BY <1>3, ChangeBookStep
<1>4. CASE UNCHANGED pageVars
  BY <1>4, Untouched, ServerStep, Numbers DEF pageVars
<1> QED
  BY <1>1, <1>2, <1>3, <1>4 DEF PageNext

LEMMA PageInvariance == PageSpec => []PageIInv
<1> QED
  BY PageOpens, PageNextIInv, PTL DEF PageSpec

\* For any months, warnings and numbers of requests under way, answered in any order: the
\* preflight on the page is the answer to the latest request and of the month selected,
\* and the page says it is checking only while an answer can still end that.
THEOREM ThePageIsUpToDate == PageSpec => []PageInv
<1> QED
  BY PageInvariance, PageTypesSuffice, PTL

\* No generate request carries the acknowledgement of warnings that were not agreed to
\* for that month, or were asked for again since.
THEOREM WarningsSentWereAgreed == PageSpec => OnlyAgreedWarningsAreSent
<1> DEFINE Sending(r) == r \in requests' /\ r \notin requests /\ r.kind = "generate"
                           /\ r.answer = "none" /\ r.codes # {}
<1>1. ASSUME PageIInv, PageNext, NEW r, Sending(r)
      PROVE  agreed = [month |-> r.month, codes |-> r.codes]
  <2>1. CASE submitGenerate
    <3>1. r = Ask(count + 1, "generate", page.month, buildSettlementGenerateBody, count + 1, FALSE)
      BY <1>1, <2>1 DEF submitGenerate
    <3>2. r.month = page.month /\ r.codes = buildSettlementGenerateBody
      BY <3>1 DEF Ask
    <3>3. isWarningAcknowledgementCurrent /\ r.codes = page.acknowledged.codes
      BY <1>1, <3>2 DEF buildSettlementGenerateBody
    <3>4. /\ page.acknowledged # Nothing /\ page.acknowledged = agreed
          /\ r.month = agreed.month /\ r.codes = agreed.codes
      BY <1>1, <3>2, <3>3 DEF isWarningAcknowledgementCurrent, PageIInv, AcknowledgedIsAgreed
    <3>5. agreed \in Agreements
      BY <1>1, <3>4, PageParts
    <3> QED
      BY <3>4, <3>5 DEF Agreements
  <2>2. ASSUME NEW p, NEW rest \in SUBSET requests, NEW m, NEW flow,
               reloadPage(p, rest, m, flow) \/ loadPreflight(p, rest, m, flow)
        PROVE  FALSE
    BY <1>1, <2>2 DEF reloadPage, loadPreflight, Ask
  <2>3. ASSUME NEW q \in requests, NEW outcome, Answered(q, outcome), outcome # "none"
        PROVE  FALSE
    <3>1. q \in Asked
      BY <1>1, Numbers
    <3> QED
      BY <1>1, <2>3, <3>1 DEF Answered, Asked
  <2>4. CASE Query \/ onOk
    BY <1>1, <2>4, PageParts DEF Query, onOk, Ask, Dialogs
  <2>5. ASSUME NEW q \in requests, Serve(q) \/ ServeFailure(q)
        PROVE  FALSE
    BY <2>3, <2>5 DEF Serve, ServeFailure, ServeGenerate, ServeConfirm, ServeLock, ServeStep
  <2>6. ASSUME NEW q \in requests, Take(q)
        PROVE  FALSE
    <3>1. requests \ {q} \in SUBSET requests
      OBVIOUS
    <3>2. CASE TakeDone(q) \/ TakeRejection(q)
      BY <2>2, <3>1, <3>2 DEF TakeDone, TakeRejection
    <3>3. CASE TakeSummary(q) \/ TakePreflight(q) \/ TakeFailure(q)
      BY <1>1, <3>3 DEF TakeSummary, TakePreflight, TakeFailure
    <3> QED
      BY <2>6, <3>2, <3>3 DEF Take
  <2>7. CASE Refresh \/ \E m \in Months : ChangeMonth(m)
    <3>1. requests \in SUBSET requests
      OBVIOUS
    <3> QED
      BY <2>2, <2>7, <3>1 DEF Refresh, ChangeMonth
  <2>8. CASE requests' = requests
    BY <1>1, <2>8
  <2>9. CASE Administrator
    BY <2>1, <2>4, <2>7, <2>8, <2>9 DEF Administrator, runGenerate, ConfirmWarnings,
       cancelGenerate, runConfirm, runLock, AskTo, CancelDialog
  <2> QED
    BY <1>1, <2>5, <2>6, <2>8, <2>9 DEF PageNext, ChangeBook
<1>2. ASSUME PageIInv, [PageNext]_pageVars
      PROVE  [\A r \in requests' \ requests :
                  r.kind = "generate" /\ r.answer = "none" /\ r.codes /= {} =>
                      agreed = [month |-> r.month, codes |-> r.codes]]_pageVars
  BY <1>1, <1>2
<1> QED
  BY <1>2, PageInvariance, PTL DEF PageSpec, OnlyAgreedWarningsAreSent

----------------------------------------------------------------------------
(* The audit log.  Its list is sorted by time and id, so an entry that is  *)
(* written while an administrator pages through it may push others down,   *)
(* never up: what he has not seen yet stays below the pages he has seen.   *)

\* The entries listed before x.
NewerThan(S, x) == {y \in S : IsNewer(y, x)}

\* Where x is listed among the entries of S, from 0.
Rank(S, x) == Cardinality(NewerThan(S, x))

\* Entries as the table keeps them: finitely many, with ids of their own.
IsTable(S) == S \subseteq Entries /\ IsFiniteSet(S) /\ \A x, y \in S : x.id = y.id => x = y

\* What the fields of an entry are.
LEMMA EntryFields ==
  ASSUME NEW x \in Entries
  PROVE  x.at \in Int /\ x.id \in Int /\ x.seq \in Nat /\ x.rows \in Nat
  BY DEF Entries

\* "Newer" is a strict order, and total where ids differ.
LEMMA NewerIsAnOrder ==
  ASSUME NEW x \in Entries, NEW y \in Entries, NEW z \in Entries
  PROVE  /\ ~IsNewer(x, x)
         /\ IsNewer(x, y) /\ IsNewer(y, z) => IsNewer(x, z)
         /\ x.id # y.id => IsNewer(x, y) \/ IsNewer(y, x)
  BY EntryFields DEF IsNewer

\* A rank is below the number of entries.
LEMMA RankType ==
  ASSUME NEW S, IsTable(S), NEW x \in S
  PROVE  /\ IsFiniteSet(NewerThan(S, x)) /\ NewerThan(S, x) \subseteq S
         /\ Rank(S, x) \in Nat /\ Cardinality(S) \in Nat /\ Rank(S, x) < Cardinality(S)
<1>1. NewerThan(S, x) \subseteq S /\ x \notin NewerThan(S, x)
  BY NewerIsAnOrder DEF NewerThan, IsTable
<1>2. IsFiniteSet(S) BY DEF IsTable
<1>3. /\ IsFiniteSet(NewerThan(S, x)) /\ Rank(S, x) <= Cardinality(S)
      /\ Cardinality(S) = Rank(S, x) => S = NewerThan(S, x)
  BY <1>1, <1>2, FS_Subset DEF Rank
<1>4. Rank(S, x) \in Nat /\ Cardinality(S) \in Nat
  BY <1>2, <1>3, FS_CardinalityType DEF Rank
<1> QED BY <1>1, <1>3, <1>4

\* What is listed before an entry is listed before all that follow it.
LEMMA NewerHasLowerRank ==
  ASSUME NEW S, IsTable(S), NEW x \in S, NEW y \in S, IsNewer(x, y)
  PROVE  Rank(S, x) < Rank(S, y)
<1>1. NewerThan(S, x) \subseteq NewerThan(S, y)
  BY NewerIsAnOrder DEF NewerThan, IsTable
<1>2. x \in NewerThan(S, y) /\ x \notin NewerThan(S, x)
  BY NewerIsAnOrder DEF NewerThan, IsTable
<1>3. /\ Rank(S, x) <= Rank(S, y)
      /\ Rank(S, x) = Rank(S, y) => NewerThan(S, x) = NewerThan(S, y)
  BY <1>1, RankType, FS_Subset DEF Rank
<1> QED BY <1>2, <1>3, RankType

\* No two entries have one rank,
LEMMA RanksDiffer ==
  ASSUME NEW S, IsTable(S), NEW x \in S, NEW y \in S, Rank(S, x) = Rank(S, y)
  PROVE  x = y
<1>1. SUFFICES ASSUME x # y PROVE FALSE
  OBVIOUS
<1>2. x.id # y.id /\ x \in Entries /\ y \in Entries
  BY <1>1 DEF IsTable
<1>3. IsNewer(x, y) \/ IsNewer(y, x)
  BY <1>2, NewerIsAnOrder
<1> QED BY <1>3, NewerHasLowerRank, RankType

\* so there is one at every rank, there being as many ranks as entries.
LEMMA EveryRankIsTaken ==
  ASSUME NEW S, IsTable(S), NEW n \in 0..(Cardinality(S) - 1)
  PROVE  \E x \in S : Rank(S, x) = n
<1> DEFINE T == 0..(Cardinality(S) - 1)
           f == [x \in S |-> Rank(S, x)]
<1>1. IsFiniteSet(S) /\ Cardinality(S) \in Nat
  BY FS_CardinalityType DEF IsTable
<1>2. IsFiniteSet(T) /\ Cardinality(T) = Cardinality(S)
  BY <1>1, FS_Interval
<1>3. f \in [S -> T]
  BY <1>1, RankType
<1>4. f \in Injection(S, T)
  BY <1>3, RanksDiffer DEF Injection, IsInjective
<1>5. f \in Surjection(S, T)
  BY <1>2, <1>4, FS_Injection
<1> QED BY <1>5 DEF Surjection

\* The list has each entry exactly once, at its rank.
LEMMA ListedByRank ==
  ASSUME NEW S, IsTable(S)
  PROVE  /\ Cardinality(S) \in Nat
         /\ NewestFirst(S) \in Seq(S) /\ Len(NewestFirst(S)) = Cardinality(S)
         /\ \A n \in 1..Cardinality(S) : NewestFirst(S)[n] \in S /\ Rank(S, NewestFirst(S)[n]) = n - 1
         /\ \A x \in S : Rank(S, x) + 1 \in 1..Cardinality(S) /\ NewestFirst(S)[Rank(S, x) + 1] = x
<1> DEFINE L == NewestFirst(S)
<1>1. IsFiniteSet(S) /\ Cardinality(S) \in Nat
  BY FS_CardinalityType DEF IsTable
<1>2. L = [n \in 1..Cardinality(S) |-> CHOOSE x \in S : Rank(S, x) = n - 1]
  BY DEF NewestFirst, Ordered, Rank, NewerThan
<1> HIDE DEF L
<1>3. ASSUME NEW n \in 1..Cardinality(S) PROVE L[n] \in S /\ Rank(S, L[n]) = n - 1
  <2>1. n - 1 \in 0..(Cardinality(S) - 1) BY <1>1
  <2>2. \E x \in S : Rank(S, x) = n - 1 BY <2>1, EveryRankIsTaken
  <2> QED BY <1>2, <2>2
<1>4. L \in Seq(S) /\ Len(L) = Cardinality(S)
  BY <1>1, <1>2, <1>3, IsASeq, LenProperties
<1>5. ASSUME NEW x \in S PROVE Rank(S, x) + 1 \in 1..Cardinality(S) /\ L[Rank(S, x) + 1] = x
  <2>1. Rank(S, x) \in Nat /\ Rank(S, x) < Cardinality(S) BY RankType
  <2>2. Rank(S, x) + 1 \in 1..Cardinality(S) BY <1>1, <2>1
  <2>3. L[Rank(S, x) + 1] \in S /\ Rank(S, L[Rank(S, x) + 1]) = Rank(S, x)
    BY <1>3, <2>1, <2>2
  <2> QED BY <2>2, <2>3, RanksDiffer
<1> QED BY <1>1, <1>3, <1>4, <1>5 DEF L

----------------------------------------------------------------------------
(* Pages and exports of a list. *)

\* The least of two numbers.
LEMMA SmallerOf ==
  ASSUME NEW m \in Int, NEW n \in Int
  PROVE  Min({m, n}) = IF m <= n THEN m ELSE n
<1> DEFINE k == IF m <= n THEN m ELSE n
<1>1. k \in {m, n} /\ \A y \in {m, n} : k <= y OBVIOUS
<1>2. \A j \in {m, n} : (\A y \in {m, n} : j <= y) => j = k OBVIOUS
<1> QED BY <1>1, <1>2 DEF Min

\* The first rows of a list are its rows up to the limit.
LEMMA FirstRowsAre ==
  ASSUME NEW S, NEW rows \in Seq(S), NEW n \in Nat
  PROVE  /\ FirstRows(rows, n) \in Seq(S)
         /\ Len(FirstRows(rows, n)) = IF n <= Len(rows) THEN n ELSE Len(rows)
         /\ \A i \in 1..Len(FirstRows(rows, n)) : FirstRows(rows, n)[i] = rows[i]
<1> DEFINE k == Min({n, Len(rows)})
<1>1. Len(rows) \in Nat /\ \A i \in 1..Len(rows) : rows[i] \in S
  BY LenProperties, ElementOfSeq
<1>2. k = (IF n <= Len(rows) THEN n ELSE Len(rows)) /\ k \in Nat
  BY <1>1, SmallerOf
<1> HIDE DEF k
<1>3. \A i \in 1..k : rows[i] \in S
  BY <1>1, <1>2
<1>4. /\ SubSeq(rows, 1, k) \in Seq(S)
      /\ Len(SubSeq(rows, 1, k)) = IF 1 <= k THEN k - 1 + 1 ELSE 0
      /\ \A i \in 1..k - 1 + 1 : SubSeq(rows, 1, k)[i] = rows[1 + i - 1]
  BY <1>2, <1>3, SubSeqProperties
<1>5. FirstRows(rows, n) = SubSeq(rows, 1, k)
  BY DEF FirstRows, k
<1> QED BY <1>1, <1>2, <1>4, <1>5

\* A page shows every row of its part of the list.
LEMMA PageShows ==
  ASSUME NEW S, NEW rows \in Seq(S), NEW p \in Nat \ {0}, NEW k \in 1..Len(rows),
         (p - 1) * ListSize < k, k <= p * ListSize
  PROVE  rows[k] \in Range(PageRows(rows, p))
<1> DEFINE first == (p - 1) * ListSize
           rest == SubSeq(rows, first + 1, Len(rows))
<1>1. ListSize \in Nat \ {0} BY ReportsAssumption
<1>2. first \in Nat /\ p * ListSize = first + ListSize
  BY <1>1
<1>3. Len(rows) \in Nat /\ \A i \in 1..Len(rows) : rows[i] \in S
  BY LenProperties, ElementOfSeq
<1>4. first < k /\ k <= first + ListSize BY <1>2
<1> HIDE DEF first
<1>5. \A i \in (first + 1)..Len(rows) : rows[i] \in S BY <1>2, <1>3
<1>6. /\ rest \in Seq(S)
      /\ Len(rest) = IF first + 1 <= Len(rows) THEN Len(rows) - (first + 1) + 1 ELSE 0
      /\ \A i \in 1..Len(rows) - (first + 1) + 1 : rest[i] = rows[first + 1 + i - 1]
  BY <1>2, <1>3, <1>5, SubSeqProperties
<1>7. PageRows(rows, p) = FirstRows(rest, ListSize)
  BY DEF PageRows, first
<1> HIDE DEF rest
<1> DEFINE i == k - first
           shown == FirstRows(rest, ListSize)
<1>8. i \in 1..Len(rest) /\ i <= ListSize /\ rest[i] = rows[k]
  <2>1. k \in Int /\ k <= Len(rows) BY <1>3
  <2>2. i \in Int /\ 1 <= i /\ i <= ListSize /\ i <= Len(rows) - first
    BY <1>1, <1>2, <1>3, <1>4, <2>1
  <2>3. Len(rest) = Len(rows) - first BY <1>2, <1>3, <1>4, <1>6, <2>1
  <2>4. i \in 1..Len(rows) - (first + 1) + 1 /\ first + 1 + i - 1 = k
    BY <1>2, <1>3, <2>1, <2>2
  <2> HIDE DEF i
  <2>5. rest[i] = rows[first + 1 + i - 1] BY <1>6, <2>4
  <2>6. rest[i] = rows[k] BY <2>4, <2>5
  <2>7. i \in 1..Len(rest) BY <1>2, <1>3, <2>2, <2>3
  <2> QED BY <2>2, <2>6, <2>7
<1>9. i \in 1..Len(shown) /\ shown[i] = rest[i] /\ shown \in Seq(S)
  BY <1>1, <1>6, <1>8, FirstRowsAre
<1>10. i \in DOMAIN shown
  BY <1>9, LenProperties
<1> QED BY <1>7, <1>8, <1>9, <1>10 DEF Range

\* When no more than n of the listed entries are taken, they are all of them.
LEMMA FirstRowsAreAll ==
  ASSUME NEW S, IsTable(S), NEW n \in Nat, Len(FirstRows(NewestFirst(S), n + 1)) <= n
  PROVE  Range(FirstRows(NewestFirst(S), n + 1)) = S
<1> DEFINE L == NewestFirst(S)
           taken == FirstRows(L, n + 1)
<1>1. /\ L \in Seq(S) /\ Len(L) = Cardinality(S) /\ Cardinality(S) \in Nat
      /\ \A x \in S : \E k \in 1..Len(L) : L[k] = x
      /\ \A k \in 1..Len(L) : L[k] \in S
  BY ListedByRank
<1> HIDE DEF L
<1>2. n + 1 \in Nat OBVIOUS
<1>3. /\ taken \in Seq(S) /\ Len(taken) = IF n + 1 <= Len(L) THEN n + 1 ELSE Len(L)
      /\ \A i \in 1..Len(taken) : taken[i] = L[i]
  BY <1>1, <1>2, FirstRowsAre
<1>4. Len(taken) <= n BY DEF L
<1> HIDE DEF taken
<1>5. Len(taken) = Len(L) BY <1>1, <1>3, <1>4
<1>6. DOMAIN taken = 1..Len(L) BY <1>3, <1>5, LenProperties
<1>7. Range(taken) = {L[k] : k \in 1..Len(L)} BY <1>3, <1>5, <1>6 DEF Range
<1>8. {L[k] : k \in 1..Len(L)} = S BY <1>1
<1> QED BY <1>7, <1>8 DEF taken, L

----------------------------------------------------------------------------
(* The invariant: the log and what left the server (ServerInv), and the    *)
(* list or the export under way (ReaderInv).                               *)

\* The entries a fixed range of times has.
InRange(S, from, to) == {x \in S : from <= x.at /\ x.at <= to}

Exports == [entries : SUBSET Entries, asOf : Nat, from : Int, to : Int]

\* What an export has read misses no entry of its range that was there by then.
Whole(export, entries) ==
    /\ export \in Exports /\ IsFiniteSet(export.entries)
    /\ export.asOf <= Cardinality(entries)
    /\ {x \in entries : x.seq <= export.asOf /\ export.from <= x.at /\ x.at <= export.to}
         \subseteq export.entries

\* The log is a table, its entries are numbered as they were committed.
LogOK ==
    /\ IsTable(log) /\ \A x \in log : x.seq <= Cardinality(log)
    /\ instant \in Int

ReaderOK ==
    /\ DOMAIN reader = {"job", "step", "query", "read", "page", "total", "seen", "asOf",
                        "disturbed"}
    /\ reader.page \in Nat \ {0} /\ reader.total \in Nat
    /\ reader.asOf \in Nat /\ reader.asOf <= Cardinality(log)

\* What the reader was to see and has not seen is listed below the pages shown so far.
ListIsAhead ==
    reader.job = "list" =>
        /\ reader.query \in AuditQueries /\ (reader.query.from = 0) = (reader.query.to = 0)
        /\ reader.query.to # 0 /\ ~reader.disturbed =>
             LET rows == InRange(log, reader.query.from, reader.query.to) IN
             /\ reader.step = "rows" => reader.total = Cardinality(rows)
             /\ \A x \in rows : x.seq <= reader.asOf /\ x \notin reader.seen =>
                   /\ reader.step \in {"count", "rows"} =>
                         (reader.page - 1) * ListSize <= Rank(rows, x)
                   /\ reader.step = "shown" =>
                         /\ reader.page * ListSize <= Rank(rows, x)
                         /\ reader.page * ListSize < reader.total

\* An export that is about to be handed over is whole ...
ReadExportIsWhole ==
    reader.job = "export" =>
        /\ reader.query \in AuditQueries
        /\ reader.step = "log" => Whole(reader.read[1], log)

\* ... as are those that were.
HandedAreWhole == handed \in Seq(Exports) /\ \A i \in DOMAIN handed : Whole(handed[i], log)

----------------------------------------------------------------------------
(* The entries of a time range. *)

\* Some of the entries of a table are a table,
LEMMA PartOfTable ==
  ASSUME NEW S, IsTable(S), NEW T, T \subseteq S
  PROVE  IsTable(T)
  BY FS_Subset DEF IsTable

\* such as those of a range.
LEMMA RangeIsTable ==
  ASSUME NEW S, IsTable(S), NEW from, NEW to
  PROVE  IsTable(InRange(S, from, to)) /\ InRange(S, from, to) \subseteq S
<1>1. InRange(S, from, to) \subseteq S BY DEF InRange
<1> QED BY <1>1, PartOfTable

\* Entries are listed no higher when there are more of them.
LEMMA MoreRowsHigherRank ==
  ASSUME NEW S, IsTable(S), NEW T, T \subseteq S, NEW x \in T
  PROVE  Rank(T, x) \in Nat /\ Rank(S, x) \in Nat /\ Rank(T, x) <= Rank(S, x)
<1>1. IsTable(T) /\ x \in S BY PartOfTable
<1>2. Rank(T, x) \in Nat /\ Rank(S, x) \in Nat /\ IsFiniteSet(NewerThan(S, x))
  BY <1>1, RankType
<1>3. NewerThan(T, x) \subseteq NewerThan(S, x) BY DEF NewerThan
<1> QED BY <1>2, <1>3, FS_Subset DEF Rank

\* A range whose ends are given is the same at every time.
LEMMA GivenRange ==
  ASSUME NEW q \in AuditQueries, q.from # 0, q.to # 0
  PROVE  parseAuditLogFilters(q) = InRange(log, q.from, q.to)
  BY DEF parseAuditLogFilters, createdFrom, createdTo, InRange

\* The ends of a range are times, given or not.
LEMMA RangeEnds ==
  ASSUME NEW q \in AuditQueries, instant \in Int
  PROVE  createdFrom(q) \in Int /\ createdTo(q) \in Int
<1>1. q.from \in Int /\ q.to \in Int /\ DefaultSpan \in Int
  BY ReportsAssumption DEF AuditQueries
<1> QED BY <1>1 DEF createdFrom, createdTo

\* What the filters select is a range.
LEMMA FilterIsRange ==
  ASSUME NEW q
  PROVE  parseAuditLogFilters(q) = InRange(log, createdFrom(q), createdTo(q))
  BY DEF parseAuditLogFilters, InRange

\* An entry that is written has a number above those that were there.
LEMMA WriteAdds ==
  ASSUME LogOK, NEW at \in Int, NEW action \in {"other", "exported", "refused"},
         NEW rows \in Nat, write(at, action, rows)
  PROVE  \E x : /\ log' = log \cup {x} /\ x \notin log
                /\ x.seq = Cardinality(log) + 1 /\ x.action = action /\ x.rows = rows
                /\ IsTable(log') /\ Cardinality(log) \in Nat
                /\ Cardinality(log') = Cardinality(log) + 1
                /\ \A y \in log' : y.seq <= Cardinality(log')
<1> DEFINE c == Cardinality(log)
<1>1. PICK id \in (1..MaxEntries) \ {x.id : x \in log} :
        log' = log \cup {Entry(id, at, action, rows)}
  BY DEF write
<1> DEFINE x == Entry(id, at, action, rows)
<1>2. IsFiniteSet(log) /\ c \in Nat /\ log \subseteq Entries
  BY FS_CardinalityType DEF LogOK, IsTable
<1> HIDE DEF c
<1>3. x = [id |-> id, at |-> at, action |-> action, rows |-> rows, seq |-> c + 1]
  BY DEF Entry, c
<1>4. c + 1 \in Nat /\ id \in 1..MaxEntries BY <1>1, <1>2
<1>5. x \in Entries BY <1>3, <1>4 DEF Entries
<1>6. x.id = id /\ x.seq = c + 1 /\ x.action = action /\ x.rows = rows BY <1>3
<1> HIDE DEF x
<1>7. \A y \in log : y.id # x.id BY <1>1, <1>6
<1>8. x \notin log BY <1>7
<1>9. log' = log \cup {x} BY <1>1 DEF x
<1>10. IsFiniteSet(log') /\ Cardinality(log') = c + 1
  BY <1>2, <1>8, <1>9, FS_AddElement DEF c
<1>11. IsTable(log')
  <2>1. log' \subseteq Entries BY <1>2, <1>5, <1>9
  <2>2. \A y, z \in log' : y.id = z.id => y = z
    BY <1>7, <1>9 DEF LogOK, IsTable
  <2> QED BY <1>10, <2>1, <2>2 DEF IsTable
<1>12. \A y \in log' : y.seq <= c + 1
  <2>1. \A y \in log : y.seq <= c /\ y.seq \in Nat
    BY <1>2, EntryFields DEF LogOK, c
  <2> QED BY <1>2, <1>6, <1>9, <2>1
<1> QED BY <1>2, <1>6, <1>8, <1>9, <1>10, <1>11, <1>12 DEF c

----------------------------------------------------------------------------
(* What a step that reads keeps, and what a step that writes keeps. *)

ReaderInv == ReaderOK /\ ListIsAhead /\ ReadExportIsWhole
ServerInv == LogOK /\ HandedAreWhole /\ ExportsAreLogged

\* The log and the exports handed over stay as they are when something is read.
LEMMA ReadingKeepsServer ==
  ASSUME ServerInv, log' = log, handed' = handed, instant' \in Int
  PROVE  ServerInv'
<1>1. LogOK' BY DEF ServerInv, LogOK
<1>2. HandedAreWhole' BY DEF ServerInv, HandedAreWhole
<1>3. ExportsAreLogged' BY DEF ServerInv, ExportsAreLogged
<1> QED BY <1>1, <1>2, <1>3 DEF ServerInv

\* The log has finitely many entries.
LEMMA LogCardinality ==
  ASSUME LogOK
  PROVE  Cardinality(log) \in Nat /\ IsFiniteSet(log)
  BY FS_CardinalityType DEF LogOK, IsTable

\* A reader at rest promises nothing.
LEMMA RestingReader ==
  ASSUME LogOK', reader' = Resting
  PROVE  ReaderInv'
<1>1. Cardinality(log') \in Nat BY FS_CardinalityType DEF LogOK, IsTable
<1>2. ReaderOK' BY <1>1 DEF Resting, ReaderOK
<1>3. reader'.job = "none" BY DEF Resting
<1>4. ListIsAhead' BY <1>3 DEF ListIsAhead
<1>5. ReadExportIsWhole' BY <1>3 DEF ReadExportIsWhole
<1> QED BY <1>2, <1>4, <1>5 DEF ReaderInv

\* The fields of the reader when something is asked for.
LEMMA AskingReader ==
  ASSUME LogOK, NEW j, NEW s, NEW q, Asking(j, s, q), log' = log
  PROVE  /\ ReaderOK' /\ reader'.job = j /\ reader'.step = s /\ reader'.query = q
         /\ reader'.page = 1 /\ reader'.seen = {}
<1>1. Cardinality(log) \in Nat BY LogCardinality
<1>2. reader' = [Resting EXCEPT !.job = j, !.step = s, !.query = q, !.asOf = Cardinality(log)]
  BY DEF Asking
<1> DEFINE r == reader'
<1>3. /\ DOMAIN r = {"job", "step", "query", "read", "page", "total", "seen", "asOf", "disturbed"}
      /\ r.job = j /\ r.step = s /\ r.query = q /\ r.asOf = Cardinality(log)
      /\ r.page = 1 /\ r.seen = {} /\ r.total = 0
  BY <1>2 DEF Resting
<1> HIDE DEF r
<1>4. ReaderOK'
  <2>1. /\ r.page \in Nat \ {0} /\ r.total \in Nat
        /\ r.asOf \in Nat /\ r.asOf <= Cardinality(log)
    BY <1>1, <1>3
  <2> QED BY <1>3, <2>1 DEF ReaderOK, r
<1> QED BY <1>3, <1>4 DEF r

\* Asking for a report of a month leaves the log alone.
LEMMA AskReportKeeps ==
  ASSUME LogOK, AskReport
  PROVE  ReaderInv'
<1>1. PICK j \in MonthReports, e \in Staff \cup {Nobody} :
        Asking(j, "read", [NoQuery EXCEPT !.employee = e])
  BY DEF AskReport
<1>2. log' = log BY DEF AskReport
<1>3. ReaderOK' /\ reader'.job = j BY <1>1, <1>2, AskingReader
<1>4. j # "list" /\ j # "export" BY DEF MonthReports
<1> QED BY <1>3, <1>4 DEF ReaderInv, ListIsAhead, ReadExportIsWhole

\* When the list is asked for nothing is seen, and nothing needs to be.
LEMMA AskListKeeps ==
  ASSUME LogOK, AskList
  PROVE  ReaderInv'
<1>1. PICK q \in AuditQueries : (q.from = 0) = (q.to = 0) /\ Asking("list", "count", q)
  BY DEF AskList
<1>2. log' = log BY DEF AskList
<1>3. /\ ReaderOK' /\ reader'.job = "list" /\ reader'.step = "count" /\ reader'.query = q
      /\ reader'.page = 1
  BY <1>1, <1>2, AskingReader
<1>4. ListIsAhead'
  <2> DEFINE rows == InRange(log, q.from, q.to)
  <2>1. IsTable(rows) BY RangeIsTable DEF LogOK
  <2> HIDE DEF rows
  <2>2. ListSize \in Nat \ {0} BY ReportsAssumption
  <2>3. \A x \in rows : (1 - 1) * ListSize <= Rank(rows, x)
    BY <2>1, <2>2, RankType
  <2>4. rows = InRange(log', reader'.query.from, reader'.query.to) BY <1>2, <1>3 DEF rows
  <2> QED BY <1>1, <1>3, <2>3, <2>4 DEF ListIsAhead
<1> QED BY <1>3, <1>4 DEF ReaderInv, ReadExportIsWhole

\* When an export is asked for nothing is read yet.
LEMMA AskExportKeeps ==
  ASSUME LogOK, AskExport
  PROVE  ReaderInv'
<1>1. PICK q \in AuditQueries : Asking("export", IF RangeRefused(q) THEN "fail" ELSE "read", q)
  BY DEF AskExport
<1>2. log' = log BY DEF AskExport
<1> DEFINE s == IF RangeRefused(q) THEN "fail" ELSE "read"
<1>3. s # "log" OBVIOUS
<1> HIDE DEF s
<1>4. Asking("export", s, q) BY <1>1 DEF s
<1>5. ReaderOK' /\ reader'.job = "export" /\ reader'.step = s /\ reader'.query = q
  BY <1>2, <1>4, AskingReader
<1> QED BY <1>3, <1>5 DEF ReaderInv, ListIsAhead, ReadExportIsWhole

\* A statement of another report.
LEMMA ReadStatementKeeps ==
  ASSUME ReaderInv, ReadStatement
  PROVE  ReaderInv'
<1>1. reader.job \in MonthReports /\ log' = log BY DEF ReadStatement
<1>2. PICK v : reader' = [reader EXCEPT !.read = v]
  BY DEF ReadStatement
<1>3. /\ reader'.job = reader.job /\ reader'.page = reader.page /\ reader'.total = reader.total
      /\ reader'.asOf = reader.asOf /\ DOMAIN reader' = DOMAIN reader
  BY <1>2 DEF ReaderInv, ReaderOK
<1>4. ReaderOK' BY <1>1, <1>3 DEF ReaderInv, ReaderOK
<1>5. reader'.job # "list" /\ reader'.job # "export" BY <1>1, <1>3 DEF MonthReports
<1> QED BY <1>4, <1>5 DEF ReaderInv, ListIsAhead, ReadExportIsWhole

\* Rows changed and entries written by others leave the reader but for a mark.
LEMMA MarkedReader ==
  ASSUME ReaderOK, NEW b, reader' = [reader EXCEPT !.disturbed = b]
  PROVE  /\ \A f \in {"job", "step", "query", "read", "page", "total", "seen", "asOf"} :
               reader'[f] = reader[f]
         /\ reader'.disturbed = b /\ DOMAIN reader' = DOMAIN reader
  BY DEF ReaderOK

\* The rows of a month are not entries.
LEMMA ChangeRowsKeeps ==
  ASSUME ReaderInv, ChangeRows
  PROVE  ReaderInv'
<1> DEFINE b == reader.disturbed \/ reader.read # <<>>
<1>1. reader' = [reader EXCEPT !.disturbed = b] /\ log' = log
  BY DEF ChangeRows
<1>2. b = FALSE => ~reader.disturbed OBVIOUS
<1>3. /\ reader'.job = reader.job /\ reader'.step = reader.step /\ reader'.query = reader.query
      /\ reader'.read = reader.read /\ reader'.page = reader.page
      /\ reader'.total = reader.total /\ reader'.seen = reader.seen
      /\ reader'.asOf = reader.asOf /\ reader'.disturbed = b /\ DOMAIN reader' = DOMAIN reader
  BY <1>1, MarkedReader DEF ReaderInv
<1> HIDE DEF b
<1>4. ReaderOK' BY <1>1, <1>3 DEF ReaderInv, ReaderOK
<1>5. ~reader'.disturbed => ~reader.disturbed BY <1>2, <1>3 DEF b
<1>6. ListIsAhead' BY <1>1, <1>3, <1>5 DEF ReaderInv, ListIsAhead
<1>7. ReadExportIsWhole' BY <1>1, <1>3 DEF ReaderInv, ReadExportIsWhole
<1> QED BY <1>4, <1>6, <1>7 DEF ReaderInv

\* The count is that of the range, and says so until something is written.
LEMMA CountEntriesKeeps ==
  ASSUME LogOK, ReaderInv, CountEntries
  PROVE  ReaderInv'
<1> DEFINE n == Cardinality(parseAuditLogFilters(reader.query))
<1>1. /\ reader.job = "list" /\ reader.step = "count" /\ log' = log
      /\ reader' = [reader EXCEPT !.step = "rows", !.total = n]
  BY DEF CountEntries
<1>2. n \in Nat
  <2>1. parseAuditLogFilters(reader.query) \subseteq log BY DEF parseAuditLogFilters
  <2> QED BY <2>1, LogCardinality, FS_Subset, FS_CardinalityType
<1> HIDE DEF n
<1>3. /\ reader'.job = "list" /\ reader'.step = "rows" /\ reader'.query = reader.query
      /\ reader'.page = reader.page /\ reader'.total = n /\ reader'.seen = reader.seen
      /\ reader'.asOf = reader.asOf /\ reader'.disturbed = reader.disturbed
      /\ DOMAIN reader' = DOMAIN reader
  BY <1>1 DEF ReaderInv, ReaderOK
<1>4. ReaderOK' BY <1>1, <1>2, <1>3 DEF ReaderInv, ReaderOK
<1>5. ReadExportIsWhole' BY <1>3 DEF ReadExportIsWhole
<1>6. ListIsAhead'
  <2> DEFINE q == reader.query
  <2>1. q \in AuditQueries /\ (q.from = 0) = (q.to = 0)
    BY <1>1 DEF ReaderInv, ListIsAhead
  <2>2. q.to # 0 => n = Cardinality(InRange(log, q.from, q.to))
    BY <2>1, GivenRange DEF n
  <2> QED BY <1>1, <1>3, <2>1, <2>2 DEF ReaderInv, ListIsAhead
<1> QED BY <1>4, <1>5, <1>6 DEF ReaderInv

\* What a page does not show of the rows that are left is listed below it.
LEMMA PageLeaves ==
  ASSUME NEW S, IsTable(S), NEW p \in Nat \ {0}, NEW x \in S,
         (p - 1) * ListSize <= Rank(S, x), x \notin Range(PageRows(NewestFirst(S), p))
  PROVE  p * ListSize <= Rank(S, x) /\ p * ListSize < Cardinality(S)
<1> DEFINE k == Rank(S, x) + 1
           first == (p - 1) * ListSize
           last == p * ListSize
           L == NewestFirst(S)
<1>1. first \in Nat /\ last \in Nat BY ReportsAssumption
<1>2. /\ Rank(S, x) \in Nat /\ Rank(S, x) < Cardinality(S) /\ Cardinality(S) \in Nat
  BY RankType
<1>3. L \in Seq(S) /\ k \in 1..Len(L) /\ L[k] = x
  BY ListedByRank
<1>4. first < k /\ k <= last => L[k] \in Range(PageRows(L, p))
  BY <1>3, PageShows
<1>5. ~(first < k /\ k <= last) BY <1>3, <1>4
<1>6. first <= Rank(S, x) OBVIOUS
<1> HIDE DEF first, last
<1>7. last <= Rank(S, x) BY <1>1, <1>2, <1>5, <1>6
<1> QED BY <1>1, <1>2, <1>7 DEF last

\* The page that is read leaves only what is listed below it,
LEMMA ReadPageKeeps ==
  ASSUME LogOK, ReaderInv, ReadPage
  PROVE  ReaderInv'
<1> DEFINE shown == Range(PageRows(NewestFirst(parseAuditLogFilters(reader.query)), reader.page))
<1>1. /\ reader.job = "list" /\ reader.step = "rows" /\ log' = log
      /\ reader' = [reader EXCEPT !.step = "shown", !.seen = reader.seen \cup shown]
  BY DEF ReadPage
<1> HIDE DEF shown
<1>3. /\ reader'.job = "list" /\ reader'.step = "shown" /\ reader'.query = reader.query
      /\ reader'.page = reader.page /\ reader'.total = reader.total
      /\ reader'.seen = reader.seen \cup shown
      /\ reader'.asOf = reader.asOf /\ reader'.disturbed = reader.disturbed
      /\ DOMAIN reader' = DOMAIN reader
  BY <1>1 DEF ReaderInv, ReaderOK
<1>4. ReaderOK' BY <1>1, <1>3 DEF ReaderInv, ReaderOK
<1>5. ReadExportIsWhole' BY <1>3 DEF ReadExportIsWhole
<1>6. ListIsAhead'
  <2> DEFINE q == reader.query
             rows == InRange(log, q.from, q.to)
  <2>1. q \in AuditQueries /\ (q.from = 0) = (q.to = 0)
    BY <1>1 DEF ReaderInv, ListIsAhead
  <2>2. IsTable(rows) BY RangeIsTable DEF LogOK
  <2>3. ASSUME q.to # 0, ~reader.disturbed, NEW x \in rows,
               x.seq <= reader.asOf, x \notin reader.seen \cup shown
        PROVE  reader.page * ListSize <= Rank(rows, x) /\ reader.page * ListSize < reader.total
    <3>1. (reader.page - 1) * ListSize <= Rank(rows, x) /\ reader.total = Cardinality(rows)
      BY <1>1, <2>3 DEF ReaderInv, ListIsAhead
    <3>2. parseAuditLogFilters(q) = rows BY <2>1, <2>3, GivenRange
    <3>3. x \notin Range(PageRows(NewestFirst(rows), reader.page))
      BY <2>3, <3>2 DEF shown
    <3>4. reader.page \in Nat \ {0} BY DEF ReaderInv, ReaderOK
    <3> HIDE DEF rows
    <3> QED BY <2>2, <2>3, <3>1, <3>3, <3>4, PageLeaves
  <2>4. rows = InRange(log', reader'.query.from, reader'.query.to) BY <1>1, <1>3
  <2> HIDE DEF rows
  <2> QED BY <1>3, <2>1, <2>3, <2>4 DEF ListIsAhead
<1> QED BY <1>4, <1>5, <1>6 DEF ReaderInv

\* and so the next one starts where it ended.
LEMMA NextPageKeeps ==
  ASSUME ReaderInv, NextPage
  PROVE  ReaderInv'
<1>1. /\ reader.job = "list" /\ reader.step = "shown" /\ log' = log
      /\ reader' = [reader EXCEPT !.step = "count", !.page = reader.page + 1]
  BY DEF NextPage
<1>2. /\ reader'.job = "list" /\ reader'.step = "count" /\ reader'.query = reader.query
      /\ reader'.page = reader.page + 1 /\ reader'.total = reader.total
      /\ reader'.seen = reader.seen
      /\ reader'.asOf = reader.asOf /\ reader'.disturbed = reader.disturbed
      /\ DOMAIN reader' = DOMAIN reader
  BY <1>1 DEF ReaderInv, ReaderOK
<1>3. reader.page \in Nat \ {0} BY DEF ReaderInv, ReaderOK
<1>4. reader.page + 1 \in Nat \ {0} /\ (reader.page + 1) - 1 = reader.page BY <1>3
<1>5. ReaderOK' BY <1>1, <1>2, <1>4 DEF ReaderInv, ReaderOK
<1>6. ReadExportIsWhole' BY <1>2 DEF ReadExportIsWhole
<1>7. ListIsAhead' BY <1>1, <1>2, <1>4 DEF ReaderInv, ListIsAhead
<1> QED BY <1>5, <1>6, <1>7 DEF ReaderInv

\* A failed export hands over nothing.
LEMMA ExportFailsKeeps ==
  ASSUME ReaderInv, reader.job = "export", reader' = [reader EXCEPT !.step = "fail"], log' = log
  PROVE  ReaderInv'
<1>1. /\ reader'.job = "export" /\ reader'.step = "fail" /\ reader'.query = reader.query
      /\ reader'.page = reader.page /\ reader'.total = reader.total
      /\ reader'.asOf = reader.asOf /\ DOMAIN reader' = DOMAIN reader
  BY DEF ReaderInv, ReaderOK
<1>2. ReaderOK' BY <1>1 DEF ReaderInv, ReaderOK
<1>3. reader.query \in AuditQueries BY DEF ReaderInv, ReadExportIsWhole
<1> QED BY <1>1, <1>2, <1>3 DEF ReaderInv, ListIsAhead, ReadExportIsWhole

\* The entries that an export takes are all that its range has.
LEMMA TakenAreWhole ==
  ASSUME LogOK, NEW q \in AuditQueries,
         Len(FirstRows(NewestFirst(parseAuditLogFilters(q)), TakeOneMore)) <= MaxExportRows
  PROVE  Whole([entries |-> Range(FirstRows(NewestFirst(parseAuditLogFilters(q)), TakeOneMore)),
                asOf |-> Cardinality(log), from |-> createdFrom(q), to |-> createdTo(q)], log)
<1> DEFINE S == parseAuditLogFilters(q)
           T == Range(FirstRows(NewestFirst(S), TakeOneMore))
           from == createdFrom(q)
           to == createdTo(q)
           c == Cardinality(log)
<1>1. S = InRange(log, from, to) BY FilterIsRange
<1>2. IsTable(S) /\ S \subseteq log BY <1>1, RangeIsTable DEF LogOK
<1>3. from \in Int /\ to \in Int BY RangeEnds DEF LogOK
<1>4. c \in Nat BY LogCardinality
<1>5. T = S
  <2>1. MaxExportRows \in Nat BY ReportsAssumption
  <2> HIDE DEF S
  <2> QED BY <1>2, <2>1, FirstRowsAreAll DEF TakeOneMore, S
<1> HIDE DEF S, T, from, to, c
<1> DEFINE export == [entries |-> T, asOf |-> c, from |-> from, to |-> to]
<1>6. T \in SUBSET Entries /\ IsFiniteSet(T) BY <1>2, <1>5 DEF IsTable
<1>7. export \in Exports BY <1>3, <1>4, <1>6 DEF Exports
<1>8. /\ export.entries = T /\ export.asOf = c /\ export.from = from /\ export.to = to
  OBVIOUS
<1> HIDE DEF export
<1>9. {x \in log : x.seq <= export.asOf /\ export.from <= x.at /\ x.at <= export.to} \subseteq T
  BY <1>1, <1>5, <1>8 DEF InRange
<1>10. c <= c BY <1>4
<1>11. Whole(export, log)
  BY <1>6, <1>7, <1>8, <1>9, <1>10 DEF Whole, c
<1> QED BY <1>11 DEF export, T, S, from, to, c

\* An export reads its range or fails.
LEMMA ReadExportKeeps ==
  ASSUME LogOK, ReaderInv, ReadExport
  PROVE  ReaderInv'
<1> DEFINE q == reader.query
           rows == FirstRows(NewestFirst(parseAuditLogFilters(q)), TakeOneMore)
           c == Cardinality(log)
           export == [entries |-> Range(rows), asOf |-> c,
                      from |-> createdFrom(q), to |-> createdTo(q)]
<1>1. /\ reader.job = "export" /\ log' = log
      /\ reader' = IF Len(rows) > MaxExportRows THEN [reader EXCEPT !.step = "fail"]
                   ELSE [reader EXCEPT !.step = "log", !.asOf = c, !.read = <<export>>]
  BY DEF ReadExport
<1>2. q \in AuditQueries BY <1>1 DEF ReaderInv, ReadExportIsWhole
<1>3. c \in Nat BY LogCardinality
<1>4. CASE Len(rows) > MaxExportRows
  <2>1. reader' = [reader EXCEPT !.step = "fail"] BY <1>1, <1>4
  <2> QED BY <1>1, <2>1, ExportFailsKeeps
<1>5. CASE ~(Len(rows) > MaxExportRows)
  <2>1. Len(rows) <= MaxExportRows
    <3>1. MaxExportRows \in Nat /\ TakeOneMore \in Nat BY ReportsAssumption DEF TakeOneMore
    <3>2. IsTable(parseAuditLogFilters(q)) BY FilterIsRange, RangeIsTable DEF LogOK
    <3>3. NewestFirst(parseAuditLogFilters(q)) \in Seq(parseAuditLogFilters(q))
      BY <3>2, ListedByRank
    <3>4. rows \in Seq(parseAuditLogFilters(q)) BY <3>1, <3>3, FirstRowsAre
    <3>5. Len(rows) \in Nat BY <3>4, LenProperties
    <3> QED BY <1>5, <3>1, <3>5
  <2>2. Whole(export, log) BY <1>2, <2>1, TakenAreWhole
  <2>3. reader' = [reader EXCEPT !.step = "log", !.asOf = c, !.read = <<export>>]
    BY <1>1, <1>5
  <2> HIDE DEF rows, c, export
  <2>4. /\ reader'.job = "export" /\ reader'.step = "log" /\ reader'.query = q
        /\ reader'.page = reader.page /\ reader'.total = reader.total
        /\ reader'.asOf = c /\ reader'.read = <<export>> /\ DOMAIN reader' = DOMAIN reader
    BY <1>1, <2>3 DEF ReaderInv, ReaderOK
  <2>5. ReaderOK'
    <3>1. c <= Cardinality(log') BY <1>1, <1>3 DEF c
    <3> QED BY <1>3, <2>4, <3>1 DEF ReaderInv, ReaderOK
  <2>6. reader'.read[1] = export BY <2>4
  <2>7. ReadExportIsWhole' BY <1>1, <1>2, <2>2, <2>4, <2>6 DEF ReadExportIsWhole
  <2>8. ListIsAhead' BY <2>4 DEF ListIsAhead
  <2> QED BY <2>5, <2>7, <2>8 DEF ReaderInv
<1> QED BY <1>4, <1>5

----------------------------------------------------------------------------
(* Steps that write to the log. *)

\* What is written later has a number above those that an export answers for.
LEMMA WholeAfterWriting ==
  ASSUME LogOK, NEW x, x.seq = Cardinality(log) + 1, NEW S, S = log \cup {x},
         Cardinality(S) = Cardinality(log) + 1, NEW export, Whole(export, log)
  PROVE  Whole(export, S)
<1>1. Cardinality(log) \in Nat BY LogCardinality
<1>2. export.asOf \in Nat /\ export.asOf <= Cardinality(log) BY DEF Whole, Exports
<1>3. export.asOf <= Cardinality(S) /\ ~(x.seq <= export.asOf) BY <1>1, <1>2
<1> QED BY <1>3 DEF Whole

\* Those of some exports that have n rows, and the entries that tell of them.
Gone(exports, n) == {i \in DOMAIN exports : Cardinality(exports[i].entries) = n}
Told(entries, n) == {x \in entries : x.action = "exported" /\ x.rows = n}

\* Both can be counted:
LEMMA ToldIsFinite ==
  ASSUME NEW S, IsTable(S), NEW n
  PROVE  IsFiniteSet(Told(S, n)) /\ Cardinality(Told(S, n)) \in Nat
<1>1. Told(S, n) \subseteq S BY DEF Told
<1> QED BY <1>1, FS_Subset, FS_CardinalityType DEF IsTable

\* the exports are the elements of a sequence.
LEMMA GoneIsFinite ==
  ASSUME NEW h \in Seq(Exports), NEW n
  PROVE  IsFiniteSet(Gone(h, n)) /\ Cardinality(Gone(h, n)) \in Nat
<1>1. DOMAIN h = 1..Len(h) /\ Len(h) \in Nat
  BY LenProperties
<1>2. IsFiniteSet(DOMAIN h) BY <1>1, FS_Interval
<1>3. Gone(h, n) \subseteq DOMAIN h BY DEF Gone
<1> QED BY <1>2, <1>3, FS_Subset, FS_CardinalityType

\* Only the log grew.
LEMMA WritingKeepsServer ==
  ASSUME ServerInv, NEW action \in {"other", "exported", "refused"}, NEW at \in Int,
         NEW rows \in Nat, write(at, action, rows), handed' = handed, instant' = instant
  PROVE  ServerInv'
<1>1. PICK x : /\ log' = log \cup {x} /\ x.seq = Cardinality(log) + 1
               /\ IsTable(log') /\ Cardinality(log') = Cardinality(log) + 1
               /\ \A y \in log' : y.seq <= Cardinality(log')
  BY WriteAdds DEF ServerInv
<1>2. LogOK' BY <1>1 DEF ServerInv, LogOK
<1>3. HandedAreWhole'
  <2>1. ASSUME NEW i \in DOMAIN handed PROVE Whole(handed[i], log')
    BY <1>1, WholeAfterWriting DEF ServerInv, HandedAreWhole
  <2> QED BY <2>1 DEF ServerInv, HandedAreWhole
<1>4. ASSUME NEW n \in 0..MaxExportRows
      PROVE  Cardinality(Gone(handed', n)) <= Cardinality(Told(log', n))
  <2>1. Gone(handed', n) = Gone(handed, n) OBVIOUS
  <2>2. Told(log, n) \subseteq Told(log', n) BY <1>1 DEF Told
  <2>3. IsFiniteSet(Told(log', n)) /\ Cardinality(Told(log', n)) \in Nat BY <1>1, ToldIsFinite
  <2>4. Cardinality(Told(log, n)) <= Cardinality(Told(log', n)) BY <2>2, <2>3, FS_Subset
  <2>5. Cardinality(Gone(handed, n)) <= Cardinality(Told(log, n))
    BY DEF ServerInv, ExportsAreLogged, Gone, Told
  <2>6. Cardinality(Gone(handed, n)) \in Nat /\ Cardinality(Told(log, n)) \in Nat
    BY ToldIsFinite, GoneIsFinite DEF ServerInv, LogOK, HandedAreWhole
  <2> QED BY <2>1, <2>3, <2>4, <2>5, <2>6
<1>5. ExportsAreLogged' BY <1>4 DEF ExportsAreLogged, Gone, Told
<1> QED BY <1>2, <1>3, <1>5 DEF ServerInv

\* An entry of others moves the list down; in the middle of a page it leaves a mark.
LEMMA WriteEntryKeeps ==
  ASSUME ServerInv, ReaderInv, WriteEntry
  PROVE  ServerInv' /\ ReaderInv'
<1> DEFINE b == reader.disturbed \/ reader.step = "rows"
<1>1. PICK at \in {instant - 1, instant} : write(at, "other", 0)
  BY DEF WriteEntry
<1>2. reader' = [reader EXCEPT !.disturbed = b] /\ handed' = handed /\ instant' = instant
  BY DEF WriteEntry
<1>3. at \in Int BY DEF ServerInv, LogOK
<1>4. ServerInv' BY <1>1, <1>2, <1>3, WritingKeepsServer
<1>5. PICK x : /\ log' = log \cup {x} /\ x.seq = Cardinality(log) + 1
               /\ Cardinality(log) \in Nat /\ Cardinality(log') = Cardinality(log) + 1
  BY <1>1, <1>3, WriteAdds DEF ServerInv
<1>6. ~b => ~reader.disturbed /\ reader.step # "rows" OBVIOUS
<1>7. /\ reader'.job = reader.job /\ reader'.step = reader.step /\ reader'.query = reader.query
      /\ reader'.read = reader.read /\ reader'.page = reader.page
      /\ reader'.total = reader.total /\ reader'.seen = reader.seen
      /\ reader'.asOf = reader.asOf /\ reader'.disturbed = b /\ DOMAIN reader' = DOMAIN reader
  BY <1>2, MarkedReader DEF ReaderInv
<1> HIDE DEF b
<1>8. reader.asOf \in Nat /\ reader.asOf <= Cardinality(log) BY DEF ReaderInv, ReaderOK
<1>9. reader.asOf <= Cardinality(log') /\ ~(x.seq <= reader.asOf) BY <1>5, <1>8
<1>10. ReaderOK' BY <1>7, <1>9 DEF ReaderInv, ReaderOK
<1>11. ReadExportIsWhole'
  <2>1. Whole(reader.read[1], log) => Whole(reader.read[1], log')
    BY <1>5, WholeAfterWriting DEF ServerInv
  <2> QED BY <1>7, <2>1 DEF ReaderInv, ReadExportIsWhole
<1>12. ListIsAhead'
  <2> DEFINE q == reader.query
             rows == InRange(log, q.from, q.to)
             more == InRange(log', q.from, q.to)
  <2>1. SUFFICES ASSUME reader.job = "list", q.to # 0, ~b,
                        NEW y \in more, y.seq <= reader.asOf, y \notin reader.seen
                 PROVE  /\ reader.step \in {"count", "rows"} =>
                              (reader.page - 1) * ListSize <= Rank(more, y)
                        /\ reader.step = "shown" =>
                              /\ reader.page * ListSize <= Rank(more, y)
                              /\ reader.page * ListSize < reader.total
    BY <1>6, <1>7 DEF ReaderInv, ListIsAhead, b
  <2>2. y \in rows BY <1>5, <1>9, <2>1 DEF InRange
  <2>3. /\ reader.step \in {"count", "rows"} => (reader.page - 1) * ListSize <= Rank(rows, y)
        /\ reader.step = "shown" => /\ reader.page * ListSize <= Rank(rows, y)
                                    /\ reader.page * ListSize < reader.total
    BY <1>6, <2>1, <2>2 DEF ReaderInv, ListIsAhead, b
  <2>4. IsTable(more) BY <1>4, RangeIsTable DEF ServerInv, LogOK
  <2>5. rows \subseteq more BY <1>5 DEF InRange
  <2>6. Rank(rows, y) \in Nat /\ Rank(more, y) \in Nat /\ Rank(rows, y) <= Rank(more, y)
    BY <2>2, <2>4, <2>5, MoreRowsHigherRank
  <2> DEFINE first == (reader.page - 1) * ListSize
             last == reader.page * ListSize
  <2>7. first \in Int /\ last \in Int BY ReportsAssumption DEF ReaderInv, ReaderOK
  <2> HIDE DEF rows, more
  <2>8. first <= Rank(rows, y) => first <= Rank(more, y)
    <3> HIDE DEF first
    <3> QED BY <2>6, <2>7
  <2>9. last <= Rank(rows, y) => last <= Rank(more, y)
    <3> HIDE DEF last
    <3> QED BY <2>6, <2>7
  <2> QED BY <2>3, <2>8, <2>9
<1> QED BY <1>4, <1>10, <1>11, <1>12 DEF ReaderInv

\* The entry of a failed export, or none.
LEMMA FailureKeeps ==
  ASSUME ServerInv, writeFailureAudit
  PROVE  ServerInv' /\ ReaderInv'
<1>1. handed' = handed /\ instant' = instant /\ reader' = Resting /\ instant \in Int
  BY DEF writeFailureAudit, ServerInv, LogOK
<1>2. ServerInv'
  <2>1. CASE write(instant, "refused", 0) BY <1>1, <2>1, WritingKeepsServer
  <2>2. CASE log' = log BY <1>1, <2>2, ReadingKeepsServer
  <2> QED BY <2>1, <2>2 DEF writeFailureAudit
<1> QED BY <1>1, <1>2, RestingReader DEF ServerInv

\* An export leaves the server together with the entry that tells of it.
LEMMA ExportWrittenKeeps ==
  ASSUME ServerInv, ReaderInv, ExportWritten
  PROVE  ServerInv' /\ ReaderInv'
<1> DEFINE export == reader.read[1]
           rows == Cardinality(export.entries)
<1>1. /\ write(instant, "exported", rows) /\ handed' = Append(handed, export)
      /\ reader' = Resting /\ instant' = instant
  BY DEF ExportWritten
<1>2. Whole(export, log)
  BY DEF ExportWritten, ReaderInv, ReadExportIsWhole
<1> HIDE DEF export
<1>3. rows \in Nat /\ export \in Exports BY <1>2, FS_CardinalityType DEF Whole
<1>4. PICK x : /\ log' = log \cup {x} /\ x \notin log /\ x.seq = Cardinality(log) + 1
               /\ x.action = "exported" /\ x.rows = rows
               /\ IsTable(log') /\ Cardinality(log') = Cardinality(log) + 1
               /\ \A y \in log' : y.seq <= Cardinality(log')
  BY <1>1, <1>3, WriteAdds DEF ServerInv, LogOK
<1>5. LogOK' BY <1>1, <1>4 DEF ServerInv, LogOK
<1>6. /\ handed \in Seq(Exports) /\ handed' \in Seq(Exports) /\ Len(handed) \in Nat
      /\ DOMAIN handed = 1..Len(handed) /\ DOMAIN handed' = 1..(Len(handed) + 1)
      /\ \A i \in DOMAIN handed : handed'[i] = handed[i]
      /\ handed'[Len(handed) + 1] = export
  BY <1>1, <1>3, AppendProperties, LenProperties DEF ServerInv, HandedAreWhole
<1> DEFINE last == Len(handed) + 1
<1>7. DOMAIN handed' = DOMAIN handed \cup {last} /\ last \notin DOMAIN handed
  BY <1>6
<1>8. HandedAreWhole'
  <2>1. ASSUME NEW i \in DOMAIN handed PROVE Whole(handed'[i], log')
    <3>1. Whole(handed[i], log) BY DEF ServerInv, HandedAreWhole
    <3>2. Whole(handed[i], log') BY <1>4, <3>1, WholeAfterWriting DEF ServerInv
    <3> QED BY <1>6, <3>2
  <2>2. Whole(handed'[last], log') BY <1>2, <1>4, <1>6, WholeAfterWriting DEF ServerInv
  <2> QED BY <1>6, <1>7, <2>1, <2>2 DEF HandedAreWhole
<1>9. ASSUME NEW n \in 0..MaxExportRows
      PROVE  Cardinality(Gone(handed', n)) <= Cardinality(Told(log', n))
  <2>1. Cardinality(Gone(handed, n)) <= Cardinality(Told(log, n))
    BY DEF ServerInv, ExportsAreLogged, Gone, Told
  <2>2. /\ IsFiniteSet(Gone(handed, n)) /\ Cardinality(Gone(handed, n)) \in Nat
        /\ IsFiniteSet(Told(log, n)) /\ Cardinality(Told(log, n)) \in Nat
    BY <1>6, ToldIsFinite, GoneIsFinite DEF ServerInv, LogOK
  <2>3. CASE n = rows
    <3>1. Gone(handed', n) = Gone(handed, n) \cup {last} /\ last \notin Gone(handed, n)
      BY <1>6, <1>7, <2>3 DEF Gone
    <3>2. Told(log', n) = Told(log, n) \cup {x} /\ x \notin Told(log, n)
      BY <1>4, <2>3 DEF Told
    <3>3. /\ Cardinality(Gone(handed', n)) = Cardinality(Gone(handed, n)) + 1
          /\ Cardinality(Told(log', n)) = Cardinality(Told(log, n)) + 1
      BY <2>2, <3>1, <3>2, FS_AddElement
    <3> QED BY <2>1, <2>2, <3>3
  <2>4. CASE n # rows
    <3>1. Gone(handed', n) = Gone(handed, n)
      BY <1>6, <1>7, <2>4 DEF Gone
    <3>2. Told(log', n) = Told(log, n)
      BY <1>4, <2>4 DEF Told
    <3> QED BY <2>1, <3>1, <3>2
  <2> QED BY <2>3, <2>4
<1>10. ExportsAreLogged' BY <1>9 DEF ExportsAreLogged, Gone, Told
<1>11. ReaderInv' BY <1>1, <1>5, RestingReader
<1> QED BY <1>5, <1>8, <1>10, <1>11 DEF ServerInv

\* The first entry of the list is the newest there is.
LEMMA NewestInstant ==
  ASSUME NEW S, IsTable(S), S # {}
  PROVE  Max({x.at : x \in S}) \in Int
<1>1. Cardinality(S) \in Nat /\ Cardinality(S) # 0
  BY FS_CardinalityType, FS_EmptySet DEF IsTable
<1>2. 0 \in 0..(Cardinality(S) - 1) BY <1>1
<1>3. PICK x \in S : Rank(S, x) = 0 BY <1>2, EveryRankIsTaken
<1>4. NewerThan(S, x) = {} BY <1>3, RankType, FS_EmptySet DEF Rank
<1>5. \A y \in S : y.at \in Int BY EntryFields DEF IsTable
<1>6. ASSUME NEW y \in S PROVE x.at >= y.at
  <2>1. ~IsNewer(y, x) BY <1>4 DEF NewerThan
  <2> QED BY <1>5, <2>1 DEF IsNewer
<1> DEFINE T == {y.at : y \in S}
<1>7. x.at \in T /\ \A t \in T : x.at >= t BY <1>6
<1>8. T \subseteq Int BY <1>5
<1> HIDE DEF T
<1>9. Max(T) \in T BY <1>7 DEF Max
<1> QED BY <1>8, <1>9 DEF T

\* Nothing is read and nothing has left at the start.
LEMMA LogInit ==
  ASSUME ReportsInit
  PROVE  ServerInv /\ ReaderInv
<1>1. IsTable(log) /\ log # {} /\ \A x \in log : x.seq <= Cardinality(log)
  BY LogAssumption DEF ReportsInit, IsTable
<1>2. instant \in Int BY <1>1, NewestInstant DEF ReportsInit
<1>3. LogOK BY <1>1, <1>2 DEF LogOK
<1>4. handed = <<>> /\ reader = Resting BY DEF ReportsInit
<1>5. handed \in Seq(Exports) /\ DOMAIN handed = {} BY <1>4, EmptySeq
<1>6. HandedAreWhole BY <1>5 DEF HandedAreWhole
<1>7. ASSUME NEW n \in 0..MaxExportRows
      PROVE  Cardinality(Gone(handed, n)) <= Cardinality(Told(log, n))
  <2>1. Gone(handed, n) = {} BY <1>5 DEF Gone
  <2>2. Cardinality(Gone(handed, n)) = 0 BY <2>1, FS_EmptySet
  <2>3. Cardinality(Told(log, n)) \in Nat BY <1>1, ToldIsFinite
  <2> QED BY <2>2, <2>3
<1>8. ExportsAreLogged BY <1>7 DEF ExportsAreLogged, Gone, Told
<1>9. Cardinality(log) \in Nat BY <1>3, LogCardinality
<1>10. ReaderOK BY <1>4, <1>9 DEF ReaderOK, Resting
<1>11. reader.job = "none" BY <1>4 DEF Resting
<1> QED BY <1>3, <1>6, <1>8, <1>10, <1>11
        DEF ServerInv, ReaderInv, ListIsAhead, ReadExportIsWhole

\* Every step keeps the invariant.
LEMMA LogStep ==
  ASSUME ServerInv, ReaderInv, [ReportsNext]_reportVars
  PROVE  ServerInv' /\ ReaderInv'
<1>1. CASE AskReport
  BY <1>1, AskReportKeeps, ReadingKeepsServer DEF AskReport, ServerInv, LogOK
<1>2. CASE ReadStatement
  BY <1>2, ReadStatementKeeps, ReadingKeepsServer DEF ReadStatement, ServerInv, LogOK
<1>3. CASE CloseReport
  BY <1>3, RestingReader, ReadingKeepsServer DEF CloseReport, ServerInv, LogOK
<1>4. CASE ChangeRows
  BY <1>4, ChangeRowsKeeps, ReadingKeepsServer DEF ChangeRows, ServerInv, LogOK
<1>5. CASE AskList
  BY <1>5, AskListKeeps, ReadingKeepsServer DEF AskList, ServerInv, LogOK
<1>6. CASE CountEntries
  BY <1>6, CountEntriesKeeps, ReadingKeepsServer DEF CountEntries, ServerInv, LogOK
<1>7. CASE ReadPage
  BY <1>7, ReadPageKeeps, ReadingKeepsServer DEF ReadPage, ServerInv, LogOK
<1>8. CASE NextPage
  BY <1>8, NextPageKeeps, ReadingKeepsServer DEF NextPage, ServerInv, LogOK
<1>9. CASE CloseList
  BY <1>9, RestingReader, ReadingKeepsServer DEF CloseList, ServerInv, LogOK
<1>10. CASE AskExport
  BY <1>10, AskExportKeeps, ReadingKeepsServer DEF AskExport, ServerInv, LogOK
<1>11. CASE ReadExport
  BY <1>11, ReadExportKeeps, ReadingKeepsServer DEF ReadExport, ServerInv, LogOK
<1>12. CASE ExportWritten
  BY <1>12, ExportWrittenKeeps
<1>13. CASE ExportNotWritten
  BY <1>13, ExportFailsKeeps, ReadingKeepsServer DEF ExportNotWritten, ServerInv, LogOK
<1>14. CASE writeFailureAudit
  BY <1>14, FailureKeeps
<1>15. CASE WriteEntry
  BY <1>15, WriteEntryKeeps
<1>16. CASE Tick
  <2>1. log' = log /\ handed' = handed /\ reader' = reader /\ instant' \in Int
    BY <1>16 DEF Tick, ServerInv, LogOK
  <2>2. ServerInv' BY <2>1, ReadingKeepsServer
  <2> QED BY <2>1, <2>2 DEF ReaderInv, ReaderOK, ListIsAhead, ReadExportIsWhole
<1>17. CASE UNCHANGED reportVars
  <2>1. log' = log /\ handed' = handed /\ reader' = reader /\ instant' = instant
    BY <1>17 DEF reportVars
  <2>2. ServerInv' BY <2>1, ReadingKeepsServer DEF ServerInv, LogOK
  <2> QED BY <2>1, <2>2 DEF ReaderInv, ReaderOK, ListIsAhead, ReadExportIsWhole
<1> QED BY <1>1, <1>2, <1>3, <1>4, <1>5, <1>6, <1>7, <1>8, <1>9, <1>10, <1>11, <1>12,
           <1>13, <1>14, <1>15, <1>16, <1>17 DEF ReportsNext, MonthReading, LogReading

\* On the last page nothing is left below.
LEMMA LastPageLeavesNothing ==
  ASSUME ServerInv, ReaderInv
  PROVE  PagesSkipNothing
<1> DEFINE q == reader.query
           rows == InRange(log, q.from, q.to)
<1>1. SUFFICES ASSUME reader.job = "list", reader.step = "shown", LastPage, q.to # 0,
                      ~reader.disturbed, NEW x \in parseAuditLogFilters(q),
                      x.seq <= reader.asOf, x \notin reader.seen
               PROVE  FALSE
  BY DEF PagesSkipNothing
<1>2. q \in AuditQueries /\ (q.from = 0) = (q.to = 0)
  BY <1>1 DEF ReaderInv, ListIsAhead
<1>3. x \in rows BY <1>1, <1>2, GivenRange
<1>4. reader.page * ListSize < reader.total
  BY <1>1, <1>3 DEF ReaderInv, ListIsAhead
<1> DEFINE last == reader.page * ListSize
<1>5. last \in Int /\ reader.total \in Int
  BY ReportsAssumption DEF ReaderInv, ReaderOK
<1>6. last >= reader.total BY <1>1 DEF LastPage
<1>7. last < reader.total BY <1>4
<1> HIDE DEF last
<1> QED BY <1>5, <1>6, <1>7

\* What has been handed over stays whole.
LEMMA HandedStayWhole ==
  ASSUME ServerInv
  PROVE  ExportsAreWhole
  BY DEF ServerInv, HandedAreWhole, Whole, ExportsAreWhole

\* Paging through the log to its end shows every entry that was there, an export has
\* every entry of its range, and none leaves the server without an entry of its own:
\* audit.service.ts, for any log, page size, limit of rows and ranges of times.
THEOREM TheLogHidesNothing == ReportsSpec => []AuditInv
<1>1. ServerInv /\ ReaderInv => AuditInv
  BY LastPageLeavesNothing, HandedStayWhole DEF AuditInv, ServerInv
<1> QED BY LogInit, LogStep, <1>1, PTL DEF ReportsSpec
=============================================================================
