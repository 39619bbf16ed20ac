---------------------------- MODULE AccessControl ----------------------------
(***************************************************************************)
(* Administrators, their roles, passwords and sessions.                    *)
(*                                                                         *)
(* A request is admitted by the guards, which read session, administrator  *)
(* and roles once; the handler then works with what they read.  A login    *)
(* and a change of password read the administrator, spend a long time on   *)
(* the password hash, and only then write.  Each serializable transaction  *)
(* (and each other transaction of one statement) is one action.  The audit *)
(* row is part of the transaction: where it fails, nothing happens.  Names *)
(* and email addresses, lastUsedAt and lastLoginAt are left out, and every *)
(* request comes from one address, the second part of the limiter's key.   *)
(***************************************************************************)
EXTENDS Naturals, FiniteSets

CONSTANTS
    Admins, Founders,   \* administrators; those there at the start
    Roles, SuperAdmin,  \* roles; the protected one
    Permissions, Core,  \* permissions; those super_admin cannot lose
    Sessions, Clients, None,
    MaxFailures,        \* MAX_FAILURES of the password rate limiter
    MaxPassword,        \* bound on the passwords of one administrator
    MaxOperations       \* bound on the administrative operations

ASSUME AccessAssumption ==
    /\ Founders \subseteq Admins /\ SuperAdmin \in Roles /\ Core \subseteq Permissions
    /\ MaxFailures \in Nat \ {0} /\ MaxPassword \in Nat /\ MaxOperations \in Nat
    /\ None \notin Admins \cup Sessions \cup Clients
    /\ IsFiniteSet(Clients)

\* The rows of the tables, none of which is the absent one.
Accounts == [active: BOOLEAN, roles: SUBSET Roles, password: 0..MaxPassword]
RoleRows == [active: BOOLEAN, permissions: SUBSET Permissions]
Snapshots == [password: 0..MaxPassword, roles: SUBSET Roles, granted: SUBSET Permissions]
SessionRows == [admin: Admins, seen: Snapshots, live: BOOLEAN, late: BOOLEAN]

ASSUME NoneIsNoRow == None \notin Accounts /\ None \notin RoleRows /\ None \notin SessionRows

VARIABLES
    admin,      \* administrator: active, roles, password (the number of its changes)
    role,       \* role: active, permissions
    session,    \* session: administrator, what its login saw, still live
    job,        \* per client, the request in flight
    failures,   \* per administrator, wrong passwords in the limiter's window
    operations

vars == <<admin, role, session, job, failures, operations>>

SomeRoles == (SUBSET Roles) \ {{}}
SomePermissions == (SUBSET Permissions) \ {{}}

Init ==
    /\ admin = [a \in Admins |-> IF a \in Founders
          THEN [active |-> TRUE, roles |-> {SuperAdmin}, password |-> 0] ELSE None]
    /\ role = [r \in Roles |-> IF r = SuperAdmin
          THEN [active |-> TRUE, permissions |-> Permissions] ELSE None]
    /\ session = [s \in Sessions |-> None]
    /\ job = [c \in Clients |-> None]
    /\ failures = [a \in Admins |-> 0]
    /\ operations = 0

ActiveRoles(a) == {r \in admin[a].roles : role[r].active}

\* What an administrator can do, and what a login or a guard reads of one.
Granted(a) == UNION {role[r].permissions : r \in ActiveRoles(a)}
Standing(a) == [password |-> admin[a].password, roles |-> admin[a].roles, granted |-> Granted(a)]

MayEnter(a) == admin[a] # None /\ admin[a].active /\ ActiveRoles(a) # {}

Live(s) == session[s] # None /\ session[s].live

\* The sessions of a set of administrators after all of them are revoked.
revokeSessions(as) ==
    [s \in Sessions |-> IF session[s] # None /\ session[s].admin \in as
        THEN [session[s] EXCEPT !.live = FALSE] ELSE session[s]]

----------------------------------------------------------------------------
(* Login and session. *)

Idle(c) == job[c] = None
End(c) == job' = [job EXCEPT ![c] = None]

\* login reads the administrator and its roles, and verifies the password against it.
StartLogin(c, a) ==
    /\ Idle(c)
    /\ MayEnter(a)
    /\ job' = [job EXCEPT ![c] =
          [step |-> "login", admin |-> a, session |-> None, may |-> {}, seen |-> Standing(a)]]
    /\ UNCHANGED <<admin, role, session, failures, operations>>

\* late is not a column: it remembers that the administrator had changed meanwhile.
CompleteLogin(c, s) ==
    /\ job[c] # None /\ job[c].step = "login"
    /\ session[s] = None
    /\ session' = [session EXCEPT ![s] =
          [admin |-> job[c].admin, seen |-> job[c].seen, live |-> TRUE,
           late |-> ~MayEnter(job[c].admin) \/ Standing(job[c].admin) # job[c].seen]]
    /\ End(c)
    /\ UNCHANGED <<admin, role, failures, operations>>

\* AuthGuard: a live session of an active administrator with an active role.
Admit(c, s) ==
    /\ Idle(c)
    /\ Live(s)
    /\ MayEnter(session[s].admin)
    /\ job' = [job EXCEPT ![c] =
          [step |-> "request", admin |-> session[s].admin, session |-> s,
           may |-> Granted(session[s].admin), seen |-> None]]
    /\ UNCHANGED <<admin, role, session, failures, operations>>

\* PermissionsGuard: the handlers of administrators and roles ask for a permission.
Asks(c, permission) == job[c] # None /\ job[c].step = "request" /\ permission \in job[c].may
Admitted(c) == job[c] # None /\ job[c].step = "request"

\* PermissionsGuard refuses, or the handler only reads.
Leave(c) ==
    /\ Admitted(c)
    /\ End(c)
    /\ UNCHANGED <<admin, role, session, failures, operations>>

Expire(s) ==
    /\ Live(s)
    /\ session' = [session EXCEPT ![s].live = FALSE]
    /\ UNCHANGED <<admin, role, job, failures, operations>>

logout(c) ==
    /\ Admitted(c)
    /\ session' = [session EXCEPT ![job[c].session].live = FALSE]
    /\ End(c)
    /\ UNCHANGED <<admin, role, failures, operations>>

\* Another administrator's live session is refused, an unknown or ended one ignored.
revokeSession(c, s) ==
    /\ Admitted(c)
    /\ Live(s)
    /\ session[s].admin = job[c].admin
    /\ session' = [session EXCEPT ![s].live = FALSE]
    /\ End(c)
    /\ UNCHANGED <<admin, role, failures, operations>>

logoutAll(c) ==
    /\ Admitted(c)
    /\ session' = revokeSessions({job[c].admin})
    /\ End(c)
    /\ UNCHANGED <<admin, role, failures, operations>>

----------------------------------------------------------------------------
(* An administrator's own password. *)

\* ChangePasswordRateLimiterService.check
Allowed(a) == failures[a] < MaxFailures

\* changePassword reads the hash that it will verify, and at last compare with the row.
StartChange(c) ==
    /\ Admitted(c)
    /\ Allowed(job[c].admin)
    /\ job' = [job EXCEPT ![c].step = "change", ![c].seen = Standing(job[c].admin)]
    /\ UNCHANGED <<admin, role, session, failures, operations>>

FailChange(c) ==
    /\ job[c] # None /\ job[c].step = "change"
    /\ failures' = [failures EXCEPT ![job[c].admin] = @ + 1]
    /\ End(c)
    /\ UNCHANGED <<admin, role, session, operations>>

Verified(c) == admin[job[c].admin].password = job[c].seen.password

\* Where the password is no longer the verified one, nothing is written.
CommitChange(c) ==
    LET a == job[c].admin
    IN  /\ job[c] # None /\ job[c].step = "change"
        /\ admin[a].password < MaxPassword
        /\ Verified(c)
        /\ admin' = [admin EXCEPT ![a].password = @ + 1]
        /\ session' = revokeSessions({a})
        /\ failures' = [failures EXCEPT ![a] = 0]
        /\ End(c)
        /\ UNCHANGED <<role, operations>>

\* The password has changed, the new one equals the old one, or the process stops.
AbandonChange(c) ==
    /\ job[c] # None /\ job[c].step = "change"
    /\ End(c)
    /\ UNCHANGED <<admin, role, session, failures, operations>>

\* The oldest failure leaves the window of the limiter, whose table is in memory.
Forget(a) ==
    /\ failures[a] > 0
    /\ \/ failures' = [failures EXCEPT ![a] = @ - 1]
       \/ failures' = [b \in Admins |-> 0]
    /\ UNCHANGED <<admin, role, session, job, operations>>

----------------------------------------------------------------------------
(* Administrators. *)

Operate == operations < MaxOperations /\ operations' = operations + 1

requireActiveRoles(rs) == \A r \in rs : role[r] # None /\ role[r].active

IsEnabledSuper(a) ==
    admin[a] # None /\ admin[a].active /\ SuperAdmin \in admin[a].roles /\ role[SuperAdmin].active

\* variant: an administrator who is disabled counts
AnotherSuperAdmin(a) == \E b \in Admins \ {a} : admin[b] # None /\ SuperAdmin \in admin[b].roles

assertAnotherEnabledSuperAdmin(a) == \E b \in Admins \ {a} : IsEnabledSuper(b)

createAdmin(c, a, rs, active) ==
    /\ Asks(c, "admin_users.manage")
    /\ Operate
    /\ requireActiveRoles(rs)
    /\ admin[a] = None
    /\ admin' = [admin EXCEPT ![a] = [active |-> active, roles |-> rs, password |-> 0]]
    /\ End(c)
    /\ UNCHANGED <<role, session, failures>>

\* A super_admin cannot drop the role, nobody can disable the account they work with.
assertSelfProtection(c, a, rs, active) ==
    job[c].admin = a => active /\ (SuperAdmin \in admin[a].roles => SuperAdmin \in rs)

\* given: the roles are part of the request; only then must they be active.
updateAdmin(c, a, given, active) ==
    LET rs == IF given = None THEN admin[a].roles ELSE given
        roleChanged == rs # admin[a].roles
    IN  /\ Asks(c, "admin_users.manage")
        /\ Operate
        /\ admin[a] # None
        /\ given # None => requireActiveRoles(given)
        /\ roleChanged \/ active # admin[a].active
        /\ assertSelfProtection(c, a, rs, active)
        /\ (admin[a].active /\ SuperAdmin \in admin[a].roles /\ ~(active /\ SuperAdmin \in rs))
              => assertAnotherEnabledSuperAdmin(a)
        /\ admin' = [admin EXCEPT ![a].roles = rs, ![a].active = active]
        /\ session' = IF roleChanged \/ (admin[a].active /\ ~active)
                      THEN revokeSessions({a}) ELSE session
        /\ End(c)
        /\ UNCHANGED <<role, failures>>

setAdminEnabled(c, a, enabled) ==
    /\ Asks(c, "admin_users.manage")
    /\ Operate
    /\ admin[a] # None
    /\ admin[a].active # enabled
    /\ ~enabled => /\ job[c].admin # a
                   /\ SuperAdmin \in admin[a].roles => assertAnotherEnabledSuperAdmin(a)
    /\ admin' = [admin EXCEPT ![a].active = enabled]
    /\ session' = IF enabled THEN session ELSE revokeSessions({a})
    /\ End(c)
    /\ UNCHANGED <<role, failures>>

\* variant: the sessions stay
ResetKeepingSessions(c, a) ==
    /\ Asks(c, "admin_users.manage")
    /\ Operate
    /\ admin[a] # None
    /\ admin[a].password < MaxPassword
    /\ admin' = [admin EXCEPT ![a].password = @ + 1]
    /\ End(c)
    /\ UNCHANGED <<role, session, failures>>

resetPassword(c, a) ==
    /\ Asks(c, "admin_users.manage")
    /\ Operate
    /\ admin[a] # None
    /\ admin[a].password < MaxPassword
    /\ admin' = [admin EXCEPT ![a].password = @ + 1]
    /\ session' = revokeSessions({a})
    /\ End(c)
    /\ UNCHANGED <<role, failures>>

\* The command line creates an administrator, or gives one a role and a password and
\* takes every other role away.  It does not look for another super_admin.
provisionAdmin(a, r) ==
    /\ Operate
    /\ role[r] # None /\ role[r].active
    /\ IF admin[a] = None
       THEN /\ admin' = [admin EXCEPT ![a] = [active |-> TRUE, roles |-> {r}, password |-> 0]]
            /\ UNCHANGED session
       ELSE /\ admin[a].password < MaxPassword
            /\ admin' = [admin EXCEPT ![a] =
                  [active |-> TRUE, roles |-> {r}, password |-> admin[a].password + 1]]
            /\ session' = revokeSessions({a})
    /\ UNCHANGED <<role, job, failures>>

----------------------------------------------------------------------------
(* Roles. *)

Holders(r) == {a \in Admins : admin[a] # None /\ r \in admin[a].roles}

createRole(c, r, ps, active) ==
    /\ Asks(c, "role.manage")
    /\ Operate
    /\ role[r] = None
    /\ role' = [role EXCEPT ![r] = [active |-> active, permissions |-> ps]]
    /\ End(c)
    /\ UNCHANGED <<admin, session, failures>>

\* Neither the protected role nor one that somebody holds can be disabled.
MayDisable(r) == r # SuperAdmin /\ Holders(r) = {}

updateRole(c, r, ps, active) ==
    LET permissionChanged == ps # role[r].permissions
    IN  /\ Asks(c, "role.manage")
        /\ Operate
        /\ role[r] # None
        /\ permissionChanged \/ active # role[r].active
        /\ (role[r].active /\ ~active) => MayDisable(r)
        /\ (r = SuperAdmin /\ permissionChanged) => Core \subseteq ps
        /\ role' = [role EXCEPT ![r] = [active |-> active, permissions |-> ps]]
        /\ session' = IF permissionChanged THEN revokeSessions(Holders(r)) ELSE session
        /\ End(c)
        /\ UNCHANGED <<admin, failures>>

setRoleEnabled(c, r, enabled) ==
    /\ Asks(c, "role.manage")
    /\ Operate
    /\ role[r] # None
    /\ role[r].active # enabled
    /\ ~enabled => MayDisable(r)
    /\ role' = [role EXCEPT ![r].active = enabled]
    /\ session' = IF enabled THEN session ELSE revokeSessions(Holders(r))
    /\ End(c)
    /\ UNCHANGED <<admin, failures>>

----------------------------------------------------------------------------
SessionStep ==
    \/ \E c \in Clients : Leave(c) \/ logout(c) \/ logoutAll(c)
    \/ \E c \in Clients : StartChange(c) \/ FailChange(c) \/ CommitChange(c) \/ AbandonChange(c)
    \/ \E c \in Clients, a \in Admins : StartLogin(c, a)
    \/ \E c \in Clients, s \in Sessions : CompleteLogin(c, s) \/ Admit(c, s) \/ revokeSession(c, s)
    \/ \E s \in Sessions : Expire(s)
    \/ \E a \in Admins : Forget(a)

AdminStep ==
    \/ \E c \in Clients, a \in Admins, rs \in SomeRoles, b \in BOOLEAN : createAdmin(c, a, rs, b)
    \/ \E c \in Clients, a \in Admins, rs \in SomeRoles \cup {None}, b \in BOOLEAN :
          updateAdmin(c, a, rs, b)
    \/ \E c \in Clients, a \in Admins, b \in BOOLEAN : setAdminEnabled(c, a, b)
    \/ \E c \in Clients, a \in Admins : resetPassword(c, a)

RoleStep ==
    \/ \E c \in Clients, r \in Roles, ps \in SomePermissions, b \in BOOLEAN :
          createRole(c, r, ps, b) \/ updateRole(c, r, ps, b)
    \/ \E c \in Clients, r \in Roles, b \in BOOLEAN : setRoleEnabled(c, r, b)

Provisioning == \E a \in Admins, r \in Roles : provisionAdmin(a, r)

Next == SessionStep \/ AdminStep \/ RoleStep \/ Provisioning

Spec == Init /\ [][Next]_vars

----------------------------------------------------------------------------
(* Properties. *)

RequestsInFlight ==
    [step: {"login", "request", "change"}, admin: Admins, session: Sessions \cup {None},
     may: SUBSET Permissions, seen: Snapshots \cup {None}]

\* Type invariant of the tables, the requests in flight and the limiter.
TypeOK ==
    /\ admin \in [Admins -> Accounts \cup {None}]
    /\ role \in [Roles -> RoleRows \cup {None}]
    /\ session \in [Sessions -> SessionRows \cup {None}]
    /\ job \in [Clients -> RequestsInFlight \cup {None}]
    /\ failures \in [Admins -> Nat]
    /\ operations \in 0..MaxOperations

\* Every role an administrator holds exists and is active, whoever assigns and disables
\* roles at the same time, through the web or the command line: AdminUsersService refuses
\* a disabled role, RolesService refuses to disable one that is assigned.
AssignedRolesAreActive ==
    \A a \in Admins : admin[a] # None =>
        admin[a].roles # {} /\ \A r \in admin[a].roles : role[r] # None /\ role[r].active

\* An administrator who can manage administrators and roles.
CanAdminister(a) == IsEnabledSuper(a) /\ Core \subseteq Granted(a)

\* Two administrators who disable or demote each other, or edit super_admin, through the
\* API never leave the system without somebody who can administer it.  (The command line
\* asks nobody: it is the way back in.)
SomebodyCanAdminister ==
    [][(\E a \in Admins : CanAdminister(a)) =>
          (\E a \in Admins : CanAdminister(a)') \/ Provisioning]_vars

\* Password, roles and permissions of the owner of a live session are those of its login,
\* unless they had changed before the login ended: each change revokes the sessions it
\* concerns, in its own transaction.
SessionsAreAsAtLogin ==
    \A s \in Sessions : (Live(s) /\ ~session[s].late) =>
        LET a == session[s].admin IN admin[a].active /\ Standing(a) = session[s].seen

\* Wrong passwords are counted after the slow verification, so requests in flight can
\* exceed the limit of the limiter; by no more than their number.
FailuresAreBounded ==
    \A a \in Admins : failures[a] < MaxFailures + Cardinality(Clients)

\* What every request may rely on: assigned roles are in force, live sessions are
\* those of the account as it stands, and guesses are bounded.
AccessInv == TypeOK /\ AssignedRolesAreActive /\ SessionsAreAsAtLogin /\ FailuresAreBounded
=============================================================================
