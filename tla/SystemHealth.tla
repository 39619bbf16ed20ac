----------------------------- MODULE SystemHealth -----------------------------
(***************************************************************************)
(* The health report of the API, as the sets of findings its sections make *)
(* of the facts they read.  A section whose queries fail is replaced by a  *)
(* finding that says so (one code here, one per section in the code), and  *)
(* what it would have said is not in the report.                           *)
(***************************************************************************)
EXTENDS Naturals

(* What the sections look at.                                              *)
HealthFacts == {"planner_config_invalid", "execution_config_invalid",
          "table_unreadable", "migrations_unreadable", "clock_skewed",
          "planning_failed", "planning_missed",
          "leases_expired", "scheduled_failed",
          "account_without_credential", "credential_disabled", "card_credential_missing",
          "month_open", "tasks_blocked_by_lock",
          "admin_missing", "audit_failures", "e2e_missing"}

Sections == {"ENVIRONMENT", "DATABASE", "SYNCPLANNING", "AUTOEXECUTION", "CREDENTIALS",
             "SETTLEMENTS", "RECENTINCIDENTS", "AUDIT", "E2E"}

(* The findings of a section: the codes whose fact is in the world.        *)
Said(world, said) == {s[2] : s \in {t \in said : t[1] \in world}}

readEnvironment(world) ==
    Said(world, {<<"planner_config_invalid", "SYNC_PLANNER_CONFIG_READABLE">>,
                 <<"execution_config_invalid", "SYNC_AUTO_EXECUTION_CONFIG_READABLE">>})

readDatabase(world) ==
    Said(world, {<<"table_unreadable", "TABLE_ACCESSIBLE">>,
                 <<"migrations_unreadable", "MIGRATION_STATUS_SAFE">>,
                 <<"clock_skewed", "DATABASE_TIME_SKEW">>})

readSyncPlanning(world) ==
    Said(world, {<<"planning_failed", "SYNC_PLANNER_RECENT_RUN">>,
                 <<"planning_missed", "SYNC_PLANNER_DUE_NOT_RUN">>})

readAutoExecution(world) ==
    Said(world, {<<"leases_expired", "SYNC_AUTO_EXECUTION_EXPIRED_LEASES">>,
                 <<"scheduled_failed", "SYNC_AUTO_EXECUTION_FAILED_TASKS">>})

(* An active account counts as missing when its credential is absent or    *)
(* disabled; the candidates of the scan below count the absent ones only.  *)
readCredentials(world) ==
    Said(world, {<<f, "PROVIDER_CREDENTIALS_CONFIGURED">> :
                    f \in {"account_without_credential", "credential_disabled",
                           "card_credential_missing"}})

credentialCandidates(world) ==
    Said(world, {<<"account_without_credential", "credentials:affiliate:missing-active">>,
                 <<"card_credential_missing", "credentials:card-provider:missing-active">>})

readSettlements(world) ==
    Said(world, {<<"month_open", "CURRENT_MONTH_LOCK_STATE">>,
                 <<"tasks_blocked_by_lock", "LOCKED_MONTH_SYNC_BLOCKERS">>})

readRecentIncidents(world) ==
    Said(world, {<<f, "RECENT_INCIDENTS_PRESENT">> :
                    f \in {"leases_expired", "scheduled_failed", "planning_failed",
                           "audit_failures"}})

readAudit(world) ==
    Said(world, {<<"admin_missing", "ENABLED_SUPER_ADMIN_PRESENT">>,
                 <<"audit_failures", "AUDIT_FAILURE_COUNT">>})

readE2e(world) == Said(world, {<<"e2e_missing", "E2E_PERMISSIONS_COMMAND_EXISTS">>})

(* The tasks the scan asks for itself; an invalid configuration of the     *)
(* automatic execution fails the scan before it has asked.                 *)
syncTaskCandidates(world) ==
    Said(world, {<<"leases_expired", "sync-task:running">>,
                 <<"scheduled_failed", "sync-task:failed">>,
                 <<"tasks_blocked_by_lock", "sync-task:MONTH_LOCKED">>})

ScanIsPossible(world) == "execution_config_invalid" \notin world

(* The sections that read the configuration fail with it.                  *)
Broken(world) ==
    {s \in Sections : \/ s = "SYNCPLANNING" /\ "planner_config_invalid" \in world
                      \/ s = "AUTOEXECUTION" /\ "execution_config_invalid" \in world}

Section(s, world) ==
    CASE s = "ENVIRONMENT" -> readEnvironment(world)
      [] s = "DATABASE" -> readDatabase(world)
      [] s = "SYNCPLANNING" -> readSyncPlanning(world)
      [] s = "AUTOEXECUTION" -> readAutoExecution(world)
      [] s = "CREDENTIALS" -> readCredentials(world)
      [] s = "SETTLEMENTS" -> readSettlements(world)
      [] s = "RECENTINCIDENTS" -> readRecentIncidents(world)
      [] s = "AUDIT" -> readAudit(world)
      [] s = "E2E" -> readE2e(world)

CheckFailed == "CHECK_FAILED"

safeSection(s, world, failing) ==
    IF s \in failing \cup Broken(world) THEN {CheckFailed} ELSE Section(s, world)

getSystemHealth(world, failing) ==
    UNION {safeSection(s, world, failing) : s \in Sections}

CriticalCodes ==
    {"SYNC_PLANNER_CONFIG_READABLE", "SYNC_AUTO_EXECUTION_CONFIG_READABLE", "TABLE_ACCESSIBLE",
     "SYNC_AUTO_EXECUTION_EXPIRED_LEASES", "ENABLED_SUPER_ADMIN_PRESENT",
     "sync-task:running", "sync-task:failed"} \cup {CheckFailed}
=============================================================================
