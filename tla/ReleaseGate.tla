---------------------------- MODULE ReleaseGate ----------------------------
(***************************************************************************)
(* The release gate: the checks of ReleaseGateChecker, section by section, *)
(* over the facts they read, and the verdict of release:check.             *)
(*                                                                         *)
(* A check is required or recommended and passes, warns or fails.  Of the  *)
(* numbers a check compares only the side of its threshold is kept.        *)
(***************************************************************************)
EXTENDS Naturals, FiniteSets

Health == {"ok", "warning", "critical", "unavailable"}
Verdicts == {"none", "pass", "fail"}   \* of an evidence file; none: absent, old or unreadable

Facts == [connected : BOOLEAN, tables : BOOLEAN, rolledBack : BOOLEAN,
          migration : Verdicts, environment : Verdicts, e2e : Verdicts,
          superAdmins : BOOLEAN, permissions : BOOLEAN, auditReadable : BOOLEAN,
          criticalAlerts : BOOLEAN, backup : BOOLEAN, drill : BOOLEAN,
          backupHealth : Health, systemHealth : Health,
          explicitFlags : BOOLEAN, plannerConfig : BOOLEAN, autoConfig : BOOLEAN,
          autoEnabled : BOOLEAN, credentials : BOOLEAN, residue : BOOLEAN,
          quiet : BOOLEAN]

(* Nothing to complain of, and no evidence yet.                            *)
Sound == [connected |-> TRUE, tables |-> TRUE, rolledBack |-> FALSE,
          migration |-> "none", environment |-> "none", e2e |-> "none",
          superAdmins |-> TRUE, permissions |-> TRUE, auditReadable |-> TRUE,
          criticalAlerts |-> FALSE, backup |-> TRUE, drill |-> TRUE,
          backupHealth |-> "ok", systemHealth |-> "ok",
          explicitFlags |-> TRUE, plannerConfig |-> TRUE, autoConfig |-> TRUE,
          autoEnabled |-> FALSE, credentials |-> TRUE, residue |-> FALSE,
          quiet |-> TRUE]

check(code, severity, status) ==
    [code |-> code, severity |-> severity, status |-> status]

Required(code, holds) == check(code, "required", IF holds THEN "pass" ELSE "fail")

Recommended(code, holds) == check(code, "recommended", IF holds THEN "pass" ELSE "warning")

(* Evidence is asked for, but its absence only warns.                      *)
Evidenced(code, verdict) ==
    check(code, "required", IF verdict = "pass" THEN "pass" ELSE "warning")

databaseChecks(f) ==
    {Required("DATABASE_CONNECTED", f.connected)} \cup
    IF ~f.connected THEN {Required("MIGRATIONS_UP_TO_DATE", FALSE)}
    ELSE {Required("CRITICAL_TABLES_ACCESSIBLE", f.tables),
          IF f.rolledBack THEN Required("MIGRATIONS_UP_TO_DATE", FALSE)
          ELSE Evidenced("MIGRATIONS_UP_TO_DATE", f.migration)}

adminAndPermissionChecks(f) ==
    {Required("ENABLED_SUPER_ADMIN_PRESENT", f.superAdmins),
     Required("NO_DISABLED_ONLY_SUPER_ADMIN", f.superAdmins),
     Required("PERMISSIONS_TABLE_COMPLETE", f.permissions),
     Required("SUPER_ADMIN_HAS_RELEASE_GATE_PERMISSIONS", f.permissions)}

auditChecks(f) ==
    {Required("AUDIT_LOG_READABLE", f.auditReadable),
     Recommended("AUDIT_LOG_RECENT_ACTIVITY", f.quiet)}

\* variant: critical alerts only warn
alertChecksThatWarn(f) ==
    {Recommended("ACTIVE_CRITICAL_ALERTS_ZERO", ~f.criticalAlerts),
     Recommended("ACTIVE_WARNING_ALERTS_WITHIN_THRESHOLD", f.quiet)}

alertChecks(f) ==
    {Required("ACTIVE_CRITICAL_ALERTS_ZERO", ~f.criticalAlerts),
     Recommended("ACTIVE_WARNING_ALERTS_WITHIN_THRESHOLD", f.quiet)}

(* A health service that fails is left out: its check passes.              *)
backupChecks(f) ==
    {Required("RECENT_FULL_BACKUP_WITHIN_72H", f.backup),
     Required("RECENT_RESTORE_DRILL_WITHIN_90D", f.drill),
     Required("BACKUP_HEALTH_NOT_CRITICAL", f.backupHealth /= "critical")}

environmentChecks(f) ==
    {Required("SYNC_FLAGS_EXPLICIT", f.explicitFlags),
     Required("SYNC_PLANNER_CONFIG_READABLE", f.plannerConfig),
     Required("SYNC_AUTO_EXECUTION_CONFIG_READABLE", f.autoConfig)}

providerCredentialChecks(f) ==
    {Required("AUTO_EXECUTION_PROVIDER_CREDENTIALS_READY", f.autoEnabled => f.credentials)}

e2eChecks(f) ==
    {Evidenced("E2E_PERMISSIONS_RECENT_RUN", f.e2e),
     Evidenced("ENV_CHECK_AVAILABLE", f.environment)}

testResidueChecks(f) == {Required("TEST_DATA_RESIDUE_ZERO", ~f.residue)}

systemHealthChecks(f) ==
    {Required("SYSTEM_HEALTH_NOT_CRITICAL", f.systemHealth /= "critical")}

recommendedOperationalChecks(f) ==
    {Recommended("SYNC_FAILED_24H_WITHIN_THRESHOLD", f.quiet)}

(* A section that throws is replaced by one required check that fails.     *)
collect(section, fails) ==
    IF fails THEN {Required("RELEASE_GATE_SECTION_FAILED", FALSE)} ELSE section

run(f) ==
    LET down == ~f.connected IN
    UNION {databaseChecks(f),
           collect(adminAndPermissionChecks(f), down),
           auditChecks([f EXCEPT !.auditReadable = @ /\ f.connected]),
           collect(alertChecks(f), down),
           collect(backupChecks(f), down),
           environmentChecks(f),
           collect(providerCredentialChecks(f), ~f.autoConfig \/ (f.autoEnabled /\ down)),
           e2eChecks(f),
           collect(testResidueChecks(f), down),
           systemHealthChecks(f),
           collect(recommendedOperationalChecks(f), down)}

RequiredFailures(checks) == {c \in checks : c.severity = "required" /\ c.status = "fail"}

aggregate(checks) ==
    IF RequiredFailures(checks) /= {} THEN "fail"
    ELSE IF \E c \in checks : c.status /= "pass" THEN "warning" ELSE "pass"

(* release:check exits with 0: nothing required failed.                    *)
ReleaseCheckPasses(f) == aggregate(run(f)) /= "fail"
=============================================================================
