---------------------------- MODULE OperationsProofs ----------------------------
(***************************************************************************)
(* What the operation of the program guarantees: the order of the steps of *)
(* a rollout, for any number of releases and migrations and whatever fails *)
(* or is killed on the way; the files that the tool that seals backups     *)
(* leaves, for any number of runs of it; the evidence of the preflight;    *)
(* and the backups, their watchdog and the alerts, however the scans, the  *)
(* administrators and the crashes of the job fall between their steps.     *)
(***************************************************************************)
EXTENDS Operations, TLAPS, FiniteSetTheorems, WellFoundedInduction

-----------------------------------------------------------------------------
(* The rollout.                                                            *)


\* The steps before the tag is written, and those after; of the first, those before
\* the operational files count as replaced, and those with a copy to fall back to.
AfterTag == {"deploy", "verify", "gate", "observe", "logs"}
BeforeFiles == {"baseline", "build", "backup", "precheck", "migrate", "postcheck",
                "save", "installHelper", "installGate"}
BeforeTag == BeforeFiles \cup {"writeTag"}
Migrated == {"save", "installHelper", "installGate", "writeTag"} \cup AfterTag \cup Undoing
Saved == Migrated \ {"save"}

\* The result file is empty while the script is at work.
ResultAtTheEnd == rollout.step # "idle" => result = "empty"

\* The tag is the old one from when it is read until it is written, and then the new
\* one; the old release is older, and the new one brings one migration at most.
TagInStep ==
    /\ rollout.step = "validate" => rollout.old = None
    /\ rollout.step \in BeforeTag => tag = rollout.old
    /\ rollout.step \in AfterTag => tag = rollout.release
    /\ rollout.step \in BeforeTag \cup AfterTag \cup Undoing =>
          /\ rollout.old < rollout.release
          /\ Migrations(rollout.release) \ Migrations(rollout.old)
                = {rollout.release} \cap Migrating

\* The migrations of the release in production are in the database.
TagHasItsSchema == Migrations(tag) \subseteq database.applied

\* A release that migrates does so behind its backup, and no later step begins before
\* the database is exactly as the new release needs it.
MigrationInStep ==
    /\ rollout.step \in {"backup", "precheck", "migrate"} => rollout.release \in Migrating
    /\ rollout.step \in {"precheck", "migrate"} => database.backup = database.applied
    /\ rollout.step \in Migrated =>
          database.applied = Migrations(rollout.release) /\ database.incomplete = {}

\* The operational files count as replaced once both are, and until both are put back.
FilesInStep ==
    /\ rollout.step \in BeforeFiles \cup {"validate"} => ~rollout.operational
    /\ rollout.step \in {"writeTag"} \cup AfterTag \cup Undoing => rollout.operational
    /\ rollout.step \in {"installGate", "writeTag", "undoTag", "undoHelper"} \cup AfterTag =>
          installed.helper = rollout.release
    /\ rollout.step \in {"writeTag", "undoTag", "undoHelper", "undoGate"} \cup AfterTag =>
          installed.gate = rollout.release

\* Where no command of a rollback fails, it puts back scripts that know the old tag.
RollbackInStep ==
    ~lost =>
        /\ rollout.step \in Undoing \ {"undoTag"} => tag = rollout.old
        /\ rollout.step \in Saved =>
              rollout.old <= rollout.saved.helper /\ rollout.old <= rollout.saved.gate

\* The containers that passed the verification stay until the end.
ServicesInStep ==
    rollout.step \in {"gate", "observe", "logs"} =>
        running = [api |-> rollout.release, web |-> rollout.release]

IInv ==
    /\ RolloutInv
    /\ ResultAtTheEnd
    /\ TagInStep
    /\ TagHasItsSchema
    /\ MigrationInStep
    /\ FilesInStep
    /\ RollbackInStep
    /\ ServicesInStep

----------------------------------------------------------------------------
(* The gate. *)

\* A check that is required and does not hold stops the release.
LEMMA RequiredStops ==
  ASSUME NEW f, NEW code, NEW holds \in BOOLEAN, Required(code, holds) \in run(f),
         ReleaseCheckPasses(f)
  PROVE  holds
<1>1. RequiredFailures(run(f)) = {}
  BY DEF ReleaseCheckPasses, aggregate
<1>2. Required(code, holds).severity = "required"
      /\ Required(code, holds).status = IF holds THEN "pass" ELSE "fail"
  BY DEF Required, check
<1> QED
  BY <1>1, <1>2 DEF RequiredFailures

\* No release passes the gate with anything to be found that blocks one.
LEMMA GateStops ==
  ASSUME NEW f \in Facts, ReleaseCheckPasses(f)
  PROVE  ~Blocking(f)
<1>0. /\ f.connected \in BOOLEAN /\ f.criticalAlerts \in BOOLEAN /\ f.backup \in BOOLEAN
      /\ f.drill \in BOOLEAN /\ f.residue \in BOOLEAN /\ f.superAdmins \in BOOLEAN
      /\ f.autoConfig \in BOOLEAN
  BY DEF Facts
<1>1. f.connected
  <2>1. Required("DATABASE_CONNECTED", f.connected) \in run(f)
    BY DEF run, databaseChecks
  <2> QED
    BY <1>0, <2>1, RequiredStops
<1>2. f.superAdmins
  <2>1. Required("ENABLED_SUPER_ADMIN_PRESENT", f.superAdmins) \in run(f)
    BY <1>1 DEF run, collect, adminAndPermissionChecks
  <2> QED
    BY <1>0, <2>1, RequiredStops
<1>3. ~f.criticalAlerts
  <2>1. Required("ACTIVE_CRITICAL_ALERTS_ZERO", ~f.criticalAlerts) \in run(f)
    BY <1>1 DEF run, collect, alertChecks
  <2> QED
    BY <1>0, <2>1, RequiredStops
<1>4. f.backup /\ f.drill
  <2>1. /\ Required("RECENT_FULL_BACKUP_WITHIN_72H", f.backup) \in run(f)
        /\ Required("RECENT_RESTORE_DRILL_WITHIN_90D", f.drill) \in run(f)
    BY <1>1 DEF run, collect, backupChecks
  <2> QED
    BY <1>0, <2>1, RequiredStops
<1>5. f.autoConfig
  <2>1. Required("SYNC_AUTO_EXECUTION_CONFIG_READABLE", f.autoConfig) \in run(f)
    BY DEF run, environmentChecks
  <2> QED
    BY <1>0, <2>1, RequiredStops
<1>6. ~f.residue
  <2>1. Required("TEST_DATA_RESIDUE_ZERO", ~f.residue) \in run(f)
    BY <1>1 DEF run, collect, testResidueChecks
  <2> QED
    BY <1>0, <2>1, RequiredStops
<1>7. f.systemHealth # "critical"
  <2>1. Required("SYSTEM_HEALTH_NOT_CRITICAL", f.systemHealth # "critical") \in run(f)
    BY DEF run, systemHealthChecks
  <2> QED
    BY <2>1, RequiredStops
<1> QED
  BY <1>1, <1>2, <1>3, <1>4, <1>5, <1>6, <1>7 DEF Blocking

\* A release that passes the gate has nothing that blocks one, and a database that is
\* exactly as the release in production needs it.
LEMMA GatePassed ==
  ASSUME TypeOK, NEW wrote \in SUBSET {"environment", "migration"}, GatePasses(wrote)
  PROVE  /\ ~Blocking(facts)
         /\ database.applied = Migrations(tag) /\ database.incomplete = {}
<1> DEFINE found == Collected(wrote)
           f     == [facts EXCEPT !.environment = found.environment, !.migration = found.migration]
<1>1. facts \in Facts /\ evidence.environment \in Verdicts /\ evidence.migration \in Verdicts
  BY RolloutAssumption DEF TypeOK
<1>2. found.environment \in Verdicts /\ found.migration \in Verdicts
  BY <1>1 DEF Collected, EnvironmentStatus, MigrationStatus, Verdicts
<1>3. f \in Facts
  BY <1>1, <1>2 DEF Facts
<1>4. ReleaseCheckPasses(f)
  BY DEF GatePasses
<1>5. ~Blocking(f)
  BY <1>3, <1>4, GateStops
<1>6. ~Blocking(facts)
  BY <1>1, <1>5 DEF Blocking, Facts
<1>7. MigrationStatus(tag) = "pass"
  BY DEF GatePasses, CollectionPasses
<1>8. Pending(tag) = {} /\ Unexpected(tag) = {} /\ database.incomplete = {}
  BY <1>7 DEF MigrationStatus
<1>9. database.applied = Migrations(tag)
  BY <1>8 DEF Pending, Unexpected
<1> QED
  BY <1>6, <1>8, <1>9

\* Whatever the gate collects are verdicts.
LEMMA GateTypes ==
  ASSUME TypeOK, NEW wrote \in SUBSET {"environment", "migration"}, Gate(wrote)
  PROVE  evidence' \in [environment : Verdicts, migration : Verdicts]
<1>1. evidence \in [environment : Verdicts, migration : Verdicts]
  BY DEF TypeOK
<1>2. Collected(wrote) \in [environment : Verdicts, migration : Verdicts]
  BY <1>1 DEF Collected, EnvironmentStatus, MigrationStatus, Verdicts
<1> QED
  BY <1>1, <1>2 DEF Gate

----------------------------------------------------------------------------
(* Steps. *)

\* The script: its step, variables and copies for rollback.
Scripts == [step : {"idle"} \cup Steps \cup Undoing, release : Releases, old : Releases \cup {None},
            saved : [helper : Releases, gate : Releases], operational : BOOLEAN]

\* What the script remembers of its rollout besides the step.
SameRollout ==
    /\ rollout'.release = rollout.release /\ rollout'.old = rollout.old
    /\ rollout'.saved = rollout.saved /\ rollout'.operational = rollout.operational

\* A step of the script keeps what it remembers.
LEMMA Going ==
  ASSUME TypeOK, NEW next \in {"idle"} \cup Steps \cup Undoing, Goto(next)
  PROVE  rollout' \in Scripts /\ rollout'.step = next /\ SameRollout
<1>1. rollout \in Scripts
  BY DEF TypeOK, Scripts
<1>2. rollout' = [rollout EXCEPT !.step = next]
  BY DEF Goto
<1> QED
  BY <1>1, <1>2 DEF Scripts, SameRollout

\* The parts of the invariant that are about the tag and the files, about the database,
\* and about the result.
TagAndFilesInv == TagInStep /\ GateKnowsTheRelease /\ FilesInStep /\ RollbackInStep
SchemaInv == /\ CodeHasItsSchema /\ FallbackIsRunnable /\ BaselineIsCurrent
             /\ TagHasItsSchema /\ MigrationInStep
ResultInv == /\ SuccessIsComplete /\ FailureLeavesTheOldRelease /\ ResultAtTheEnd
             /\ ServicesInStep

\* The invariant is made of these parts.
LEMMA Parts == IInv <=> TypeOK /\ TagAndFilesInv /\ SchemaInv /\ ResultInv
  BY DEF IInv, RolloutInv, TagAndFilesInv, SchemaInv, ResultInv

\* What the variables are, field by field.
LEMMA Types ==
  ASSUME TypeOK
  PROVE  /\ rollout \in Scripts /\ rollout.step \in {"idle"} \cup Steps \cup Undoing
         /\ rollout.release \in Nat /\ (rollout.old \in Nat \/ rollout.old = None)
         /\ rollout.saved.helper \in Nat /\ rollout.saved.gate \in Nat
         /\ Releases \subseteq Nat /\ built \subseteq Nat
         /\ tag \in Nat /\ installed.helper \in Nat /\ installed.gate \in Nat
         /\ database = [applied |-> database.applied, incomplete |-> database.incomplete,
                        backup |-> database.backup]
         /\ running = [api |-> running.api, web |-> running.web]
<1>1. Releases \subseteq Nat
  BY RolloutAssumption DEF Releases
<1>2. rollout \in Scripts
  BY DEF TypeOK, Scripts
<1> QED
  BY <1>1, <1>2 DEF TypeOK, Scripts

\* The script goes on, and has changed neither what is in production nor the database.
LEMMA GoOn ==
  ASSUME IInv, rollout' \in Scripts, SameRollout,
         UNCHANGED <<tag, installed, running, database, lost, result>>,
         built \subseteq built', built' \subseteq Releases, facts' \in Troubles,
         evidence' \in [environment : Verdicts, migration : Verdicts],
         \/ /\ rollout.step = "baseline" /\ rollout'.step = "build"
            /\ database.applied = Migrations(tag) /\ database.incomplete = {}
         \/ /\ rollout.step = "build"
            /\ rollout'.step = IF rollout.release \in Migrating THEN "backup" ELSE "save"
         \/ /\ rollout.step = "precheck" /\ rollout'.step = "migrate"
         \/ /\ rollout.step = "postcheck" /\ rollout'.step = "save"
            /\ database.applied = Migrations(rollout.release) /\ database.incomplete = {}
         \/ /\ rollout.step = "verify" /\ rollout'.step = "gate"
            /\ running = [api |-> rollout.release, web |-> rollout.release]
         \/ /\ rollout.step = "gate" /\ rollout'.step = "observe"
         \/ /\ rollout.step = "observe" /\ rollout'.step = "logs"
         \/ /\ rollout'.step = rollout.step
  PROVE  IInv'
<1> USE DEF SameRollout, Steps, Undoing, AfterTag, BeforeFiles, BeforeTag, Migrated, Saved
<1>1. TypeOK /\ TagAndFilesInv /\ SchemaInv /\ ResultInv
  BY Parts
<1>2. \A r \in Nat : Migrations(r)' = Migrations(r)
  BY DEF Migrations
<1>3. (rollout.step = "build" /\ rollout.release \notin Migrating)
        => Migrations(rollout.release) = Migrations(rollout.old)
  <2>1. ASSUME rollout.step = "build", rollout.release \notin Migrating, rollout.old \in Nat
        PROVE  Migrations(rollout.release) = Migrations(rollout.old)
    <3>1. Migrations(rollout.release) \ Migrations(rollout.old) = {} /\ rollout.old < rollout.release
      BY <1>1, <2>1 DEF TagAndFilesInv, TagInStep
    <3>2. Migrations(rollout.old) \subseteq Migrations(rollout.release)
      BY <1>1, <2>1, <3>1, Types, RolloutAssumption DEF Migrations
    <3> QED
      BY <3>1, <3>2
  <2>2. rollout.step = "build" => rollout.old \in Nat
    BY <1>1, Types DEF SchemaInv, FallbackIsRunnable
  <2> QED
    BY <2>1, <2>2
<1>4. TypeOK'
  BY <1>1, <1>2 DEF TypeOK, Scripts
<1>5. TagAndFilesInv'
  BY <1>1, <1>2, Types DEF TagAndFilesInv, SchemaInv, TagInStep, GateKnowsTheRelease,
         FilesInStep, RollbackInStep, FallbackIsRunnable
<1>6. SchemaInv'
  BY <1>1, <1>2, <1>3 DEF TagAndFilesInv, TagInStep, SchemaInv, CodeHasItsSchema, FallbackIsRunnable, BaselineIsCurrent,
         TagHasItsSchema, MigrationInStep
<1>7. ResultInv'
  BY <1>1, <1>2, Types DEF TagAndFilesInv, SchemaInv, TagInStep, FilesInStep, RollbackInStep,
         FallbackIsRunnable, MigrationInStep, ResultInv, SuccessIsComplete, FailureLeavesTheOldRelease, ResultAtTheEnd,
         ServicesInStep
<1> QED
  BY <1>4, <1>5, <1>6, <1>7 DEF IInv, RolloutInv, TagAndFilesInv, SchemaInv, ResultInv

\* The script stops before anything was replaced, or is killed.
LEMMA StopStep ==
  ASSUME IInv, rollout.step # "idle", rollout'.step = "idle", rollout' \in Scripts, SameRollout,
         UNCHANGED <<tag, installed, running, built, facts, lost>>,
         database' = [database EXCEPT !.incomplete = database'.incomplete],
         database'.incomplete \in SUBSET Migrating,
         evidence' \in [environment : Verdicts, migration : Verdicts],
         \/ result' = result
         \/ result' = "before_change" /\ rollout.step \in BeforeFiles \cup {"validate"}
  PROVE  IInv'
<1> USE DEF SameRollout, Steps, Undoing, AfterTag, BeforeFiles, BeforeTag, Migrated, Saved
<1>1. TypeOK /\ TagAndFilesInv /\ SchemaInv /\ ResultInv
  BY Parts
<1>2. \A r \in Nat : Migrations(r)' = Migrations(r)
  BY DEF Migrations
<1>3. /\ database'.applied = database.applied /\ result' \in Outcomes
      /\ database' \in [applied : SUBSET Migrating, incomplete : SUBSET Migrating,
                        backup : SUBSET Migrating]
  BY <1>1 DEF TypeOK, Outcomes
<1>4. TypeOK'
  BY <1>1, <1>2, <1>3 DEF TypeOK, Scripts
<1>5. TagAndFilesInv'
  BY <1>1, <1>2, <1>3, Types DEF TagAndFilesInv, SchemaInv, TagInStep, GateKnowsTheRelease,
         FilesInStep, RollbackInStep, FallbackIsRunnable
<1>6. SchemaInv'
  BY <1>1, <1>2, <1>3 DEF TagAndFilesInv, TagInStep, SchemaInv, CodeHasItsSchema, FallbackIsRunnable, BaselineIsCurrent,
         TagHasItsSchema, MigrationInStep
<1>7. ResultInv'
  BY <1>1, <1>2, <1>3, Types DEF TagAndFilesInv, SchemaInv, TagInStep, FilesInStep, RollbackInStep,
         FallbackIsRunnable, MigrationInStep, ResultInv, SuccessIsComplete, FailureLeavesTheOldRelease, ResultAtTheEnd,
         ServicesInStep
<1> QED
  BY <1>4, <1>5, <1>6, <1>7 DEF IInv, RolloutInv, TagAndFilesInv, SchemaInv, ResultInv

\* A script that stops after the files were replaced begins to put them back; the api
\* container, the web container, or neither has been replaced.
LEMMA FallBackStep ==
  ASSUME IInv, rollout.step \in {"writeTag"} \cup AfterTag, rollout'.step = "undoTag",
         rollout' \in Scripts, SameRollout,
         UNCHANGED <<tag, installed, built, database, facts, lost, result>>,
         evidence' \in [environment : Verdicts, migration : Verdicts],
         running' \in [api : {running.api, rollout.release}, web : {running.web, rollout.release}]
  PROVE  IInv'
<1> USE DEF SameRollout, Steps, Undoing, AfterTag, BeforeFiles, BeforeTag, Migrated, Saved
<1>1. TypeOK /\ TagAndFilesInv /\ SchemaInv /\ ResultInv
  BY Parts
<1>2. \A r \in Nat : Migrations(r)' = Migrations(r)
  BY DEF Migrations
<1>3. /\ running'.api \in {running.api, rollout.release}
      /\ running'.web \in {running.web, rollout.release}
      /\ running' \in [api : Releases, web : Releases]
  BY <1>1 DEF TypeOK, Scripts
<1>4. TypeOK'
  BY <1>1, <1>2, <1>3 DEF TypeOK, Scripts
<1>5. TagAndFilesInv'
  BY <1>1, <1>2, <1>3, Types DEF TagAndFilesInv, SchemaInv, TagInStep, GateKnowsTheRelease,
         FilesInStep, RollbackInStep, FallbackIsRunnable
<1>6. SchemaInv'
  BY <1>1, <1>2, <1>3 DEF TagAndFilesInv, TagInStep, SchemaInv, CodeHasItsSchema, FallbackIsRunnable, BaselineIsCurrent,
         TagHasItsSchema, MigrationInStep
<1>7. ResultInv'
  BY <1>1, <1>2, <1>3, Types DEF TagAndFilesInv, SchemaInv, TagInStep, FilesInStep, RollbackInStep,
         FallbackIsRunnable, MigrationInStep, ResultInv, SuccessIsComplete, FailureLeavesTheOldRelease, ResultAtTheEnd,
         ServicesInStep
<1> QED
  BY <1>4, <1>5, <1>6, <1>7 DEF IInv, RolloutInv, TagAndFilesInv, SchemaInv, ResultInv

\* What a rollout remembers when it begins, and after it has looked at the tag.
LEMMA StartStep ==
  ASSUME IInv, NEW r \in 1..Last, Start(r)
  PROVE  IInv'
<1> USE DEF SameRollout, Steps, Undoing, AfterTag, BeforeFiles, BeforeTag, Migrated, Saved
<1>1. TypeOK /\ TagAndFilesInv /\ SchemaInv /\ ResultInv
  BY Parts
<1>2. \A q \in Nat : Migrations(q)' = Migrations(q)
  BY DEF Migrations
<1>3. /\ rollout' = [rollout EXCEPT !.step = "validate", !.release = r, !.old = None,
                                   !.operational = FALSE]
      /\ result' = "empty"
      /\ UNCHANGED <<tag, installed, running, built, database, evidence, facts, lost>>
  BY DEF Start
<1>4. /\ rollout' \in Scripts /\ rollout'.step = "validate" /\ rollout'.old = None
      /\ rollout'.operational = FALSE
  <2>1. r \in Releases
    BY RolloutAssumption DEF Releases
  <2> QED
    BY <1>1, <1>3, <2>1, Types DEF Scripts
<1> HIDE DEF SameRollout
<1>5. TypeOK'
  BY <1>1, <1>3, <1>4 DEF TypeOK, Scripts, Outcomes
<1>6. TagAndFilesInv'
  BY <1>1, <1>2, <1>3, <1>4, Types DEF TagAndFilesInv, SchemaInv, TagInStep, GateKnowsTheRelease,
         FilesInStep, RollbackInStep, FallbackIsRunnable
<1>7. SchemaInv'
  BY <1>1, <1>2, <1>3, <1>4 DEF TagAndFilesInv, TagInStep, SchemaInv, CodeHasItsSchema, FallbackIsRunnable, BaselineIsCurrent,
         TagHasItsSchema, MigrationInStep
<1>8. ResultInv'
  BY <1>1, <1>2, <1>3, <1>4, Types DEF TagAndFilesInv, SchemaInv, TagInStep, FilesInStep, RollbackInStep,
         FallbackIsRunnable, MigrationInStep, ResultInv, SuccessIsComplete, FailureLeavesTheOldRelease, ResultAtTheEnd,
         ServicesInStep
<1> QED
  BY <1>5, <1>6, <1>7, <1>8 DEF IInv, RolloutInv, TagAndFilesInv, SchemaInv, ResultInv

\* A backup is taken of the database as it is.
LEMMA BackupStep ==
  ASSUME IInv, Backup
  PROVE  IInv'
<1> USE DEF SameRollout, Steps, Undoing, AfterTag, BeforeFiles, BeforeTag, Migrated, Saved
<1>1. TypeOK /\ TagAndFilesInv /\ SchemaInv /\ ResultInv
  BY Parts
<1>2. \A r \in Nat : Migrations(r)' = Migrations(r)
  BY DEF Migrations
<1>3. rollout.step = "backup" /\ rollout' \in Scripts /\ rollout'.step = "precheck" /\ SameRollout
  BY <1>1, Going DEF Backup, At
<1>4. /\ database'.applied = database.applied /\ database'.incomplete = database.incomplete
      /\ database'.backup = database.applied
      /\ database' \in [applied : SUBSET Migrating, incomplete : SUBSET Migrating,
                        backup : SUBSET Migrating]
      /\ UNCHANGED <<tag, installed, running, built, evidence, facts, result, lost>>
  BY <1>1 DEF Backup, TypeOK
<1>5. TypeOK'
  BY <1>1, <1>2, <1>3, <1>4 DEF TypeOK, Scripts
<1>6. TagAndFilesInv'
  BY <1>1, <1>2, <1>3, <1>4, Types DEF TagAndFilesInv, SchemaInv, TagInStep, GateKnowsTheRelease,
         FilesInStep, RollbackInStep, FallbackIsRunnable
<1>7. SchemaInv'
  BY <1>1, <1>2, <1>3, <1>4 DEF TagAndFilesInv, TagInStep, SchemaInv, CodeHasItsSchema, FallbackIsRunnable, BaselineIsCurrent,
         TagHasItsSchema, MigrationInStep
<1>8. ResultInv'
  BY <1>1, <1>2, <1>3, <1>4, Types DEF TagAndFilesInv, SchemaInv, TagInStep, FilesInStep, RollbackInStep,
         FallbackIsRunnable, MigrationInStep, ResultInv, SuccessIsComplete, FailureLeavesTheOldRelease, ResultAtTheEnd,
         ServicesInStep
<1> QED
  BY <1>5, <1>6, <1>7, <1>8 DEF IInv, RolloutInv, TagAndFilesInv, SchemaInv, ResultInv

\* The migration of the release is applied.
LEMMA MigrateStep ==
  ASSUME IInv, Migrate
  PROVE  IInv'
<1> USE DEF SameRollout, Steps, Undoing, AfterTag, BeforeFiles, BeforeTag, Migrated, Saved
<1>1. TypeOK /\ TagAndFilesInv /\ SchemaInv /\ ResultInv
  BY Parts
<1>2. \A r \in Nat : Migrations(r)' = Migrations(r)
  BY DEF Migrations
<1>3. rollout.step = "migrate" /\ rollout' \in Scripts /\ rollout'.step = "postcheck" /\ SameRollout
  BY <1>1, Going DEF Migrate, At
<1>4. /\ database'.applied = database.applied \cup {rollout.release}
      /\ UNCHANGED <<tag, installed, running, built, evidence, facts, result, lost>>
  BY <1>1 DEF Migrate, TypeOK
<1>5. database' \in [applied : SUBSET Migrating, incomplete : SUBSET Migrating,
                     backup : SUBSET Migrating]
  <2>1. rollout.release \in Migrating
    BY <1>1, <1>3 DEF SchemaInv, MigrationInStep
  <2> QED
    BY <1>1, <2>1 DEF Migrate, TypeOK
<1>6. TypeOK'
  BY <1>1, <1>2, <1>3, <1>4, <1>5 DEF TypeOK, Scripts
<1>7. TagAndFilesInv'
  BY <1>1, <1>2, <1>3, <1>4, <1>5, Types DEF TagAndFilesInv, SchemaInv, TagInStep, GateKnowsTheRelease,
         FilesInStep, RollbackInStep, FallbackIsRunnable
<1>8. SchemaInv'
  BY <1>1, <1>2, <1>3, <1>4, <1>5 DEF TagAndFilesInv, TagInStep, SchemaInv, CodeHasItsSchema, FallbackIsRunnable, BaselineIsCurrent,
         TagHasItsSchema, MigrationInStep
<1>9. ResultInv'
  BY <1>1, <1>2, <1>3, <1>4, <1>5, Types DEF TagAndFilesInv, SchemaInv, TagInStep, FilesInStep, RollbackInStep,
         FallbackIsRunnable, MigrationInStep, ResultInv, SuccessIsComplete, FailureLeavesTheOldRelease, ResultAtTheEnd,
         ServicesInStep
<1> QED
  BY <1>6, <1>7, <1>8, <1>9 DEF IInv, RolloutInv, TagAndFilesInv, SchemaInv, ResultInv

\* The scripts in use are copied, and know the old tag where nothing was lost.
LEMMA SaveStep ==
  ASSUME IInv, Save
  PROVE  IInv'
<1> USE DEF SameRollout, Steps, Undoing, AfterTag, BeforeFiles, BeforeTag, Migrated, Saved
<1>1. TypeOK /\ TagAndFilesInv /\ SchemaInv /\ ResultInv
  BY Parts
<1>2. \A r \in Nat : Migrations(r)' = Migrations(r)
  BY DEF Migrations
<1>3. /\ rollout.step = "save"
      /\ rollout' = [rollout EXCEPT !.step = "installHelper", !.saved = installed]
      /\ UNCHANGED <<tag, installed, running, built, database, evidence, facts, result, lost>>
  BY DEF Save, At
<1>4. /\ rollout' \in Scripts /\ rollout'.step = "installHelper"
      /\ rollout'.release = rollout.release /\ rollout'.old = rollout.old
      /\ rollout'.saved = installed /\ rollout'.operational = rollout.operational
  BY <1>1, <1>3, Types DEF TypeOK, Scripts
<1> HIDE DEF SameRollout
<1>5. TypeOK'
  BY <1>1, <1>2, <1>3, <1>4 DEF TypeOK, Scripts
<1>6. TagAndFilesInv'
  BY <1>1, <1>2, <1>3, <1>4, Types DEF TagAndFilesInv, SchemaInv, TagInStep, GateKnowsTheRelease,
         FilesInStep, RollbackInStep, FallbackIsRunnable
<1>7. SchemaInv'
  BY <1>1, <1>2, <1>3, <1>4 DEF TagAndFilesInv, TagInStep, SchemaInv, CodeHasItsSchema, FallbackIsRunnable, BaselineIsCurrent,
         TagHasItsSchema, MigrationInStep
<1>8. ResultInv'
  BY <1>1, <1>2, <1>3, <1>4, Types DEF TagAndFilesInv, SchemaInv, TagInStep, FilesInStep, RollbackInStep,
         FallbackIsRunnable, MigrationInStep, ResultInv, SuccessIsComplete, FailureLeavesTheOldRelease, ResultAtTheEnd,
         ServicesInStep
<1> QED
  BY <1>5, <1>6, <1>7, <1>8 DEF IInv, RolloutInv, TagAndFilesInv, SchemaInv, ResultInv

\* The environment helper is replaced.
LEMMA InstallHelperStep ==
  ASSUME IInv, InstallHelper
  PROVE  IInv'
<1> USE DEF SameRollout, Steps, Undoing, AfterTag, BeforeFiles, BeforeTag, Migrated, Saved
<1>1. TypeOK /\ TagAndFilesInv /\ SchemaInv /\ ResultInv
  BY Parts
<1>2. \A r \in Nat : Migrations(r)' = Migrations(r)
  BY DEF Migrations
<1>3. rollout.step = "installHelper" /\ rollout' \in Scripts /\ rollout'.step = "installGate" /\ SameRollout
  BY <1>1, Going DEF InstallHelper, At
<1>4. /\ installed' \in [helper : Releases, gate : Releases]
      /\ installed'.helper = rollout.release /\ installed'.gate = installed.gate
      /\ UNCHANGED <<tag, running, built, database, evidence, facts, result, lost>>
  BY <1>1 DEF InstallHelper, TypeOK, Scripts
<1>5. TypeOK'
  BY <1>1, <1>2, <1>3, <1>4 DEF TypeOK, Scripts
<1>6. TagAndFilesInv'
  BY <1>1, <1>2, <1>3, <1>4, Types DEF TagAndFilesInv, SchemaInv, TagInStep, GateKnowsTheRelease,
         FilesInStep, RollbackInStep, FallbackIsRunnable
<1>7. SchemaInv'
  BY <1>1, <1>2, <1>3, <1>4 DEF TagAndFilesInv, TagInStep, SchemaInv, CodeHasItsSchema, FallbackIsRunnable, BaselineIsCurrent,
         TagHasItsSchema, MigrationInStep
<1>8. ResultInv'
  BY <1>1, <1>2, <1>3, <1>4, Types DEF TagAndFilesInv, SchemaInv, TagInStep, FilesInStep, RollbackInStep,
         FallbackIsRunnable, MigrationInStep, ResultInv, SuccessIsComplete, FailureLeavesTheOldRelease, ResultAtTheEnd,
         ServicesInStep
<1> QED
  BY <1>5, <1>6, <1>7, <1>8 DEF IInv, RolloutInv, TagAndFilesInv, SchemaInv, ResultInv

\* The gate is replaced, and the files count as replaced.
LEMMA InstallGateStep ==
  ASSUME IInv, InstallGate
  PROVE  IInv'
<1> USE DEF SameRollout, Steps, Undoing, AfterTag, BeforeFiles, BeforeTag, Migrated, Saved
<1>1. TypeOK /\ TagAndFilesInv /\ SchemaInv /\ ResultInv
  BY Parts
<1>2. \A r \in Nat : Migrations(r)' = Migrations(r)
  BY DEF Migrations
<1>3. /\ rollout.step = "installGate"
      /\ rollout' = [rollout EXCEPT !.step = "writeTag", !.operational = TRUE]
      /\ UNCHANGED <<tag, running, built, database, evidence, facts, result, lost>>
  BY DEF InstallGate, At
<1>4. /\ rollout' \in Scripts /\ rollout'.step = "writeTag"
      /\ rollout'.release = rollout.release /\ rollout'.old = rollout.old
      /\ rollout'.saved = rollout.saved /\ rollout'.operational
  BY <1>1, <1>3, Types DEF Scripts
<1>5. /\ installed' \in [helper : Releases, gate : Releases]
      /\ installed'.gate = rollout.release /\ installed'.helper = installed.helper
  BY <1>1 DEF InstallGate, TypeOK, Scripts
<1> HIDE DEF SameRollout
<1>6. TypeOK'
  BY <1>1, <1>2, <1>3, <1>4, <1>5 DEF TypeOK, Scripts
<1>7. TagAndFilesInv'
  BY <1>1, <1>2, <1>3, <1>4, <1>5, Types DEF TagAndFilesInv, SchemaInv, TagInStep, GateKnowsTheRelease,
         FilesInStep, RollbackInStep, FallbackIsRunnable
<1>8. SchemaInv'
  BY <1>1, <1>2, <1>3, <1>4, <1>5 DEF TagAndFilesInv, TagInStep, SchemaInv, CodeHasItsSchema, FallbackIsRunnable, BaselineIsCurrent,
         TagHasItsSchema, MigrationInStep
<1>9. ResultInv'
  BY <1>1, <1>2, <1>3, <1>4, <1>5, Types DEF TagAndFilesInv, SchemaInv, TagInStep, FilesInStep, RollbackInStep,
         FallbackIsRunnable, MigrationInStep, ResultInv, SuccessIsComplete, FailureLeavesTheOldRelease, ResultAtTheEnd,
         ServicesInStep
<1> QED
  BY <1>6, <1>7, <1>8, <1>9 DEF IInv, RolloutInv, TagAndFilesInv, SchemaInv, ResultInv

\* The new tag is written.
LEMMA WriteTagStep ==
  ASSUME IInv, WriteTag
  PROVE  IInv'
<1> USE DEF SameRollout, Steps, Undoing, AfterTag, BeforeFiles, BeforeTag, Migrated, Saved
<1>1. TypeOK /\ TagAndFilesInv /\ SchemaInv /\ ResultInv
  BY Parts
<1>2. \A r \in Nat : Migrations(r)' = Migrations(r)
  BY DEF Migrations
<1>3. rollout.step = "writeTag" /\ rollout' \in Scripts /\ rollout'.step = "deploy" /\ SameRollout
  BY <1>1, Going DEF WriteTag, At
<1>4. /\ tag' = rollout.release
      /\ UNCHANGED <<installed, running, built, database, evidence, facts, result, lost>>
  BY <1>1 DEF WriteTag
<1>5. TypeOK'
  BY <1>1, <1>2, <1>3, <1>4 DEF TypeOK, Scripts
<1>6. TagAndFilesInv'
  BY <1>1, <1>2, <1>3, <1>4, Types DEF TagAndFilesInv, SchemaInv, TagInStep, GateKnowsTheRelease,
         FilesInStep, RollbackInStep, FallbackIsRunnable
<1>7. SchemaInv'
  BY <1>1, <1>2, <1>3, <1>4 DEF TagAndFilesInv, TagInStep, SchemaInv, CodeHasItsSchema, FallbackIsRunnable, BaselineIsCurrent,
         TagHasItsSchema, MigrationInStep
<1>8. ResultInv'
  BY <1>1, <1>2, <1>3, <1>4, Types DEF TagAndFilesInv, SchemaInv, TagInStep, FilesInStep, RollbackInStep,
         FallbackIsRunnable, MigrationInStep, ResultInv, SuccessIsComplete, FailureLeavesTheOldRelease, ResultAtTheEnd,
         ServicesInStep
<1> QED
  BY <1>5, <1>6, <1>7, <1>8 DEF IInv, RolloutInv, TagAndFilesInv, SchemaInv, ResultInv

\* The containers are replaced, or stay.
LEMMA DeployStep ==
  ASSUME IInv, Deploy
  PROVE  IInv'
<1> USE DEF SameRollout, Steps, Undoing, AfterTag, BeforeFiles, BeforeTag, Migrated, Saved
<1>1. TypeOK /\ TagAndFilesInv /\ SchemaInv /\ ResultInv
  BY Parts
<1>2. \A r \in Nat : Migrations(r)' = Migrations(r)
  BY DEF Migrations
<1>3. rollout.step = "deploy" /\ rollout' \in Scripts /\ rollout'.step = "verify" /\ SameRollout
  BY <1>1, Going DEF Deploy, At
<1>4. /\ running'.api \in {running.api, rollout.release}
      /\ running'.web \in {running.web, rollout.release}
      /\ running' \in [api : Releases, web : Releases]
      /\ UNCHANGED <<tag, installed, built, database, evidence, facts, result, lost>>
  BY <1>1 DEF Deploy, Replaced, TypeOK, Scripts
<1>5. TypeOK'
  BY <1>1, <1>2, <1>3, <1>4 DEF TypeOK, Scripts
<1>6. TagAndFilesInv'
  BY <1>1, <1>2, <1>3, <1>4, Types DEF TagAndFilesInv, SchemaInv, TagInStep, GateKnowsTheRelease,
         FilesInStep, RollbackInStep, FallbackIsRunnable
<1>7. SchemaInv'
  BY <1>1, <1>2, <1>3, <1>4 DEF TagAndFilesInv, TagInStep, SchemaInv, CodeHasItsSchema, FallbackIsRunnable, BaselineIsCurrent,
         TagHasItsSchema, MigrationInStep
<1>8. ResultInv'
  BY <1>1, <1>2, <1>3, <1>4, Types DEF TagAndFilesInv, SchemaInv, TagInStep, FilesInStep, RollbackInStep,
         FallbackIsRunnable, MigrationInStep, ResultInv, SuccessIsComplete, FailureLeavesTheOldRelease, ResultAtTheEnd,
         ServicesInStep
<1> QED
  BY <1>5, <1>6, <1>7, <1>8 DEF IInv, RolloutInv, TagAndFilesInv, SchemaInv, ResultInv

\* The logs are clean, and the rollout is a success.
LEMMA ScanLogsStep ==
  ASSUME IInv, ScanLogs
  PROVE  IInv'
<1> USE DEF SameRollout, Steps, Undoing, AfterTag, BeforeFiles, BeforeTag, Migrated, Saved
<1>1. TypeOK /\ TagAndFilesInv /\ SchemaInv /\ ResultInv
  BY Parts
<1>2. \A r \in Nat : Migrations(r)' = Migrations(r)
  BY DEF Migrations
<1>3. rollout.step = "logs" /\ rollout' \in Scripts /\ rollout'.step = "idle" /\ SameRollout
  BY <1>1, Going DEF ScanLogs, At
<1>4. /\ result' = "success" /\ result' \in Outcomes
      /\ UNCHANGED <<tag, installed, running, built, database, evidence, facts, lost>>
  BY <1>1 DEF ScanLogs, Outcomes
<1>5. TypeOK'
  BY <1>1, <1>2, <1>3, <1>4 DEF TypeOK, Scripts
<1>6. TagAndFilesInv'
  BY <1>1, <1>2, <1>3, <1>4, Types DEF TagAndFilesInv, SchemaInv, TagInStep, GateKnowsTheRelease,
         FilesInStep, RollbackInStep, FallbackIsRunnable
<1>7. SchemaInv'
  BY <1>1, <1>2, <1>3, <1>4 DEF TagAndFilesInv, TagInStep, SchemaInv, CodeHasItsSchema, FallbackIsRunnable, BaselineIsCurrent,
         TagHasItsSchema, MigrationInStep
<1>8. ResultInv'
  BY <1>1, <1>2, <1>3, <1>4, Types DEF TagAndFilesInv, SchemaInv, TagInStep, FilesInStep, RollbackInStep,
         FallbackIsRunnable, MigrationInStep, ResultInv, SuccessIsComplete, FailureLeavesTheOldRelease, ResultAtTheEnd,
         ServicesInStep
<1> QED
  BY <1>5, <1>6, <1>7, <1>8 DEF IInv, RolloutInv, TagAndFilesInv, SchemaInv, ResultInv

\* The old tag is written, unless that fails.
LEMMA UndoTagStep ==
  ASSUME IInv, UndoTag
  PROVE  IInv'
<1> USE DEF SameRollout, Steps, Undoing, AfterTag, BeforeFiles, BeforeTag, Migrated, Saved
<1>1. TypeOK /\ TagAndFilesInv /\ SchemaInv /\ ResultInv
  BY Parts
<1>2. \A r \in Nat : Migrations(r)' = Migrations(r)
  BY DEF Migrations
<1>3. rollout.step = "undoTag" /\ rollout' \in Scripts /\ rollout'.step = "undoHelper" /\ SameRollout
  BY <1>1, Going DEF UndoTag, At
<1>4. /\ tag' = tag \/ tag' = rollout.old
      /\ ~lost' => ~lost /\ tag' = rollout.old
      /\ lost' \in BOOLEAN
      /\ UNCHANGED <<installed, running, built, database, evidence, facts, result>>
  BY <1>1 DEF UndoTag, TypeOK
<1>5. rollout.old \in Releases
  BY <1>1, <1>3 DEF SchemaInv, FallbackIsRunnable, TypeOK
<1>6. TypeOK'
  BY <1>1, <1>2, <1>3, <1>4, <1>5 DEF TypeOK, Scripts
<1>7. TagAndFilesInv'
  BY <1>1, <1>2, <1>3, <1>4, <1>5, Types DEF TagAndFilesInv, SchemaInv, TagInStep, GateKnowsTheRelease,
         FilesInStep, RollbackInStep, FallbackIsRunnable
<1>8. SchemaInv'
  BY <1>1, <1>2, <1>3, <1>4, <1>5 DEF TagAndFilesInv, TagInStep, SchemaInv, CodeHasItsSchema, FallbackIsRunnable, BaselineIsCurrent,
         TagHasItsSchema, MigrationInStep
<1>9. ResultInv'
  BY <1>1, <1>2, <1>3, <1>4, <1>5, Types DEF TagAndFilesInv, SchemaInv, TagInStep, FilesInStep, RollbackInStep,
         FallbackIsRunnable, MigrationInStep, ResultInv, SuccessIsComplete, FailureLeavesTheOldRelease, ResultAtTheEnd,
         ServicesInStep
<1> QED
  BY <1>6, <1>7, <1>8, <1>9 DEF IInv, RolloutInv, TagAndFilesInv, SchemaInv, ResultInv

\* The old environment helper is put back, unless that fails.
LEMMA UndoHelperStep ==
  ASSUME IInv, UndoHelper
  PROVE  IInv'
<1> USE DEF SameRollout, Steps, Undoing, AfterTag, BeforeFiles, BeforeTag, Migrated, Saved
<1>1. TypeOK /\ TagAndFilesInv /\ SchemaInv /\ ResultInv
  BY Parts
<1>2. \A r \in Nat : Migrations(r)' = Migrations(r)
  BY DEF Migrations
<1>3. rollout.step = "undoHelper" /\ rollout' \in Scripts /\ rollout'.step = "undoGate" /\ SameRollout
  BY <1>1, Going DEF UndoHelper, At
<1>4. /\ installed' \in [helper : Releases, gate : Releases]
      /\ installed'.gate = installed.gate
      /\ ~lost' => ~lost /\ installed'.helper = rollout.saved.helper
      /\ lost' \in BOOLEAN
      /\ UNCHANGED <<tag, running, built, database, evidence, facts, result>>
  BY <1>1 DEF UndoHelper, TypeOK
<1>5. TypeOK'
  BY <1>1, <1>2, <1>3, <1>4 DEF TypeOK, Scripts
<1>6. TagAndFilesInv'
  BY <1>1, <1>2, <1>3, <1>4, Types DEF TagAndFilesInv, SchemaInv, TagInStep, GateKnowsTheRelease,
         FilesInStep, RollbackInStep, FallbackIsRunnable
<1>7. SchemaInv'
  BY <1>1, <1>2, <1>3, <1>4 DEF TagAndFilesInv, TagInStep, SchemaInv, CodeHasItsSchema, FallbackIsRunnable, BaselineIsCurrent,
         TagHasItsSchema, MigrationInStep
<1>8. ResultInv'
  BY <1>1, <1>2, <1>3, <1>4, Types DEF TagAndFilesInv, SchemaInv, TagInStep, FilesInStep, RollbackInStep,
         FallbackIsRunnable, MigrationInStep, ResultInv, SuccessIsComplete, FailureLeavesTheOldRelease, ResultAtTheEnd,
         ServicesInStep
<1> QED
  BY <1>5, <1>6, <1>7, <1>8 DEF IInv, RolloutInv, TagAndFilesInv, SchemaInv, ResultInv

\* The old gate is put back, unless that fails.
LEMMA UndoGateStep ==
  ASSUME IInv, UndoGate
  PROVE  IInv'
<1> USE DEF SameRollout, Steps, Undoing, AfterTag, BeforeFiles, BeforeTag, Migrated, Saved
<1>1. TypeOK /\ TagAndFilesInv /\ SchemaInv /\ ResultInv
  BY Parts
<1>2. \A r \in Nat : Migrations(r)' = Migrations(r)
  BY DEF Migrations
<1>3. rollout.step = "undoGate" /\ rollout' \in Scripts /\ rollout'.step = "undoServices" /\ SameRollout
  BY <1>1, Going DEF UndoGate, At
<1>4. /\ installed' \in [helper : Releases, gate : Releases]
      /\ installed'.helper = installed.helper
      /\ ~lost' => ~lost /\ installed'.gate = rollout.saved.gate
      /\ lost' \in BOOLEAN
      /\ UNCHANGED <<tag, running, built, database, evidence, facts, result>>
  BY <1>1 DEF UndoGate, TypeOK
<1>5. TypeOK'
  BY <1>1, <1>2, <1>3, <1>4 DEF TypeOK, Scripts
<1>6. TagAndFilesInv'
  BY <1>1, <1>2, <1>3, <1>4, Types DEF TagAndFilesInv, SchemaInv, TagInStep, GateKnowsTheRelease,
         FilesInStep, RollbackInStep, FallbackIsRunnable
<1>7. SchemaInv'
  BY <1>1, <1>2, <1>3, <1>4 DEF TagAndFilesInv, TagInStep, SchemaInv, CodeHasItsSchema, FallbackIsRunnable, BaselineIsCurrent,
         TagHasItsSchema, MigrationInStep
<1>8. ResultInv'
  BY <1>1, <1>2, <1>3, <1>4, Types DEF TagAndFilesInv, SchemaInv, TagInStep, FilesInStep, RollbackInStep,
         FallbackIsRunnable, MigrationInStep, ResultInv, SuccessIsComplete, FailureLeavesTheOldRelease, ResultAtTheEnd,
         ServicesInStep
<1> QED
  BY <1>5, <1>6, <1>7, <1>8 DEF IInv, RolloutInv, TagAndFilesInv, SchemaInv, ResultInv

\* The old containers come back, unless that fails.
LEMMA UndoServicesStep ==
  ASSUME IInv, UndoServices
  PROVE  IInv'
<1> USE DEF SameRollout, Steps, Undoing, AfterTag, BeforeFiles, BeforeTag, Migrated, Saved
<1>1. TypeOK /\ TagAndFilesInv /\ SchemaInv /\ ResultInv
  BY Parts
<1>2. \A r \in Nat : Migrations(r)' = Migrations(r)
  BY DEF Migrations
<1>3. rollout.step = "undoServices" /\ rollout' \in Scripts /\ rollout'.step = "idle" /\ SameRollout
  BY <1>1, Going DEF UndoServices, At
<1>4. /\ running'.api \in {running.api, rollout.old} /\ running'.web \in {running.web, rollout.old}
      /\ result' = "rolled_back" /\ result' \in Outcomes
      /\ UNCHANGED <<tag, installed, built, database, evidence, facts>>
  BY <1>1 DEF UndoServices, TypeOK, Outcomes
<1>5. rollout.old \in Releases /\ rollout.old < rollout.release
  BY <1>1, <1>3 DEF TagAndFilesInv, TagInStep, SchemaInv, FallbackIsRunnable, TypeOK
<1>6. running' \in [api : Releases, web : Releases]
  BY <1>1, <1>5 DEF UndoServices, TypeOK
<1>7. lost' \in BOOLEAN /\ (~lost' => ~lost /\ running'.api = rollout.old /\ running'.web = rollout.old)
  <2>1. CASE UNCHANGED lost /\ running' = [api |-> rollout.old, web |-> rollout.old]
    BY <1>1, <2>1 DEF TypeOK
  <2>2. CASE lost' = TRUE
    BY <2>2
  <2> QED
    BY <2>1, <2>2 DEF UndoServices
<1>8. Migrations(rollout.old) \subseteq database.applied
  BY <1>1, <1>3 DEF SchemaInv, FallbackIsRunnable
<1>9. TypeOK'
  BY <1>1, <1>2, <1>3, <1>4, <1>5, <1>6, <1>7, <1>8 DEF TypeOK, Scripts
<1>10. TagAndFilesInv'
  BY <1>1, <1>2, <1>3, <1>4, <1>5, <1>6, <1>7, <1>8, Types DEF TagAndFilesInv, SchemaInv, TagInStep, GateKnowsTheRelease,
         FilesInStep, RollbackInStep, FallbackIsRunnable
<1>11. SchemaInv'
  BY <1>1, <1>2, <1>3, <1>4, <1>5, <1>6, <1>7, <1>8 DEF TagAndFilesInv, TagInStep, SchemaInv, CodeHasItsSchema, FallbackIsRunnable, BaselineIsCurrent,
         TagHasItsSchema, MigrationInStep
<1>12. ResultInv'
  BY <1>1, <1>2, <1>3, <1>4, <1>5, <1>6, <1>7, <1>8, Types DEF TagAndFilesInv, SchemaInv, TagInStep, FilesInStep, RollbackInStep,
         FallbackIsRunnable, MigrationInStep, ResultInv, SuccessIsComplete, FailureLeavesTheOldRelease, ResultAtTheEnd,
         ServicesInStep
<1> QED
  BY <1>9, <1>10, <1>11, <1>12 DEF IInv, RolloutInv, TagAndFilesInv, SchemaInv, ResultInv

\* The tag of a release that the script knows is the one to fall back to.
LEMMA ValidateStep ==
  ASSUME IInv, Validate
  PROVE  IInv'
<1> USE DEF SameRollout, Steps, Undoing, AfterTag, BeforeFiles, BeforeTag, Migrated, Saved
<1>1. TypeOK /\ TagAndFilesInv /\ SchemaInv /\ ResultInv
  BY Parts
<1>2. \A r \in Nat : Migrations(r)' = Migrations(r)
  BY DEF Migrations
<1>3. /\ rollout.step = "validate"
      /\ rollout' = [rollout EXCEPT !.step = "baseline", !.old = tag]
      /\ tag <= rollout.release /\ tag \in built /\ tag # rollout.release
      /\ Migrations(rollout.release) \ Migrations(tag) = {rollout.release} \cap Migrating
      /\ built' = built \ {rollout.release}
      /\ UNCHANGED <<tag, installed, running, database, evidence, facts, result, lost>>
  BY DEF Validate, At
<1>4. /\ rollout' \in Scripts /\ rollout'.step = "baseline"
      /\ rollout'.release = rollout.release /\ rollout'.old = tag
      /\ rollout'.saved = rollout.saved /\ rollout'.operational = rollout.operational
  BY <1>1, <1>3, Types DEF TypeOK, Scripts
<1>5. Migrations(tag) \subseteq database.applied
  BY <1>1 DEF SchemaInv, TagHasItsSchema
<1> HIDE DEF SameRollout
<1>6. TypeOK'
  BY <1>1, <1>2, <1>3, <1>4, <1>5 DEF TypeOK, Scripts
<1>7. TagAndFilesInv'
  BY <1>1, <1>2, <1>3, <1>4, <1>5, Types DEF TagAndFilesInv, SchemaInv, TagInStep, GateKnowsTheRelease,
         FilesInStep, RollbackInStep, FallbackIsRunnable
<1>8. SchemaInv'
  BY <1>1, <1>2, <1>3, <1>4, <1>5 DEF TagAndFilesInv, TagInStep, SchemaInv, CodeHasItsSchema, FallbackIsRunnable, BaselineIsCurrent,
         TagHasItsSchema, MigrationInStep
<1>9. ResultInv'
  BY <1>1, <1>2, <1>3, <1>4, <1>5, Types DEF TagAndFilesInv, SchemaInv, TagInStep, FilesInStep, RollbackInStep,
         FallbackIsRunnable, MigrationInStep, ResultInv, SuccessIsComplete, FailureLeavesTheOldRelease, ResultAtTheEnd,
         ServicesInStep
<1> QED
  BY <1>6, <1>7, <1>8, <1>9 DEF IInv, RolloutInv, TagAndFilesInv, SchemaInv, ResultInv

\* A command fails, and the trap stops the script or begins to put the files back.
LEMMA TrapStep ==
  ASSUME IInv, NEW services \in BOOLEAN, Trap(services), rollout.step \in Steps,
         services => rollout.step \in AfterTag,
         UNCHANGED <<tag, installed, built, facts, lost>>,
         evidence' \in [environment : Verdicts, migration : Verdicts],
         \/ UNCHANGED running
         \/ rollout.step = "deploy" /\ running' = Replaced({"api"}),
         \/ UNCHANGED database
         \/ /\ rollout.step = "migrate"
            /\ database' = [database EXCEPT !.incomplete = @ \cup {rollout.release}]
  PROVE  IInv'
<1> USE DEF Steps, Undoing, AfterTag, BeforeFiles
<1>1. TypeOK /\ TagAndFilesInv /\ SchemaInv
  BY Parts
<1>2. CASE rollout.step \in BeforeFiles \cup {"validate"}
  <2>1. ~services /\ ~rollout.operational
    BY <1>1, <1>2 DEF TagAndFilesInv, FilesInStep
  <2>2. rollout' = [rollout EXCEPT !.step = "idle"] /\ result' = "before_change"
    BY <2>1 DEF Trap
  <2>3. rollout' \in Scripts /\ rollout'.step = "idle" /\ SameRollout
    BY <1>1, <2>2, Going DEF Goto
  <2>4. UNCHANGED running
    BY <1>2
  <2>5. /\ database' = [database EXCEPT !.incomplete = database'.incomplete]
        /\ database'.incomplete \in SUBSET Migrating
    <3>1. CASE UNCHANGED database
      BY <1>1, <3>1 DEF TypeOK
    <3>2. CASE /\ rollout.step = "migrate"
               /\ database' = [database EXCEPT !.incomplete = @ \cup {rollout.release}]
      <4>1. rollout.release \in Migrating
        BY <1>1, <3>2 DEF SchemaInv, MigrationInStep
      <4> QED
        BY <1>1, <3>2, <4>1 DEF TypeOK
    <3> QED
      BY <3>1, <3>2
  <2> QED
    BY <1>2, <2>2, <2>3, <2>4, <2>5, StopStep
<1>3. CASE rollout.step \in {"writeTag"} \cup AfterTag
  <2>1. rollout.operational /\ rollout.step # "migrate"
    BY <1>1, <1>3 DEF TagAndFilesInv, FilesInStep
  <2>2. rollout' = [rollout EXCEPT !.step = "undoTag"] /\ result' = result /\ UNCHANGED database
    BY <2>1 DEF Trap
  <2>3. rollout' \in Scripts /\ rollout'.step = "undoTag" /\ SameRollout
    BY <1>1, <2>2, Going DEF Goto
  <2>4. running' \in [api : {running.api, rollout.release}, web : {running.web, rollout.release}]
    BY <1>1 DEF Replaced, TypeOK
  <2> QED
    BY <1>3, <2>2, <2>3, <2>4, FallBackStep
<1> QED
  BY <1>2, <1>3

\* A step that leaves the script where it is, or takes it on, and touches nothing that
\* is in production.
LEMMA CheckingStep ==
  ASSUME IInv, Build \/ Precheck \/ Postcheck \/ Verify \/ Observe
  PROVE  IInv'
<1>1. TypeOK /\ SchemaInv
  BY Parts
<1>2. /\ UNCHANGED <<tag, installed, running, database, evidence, facts, result, lost>>
      /\ built \subseteq built' /\ built' \subseteq Releases
      /\ facts' \in Troubles /\ evidence' \in [environment : Verdicts, migration : Verdicts]
  BY <1>1 DEF Build, Precheck, Postcheck, Verify, Observe, TypeOK, Scripts
<1> USE DEF At, Steps
<1>3. CASE Build
  <2> DEFINE next == IF rollout.release \in Migrating THEN "backup" ELSE "save"
  <2>1. next \in Steps /\ Goto(next) /\ rollout.step = "build"
    BY <1>3 DEF Build
  <2>2. rollout' \in Scripts /\ rollout'.step = next /\ SameRollout
    BY <1>1, <2>1, Going
  <2> QED
    BY <1>2, <2>1, <2>2, GoOn
<1>4. CASE Precheck
  <2>1. rollout' \in Scripts /\ rollout'.step = "migrate" /\ SameRollout
    BY <1>1, <1>4, Going DEF Precheck
  <2> QED
    BY <1>2, <1>4, <2>1, GoOn DEF Precheck
<1>5. CASE Postcheck
  <2>1. rollout' \in Scripts /\ rollout'.step = "save" /\ SameRollout
    BY <1>1, <1>5, Going DEF Postcheck
  <2>2. database.applied = Migrations(rollout.release) /\ database.incomplete = {}
    <3>1. /\ Pending(rollout.release) = {} /\ Unexpected(rollout.release) = {}
          /\ database.incomplete = {}
      BY <1>5 DEF Postcheck, MigrationStatus
    <3> QED
      BY <3>1 DEF Pending, Unexpected
  <2> QED
    BY <1>2, <1>5, <2>1, <2>2, GoOn DEF Postcheck
<1>6. CASE Verify
  <2>1. rollout' \in Scripts /\ rollout'.step = "gate" /\ SameRollout
    BY <1>1, <1>6, Going DEF Verify
  <2> QED
    BY <1>2, <1>6, <2>1, GoOn DEF Verify
<1>7. CASE Observe
  <2>1. rollout' \in Scripts /\ rollout'.step = "logs" /\ SameRollout
    BY <1>1, <1>7, Going DEF Observe
  <2> QED
    BY <1>2, <1>7, <2>1, GoOn DEF Observe
<1> QED
  BY <1>3, <1>4, <1>5, <1>6, <1>7

\* The gates of a rollout let it go on or stop it.
LEMMA GateStep ==
  ASSUME IInv, Baseline \/ GateAfter
  PROVE  IInv'
<1>1. TypeOK
  BY Parts
<1>2. PICK wrote \in SUBSET {"environment", "migration"} :
        /\ Gate(wrote)
        /\ \/ /\ rollout.step = "baseline"
              /\ IF GatePasses(wrote) THEN Goto("build") /\ UNCHANGED result ELSE Trap(FALSE)
           \/ /\ rollout.step = "gate"
              /\ IF GatePasses(wrote) THEN Goto("observe") /\ UNCHANGED result ELSE Trap(TRUE)
  BY DEF Baseline, GateAfter, At
<1>3. /\ UNCHANGED <<tag, installed, running, built, database, facts, lost>>
      /\ built \subseteq built' /\ built' \subseteq Releases /\ facts' \in Troubles
      /\ evidence' \in [environment : Verdicts, migration : Verdicts]
  BY <1>1, <1>2, GateTypes DEF Baseline, GateAfter, TypeOK
<1>4. CASE GatePasses(wrote)
  <2>1. database.applied = Migrations(tag) /\ database.incomplete = {}
    BY <1>1, <1>4, GatePassed
  <2>2. CASE rollout.step = "baseline" /\ Goto("build")
    <3>1. rollout' \in Scripts /\ rollout'.step = "build" /\ SameRollout
      BY <1>1, <2>2, Going DEF Steps
    <3> QED
      BY <1>2, <1>3, <1>4, <2>1, <2>2, <3>1, GoOn
  <2>3. CASE rollout.step = "gate" /\ Goto("observe")
    <3>1. rollout' \in Scripts /\ rollout'.step = "observe" /\ SameRollout
      BY <1>1, <2>3, Going DEF Steps
    <3> QED
      BY <1>2, <1>3, <1>4, <2>3, <3>1, GoOn
  <2> QED
    BY <1>2, <1>4, <2>2, <2>3
<1>5. CASE ~GatePasses(wrote)
  <2>1. CASE rollout.step = "baseline" /\ Trap(FALSE)
    BY <1>3, <2>1, TrapStep DEF Steps, AfterTag
  <2>2. CASE rollout.step = "gate" /\ Trap(TRUE)
    BY <1>3, <2>2, TrapStep DEF Steps, AfterTag
  <2> QED
    BY <1>2, <1>5, <2>1, <2>2
<1> QED
  BY <1>4, <1>5

\* A command fails, the scan of the logs finds an error, or the script is killed.
LEMMA BreakingStep ==
  ASSUME IInv, MigrationBreaks \/ DeployPartly \/ CommandFails \/ ScanFails \/ Kill
  PROVE  IInv'
<1>1. TypeOK
  BY Parts
<1>2. /\ UNCHANGED <<tag, installed, built, evidence, facts, lost>>
      /\ evidence' \in [environment : Verdicts, migration : Verdicts]
  BY <1>1 DEF MigrationBreaks, DeployPartly, CommandFails, ScanFails, Kill, TypeOK
<1>3. CASE MigrationBreaks
  BY <1>2, <1>3, TrapStep DEF MigrationBreaks, At, Steps
<1>4. CASE DeployPartly
  BY <1>2, <1>4, TrapStep DEF DeployPartly, At, Steps
<1>5. CASE CommandFails
  <2> DEFINE services == rollout.step \in {"verify", "observe"}
  <2>1. services \in BOOLEAN /\ Trap(services) /\ rollout.step \in Steps
    BY <1>5 DEF CommandFails
  <2>2. services => rollout.step \in AfterTag
    BY DEF AfterTag
  <2>3. UNCHANGED <<running, database>>
    BY <1>5 DEF CommandFails
  <2> HIDE DEF services
  <2> QED
    BY <1>2, <2>1, <2>2, <2>3, TrapStep
<1>6. CASE ScanFails \/ Kill
  <2>1. rollout.step # "idle" /\ Goto("idle") /\ UNCHANGED <<running, database, result>>
    BY <1>6 DEF ScanFails, Kill, At
  <2>2. rollout' \in Scripts /\ rollout'.step = "idle" /\ SameRollout
    BY <1>1, <2>1, Going
  <2>3. /\ database' = [database EXCEPT !.incomplete = database'.incomplete]
        /\ database'.incomplete \in SUBSET Migrating
    BY <1>1, <2>1 DEF TypeOK
  <2> QED
    BY <1>2, <2>1, <2>2, <2>3, StopStep
<1> QED
  BY <1>3, <1>4, <1>5, <1>6

\* The gate run by hand, evidence that ages, and facts that change.
LEMMA OutsideStep ==
  ASSUME IInv, RunGate \/ Age \/ Change \/ UNCHANGED vars
  PROVE  IInv'
<1>1. TypeOK
  BY Parts
<1>2. UNCHANGED <<tag, installed, running, built, database, rollout, result, lost>>
  BY DEF RunGate, Age, Change, vars
<1>3. rollout' \in Scripts /\ SameRollout /\ rollout'.step = rollout.step
      /\ built \subseteq built' /\ built' \subseteq Releases
  BY <1>1, <1>2, Types DEF SameRollout, TypeOK
<1>4. facts' \in Troubles
  BY <1>1 DEF RunGate, Age, Change, vars, TypeOK
<1>5. evidence' \in [environment : Verdicts, migration : Verdicts]
  <2>1. CASE RunGate
    BY <1>1, <2>1, GateTypes DEF RunGate
  <2>2. CASE Age \/ Change \/ UNCHANGED vars
    BY <1>1, <2>2 DEF Age, Change, vars, TypeOK, Verdicts
  <2> QED
    BY <2>1, <2>2
<1> QED
  BY <1>2, <1>3, <1>4, <1>5, GoOn

----------------------------------------------------------------------------
(* Results. *)

\* A server on which nothing has been rolled out satisfies the invariant.
LEMMA InitIInv == Init => IInv
<1> SUFFICES ASSUME Init PROVE IInv
  OBVIOUS
<1>1. 0 \in Releases
  BY RolloutAssumption DEF Releases
<1>2. Migrations(0) = {}
  <2>1. Last \in Nat /\ Migrating \subseteq 1..Last
    BY RolloutAssumption
  <2>2. \A m \in Migrating : m \in Nat /\ m # 0
    BY <2>1
  <2> QED
    BY <2>2 DEF Migrations
<1>3. TypeOK
  BY <1>1 DEF Init, TypeOK, Verdicts, Outcomes
<1>4. TagAndFilesInv /\ SchemaInv /\ ResultInv
  BY <1>1, <1>2, RolloutAssumption
     DEF Init, TagAndFilesInv, TagInStep, GateKnowsTheRelease, FilesInStep, RollbackInStep,
         SchemaInv, CodeHasItsSchema, FallbackIsRunnable, BaselineIsCurrent,
         TagHasItsSchema, MigrationInStep,
         ResultInv, SuccessIsComplete, FailureLeavesTheOldRelease, ResultAtTheEnd, ServicesInStep,
         Steps, Undoing, AfterTag, BeforeFiles, BeforeTag, Migrated, Saved
<1> QED
  BY <1>3, <1>4, Parts

\* Every step keeps the invariant.
LEMMA NextIInv == IInv /\ [Next]_vars => IInv'
  BY StartStep, ValidateStep, GateStep, CheckingStep, BackupStep, MigrateStep, BreakingStep,
     SaveStep, InstallHelperStep, InstallGateStep, WriteTagStep, DeployStep, ScanLogsStep,
     UndoTagStep, UndoHelperStep, UndoGateStep, UndoServicesStep, OutsideStep
     DEF Next, Rollout

\* The invariant holds of every reachable state.
LEMMA Invariance == Spec => []IInv
  BY InitIInv, NextIInv, PTL DEF Spec

\* For any number of releases and migrations, whatever fails and wherever a script is
\* killed: a success is complete, the installed gate and helper know the tag, running
\* code has its schema, and there is a release to fall back to.
THEOREM RolloutIsSafe == Spec => []RolloutInv
<1>1. IInv => RolloutInv
  BY DEF IInv
<1> QED
  BY <1>1, Invariance, PTL

\* A migration begins behind a backup of the schema as it is, and no gate is passed
\* with anything to be found that blocks a release.
THEOREM RolloutsArePrepared == Spec => RolloutIsPrepared
<1>1. IInv /\ Next => BackupPrecedesMigration
  <2> SUFFICES ASSUME IInv, Next PROVE BackupPrecedesMigration
    OBVIOUS
  <2>1. CASE Migrate \/ MigrationBreaks
    <3>1. database.backup = database.applied
      BY <2>1 DEF Migrate, MigrationBreaks, At, IInv, MigrationInStep
    <3> QED
      BY <3>1 DEF BackupPrecedesMigration
  <2>2. CASE Backup
    BY <2>2 DEF Backup, BackupPrecedesMigration, IInv, RolloutInv, TypeOK
  <2>3. Migrate \/ MigrationBreaks \/ Backup \/ UNCHANGED database
    BY DEF Next, Rollout, Start, Validate, Baseline, Build, Precheck, Postcheck, Save,
           InstallHelper, InstallGate, WriteTag, Deploy, DeployPartly, Verify, GateAfter, Observe,
           ScanLogs, ScanFails, CommandFails, UndoTag, UndoHelper, UndoGate, UndoServices, Kill,
           RunGate, Age, Change
  <2> QED
    BY <2>1, <2>2, <2>3 DEF BackupPrecedesMigration
<1>2. IInv /\ Next => NoTroublePassesTheGate
  <2> SUFFICES ASSUME IInv, Next,
                      \/ rollout.step = "baseline" /\ rollout'.step = "build"
                      \/ rollout.step = "gate" /\ rollout'.step = "observe"
               PROVE  ~Blocking(facts)
    BY DEF NoTroublePassesTheGate, At
  <2>1. TypeOK
    BY DEF IInv, RolloutInv
  <2>2. rollout'.step \notin {"idle", "undoTag", rollout.step}
    OBVIOUS
  <2>3. ASSUME NEW services \in BOOLEAN, Trap(services) PROVE FALSE
    BY <2>1, <2>2, <2>3 DEF Trap, TypeOK
  <2>4. Baseline \/ GateAfter
    <3>1. ~CommandFails
      BY <2>3 DEF CommandFails
    <3>2. ~Kill
      BY <2>1, <2>2, Going DEF Kill
    <3>3. ~(RunGate \/ Age \/ Change)
      BY <2>2 DEF RunGate, Age, Change
    <3> QED
      BY <3>1, <3>2, <3>3 DEF Next, Rollout, Start, Validate, Build, Backup, Precheck, Migrate,
           MigrationBreaks, Postcheck, Save, InstallHelper, InstallGate, WriteTag, Deploy,
           DeployPartly, Verify, Observe, ScanLogs, ScanFails, UndoTag, UndoHelper, UndoGate,
           UndoServices, At
  <2>5. \E wrote \in SUBSET {"environment", "migration"} : GatePasses(wrote)
    BY <2>3, <2>4 DEF Baseline, GateAfter
  <2> QED
    BY <2>1, <2>5, GatePassed
<1>3. IInv /\ [Next]_vars => [BackupPrecedesMigration /\ NoTroublePassesTheGate]_vars
  BY <1>1, <1>2
<1> QED
  BY <1>3, Invariance, PTL DEF Spec, RolloutIsPrepared

-----------------------------------------------------------------------------
(* The tool that seals backups.                                            *)

RunRow == [command : Commands \cup {"none"}, step : {"none", "stream", "close", "rename", "link"},
           source : Sources, length : Nat, read : Nat, tail : 0 .. TagLength]

\* What an encryption has written: the header, what it has read, and at last the tag.
EncryptOK(k, size) ==
    /\ k.source = "genuine" /\ k.tail = 0
    /\ k.length <= PlainLength /\ k.read <= k.length
    /\ k.step = "stream" => size = PrefixLength + k.read
    /\ k.step # "stream" => k.read = k.length /\ size = PrefixLength + k.length + TagLength
    /\ k.step \in {"stream", "close", "rename"}

\* What a decryption has written: what it has read but the header and the units held back.
DecryptOK(k, size) ==
    /\ k.length <= FullLength /\ k.read <= k.length
    /\ k.read < PrefixLength => size = 0 /\ k.tail = 0
    /\ k.read >= PrefixLength =>
          /\ k.source # "headerless"
          /\ size + k.tail = k.read - PrefixLength
          /\ k.tail < TagLength => size = 0
    /\ k.step # "stream" => k.read = k.length /\ authentic(k)
    /\ k.step \in {"stream", "close", "rename"}

\* A run has a temporary file, of the size that it has come to.
RunOK(k, size) ==
    /\ k \in RunRow
    /\ k = NoRun <=> size = NoFile
    /\ k # NoRun =>
          /\ size \in Nat
          /\ \/ k.command = "encrypt" /\ EncryptOK(k, size)
             \/ k.command = "decrypt" /\ DecryptOK(k, size)
             \/ k.command = "generate-key" /\ k.step = "link" /\ k.read = 0 /\ k.length = 0
                  /\ k.tail = 0 /\ size = 0

FilesIInv ==
    /\ keyFile \in Processes \cup {NoFile}
    /\ tool \in [Processes -> RunRow]
    /\ part \in [Processes -> Nat \cup {NoFile}]
    /\ \A p \in Processes : RunOK(tool[p], part[p])
    /\ OutputIsWhole

LEMMA LengthsAreNumbers ==
    /\ PrefixLength \in Nat /\ PrefixLength > 0 /\ TagLength \in Nat /\ TagLength > 0
    /\ PlainLength \in Nat /\ PlainLength > 0 /\ FullLength = PrefixLength + PlainLength + TagLength
    /\ FullLength \in Nat
  BY LengthsAssumption DEF FullLength

LEMMA NoRunIs == /\ NoRun \in RunRow /\ NoRun.command = "none" /\ NoRun.step = "none"
                 /\ NoRun.read = 0 /\ NoRun.length = 0 /\ NoRun.tail = 0
  BY LengthsAreNumbers DEF NoRun, RunRow, Commands, Sources

LEMMA FilesInitially == FilesInit => FilesIInv
  BY NoRunIs DEF FilesInit, FilesIInv, RunOK, OutputIsWhole

LEMMA FilesImplied == FilesIInv => FilesInv
<1> SUFFICES ASSUME FilesIInv, NEW p \in Processes
             PROVE  /\ tool[p].read \in 0 .. tool[p].length
                    /\ tool[p].tail \in 0 .. TagLength
                    /\ part[p] = NoFile <=> tool[p] = NoRun
                    /\ part[p] # NoFile => part[p] \in 0 .. FullLength
  BY DEF FilesInv, FilesTypeOK, FilesIInv
<1>1. PICK k \in RunRow, size \in Nat \cup {NoFile} : k = tool[p] /\ size = part[p] /\ RunOK(k, size)
  BY DEF FilesIInv
<1>2. k.read \in Nat /\ k.length \in Nat /\ k.tail \in 0 .. TagLength
  BY <1>1 DEF RunRow
<1>3. k.read <= k.length /\ (size # NoFile => size <= FullLength)
  <2>1. CASE k = NoRun
    BY <1>1, <2>1, NoRunIs DEF RunOK
  <2>2. CASE k # NoRun /\ k.command = "encrypt" /\ EncryptOK(k, size)
    BY <1>1, <1>2, <2>2, LengthsAreNumbers DEF RunOK, EncryptOK
  <2>3. CASE k # NoRun /\ k.command = "decrypt" /\ DecryptOK(k, size)
    <3>1. size \in Nat
      BY <1>1, <2>3 DEF RunOK
    <3>2. k.length <= FullLength /\ k.read <= k.length
      BY <2>3 DEF DecryptOK
    <3>3. size = 0 \/ size + k.tail = k.read - PrefixLength
      <4>1. k.read < PrefixLength \/ k.read >= PrefixLength
        BY <1>2, LengthsAreNumbers
      <4> QED
        BY <2>3, <4>1 DEF DecryptOK
    <3> QED
      BY <1>2, <3>1, <3>2, <3>3, LengthsAreNumbers
  <2>4. CASE k.read = 0 /\ k.length = 0 /\ size = 0
    BY <2>4, LengthsAreNumbers
  <2> QED
    BY <1>1, <2>1, <2>2, <2>3, <2>4 DEF RunOK
<1>4. size # NoFile => size \in Nat
  BY <1>1
<1> QED
  BY <1>1, <1>2, <1>3, <1>4, LengthsAreNumbers DEF RunOK

\* One run moves on with its file; the name of the output may be taken.
LEMMA RunMoves ==
  ASSUME FilesIInv, NEW p \in Processes, NEW k, NEW size, RunOK(k, size),
         tool' = [tool EXCEPT ![p] = k], part' = [part EXCEPT ![p] = size],
         keyFile' \in Processes \cup {NoFile}, OutputIsWhole'
  PROVE  FilesIInv'
<1>1. k \in RunRow /\ size \in Nat \cup {NoFile}
  BY DEF RunOK
<1>2. tool' \in [Processes -> RunRow] /\ part' \in [Processes -> Nat \cup {NoFile}]
  BY <1>1 DEF FilesIInv
<1>3. \A q \in Processes : RunOK(tool'[q], part'[q])
  BY DEF FilesIInv
<1> QED
  BY <1>2, <1>3 DEF FilesIInv, RunOK, EncryptOK, DecryptOK, authentic

\* A run that is given up leaves no file.
LEMMA GivenUp ==
  ASSUME FilesIInv, NEW p \in Processes, Forget(p), part' = [part EXCEPT ![p] = NoFile],
         keyFile' \in Processes \cup {NoFile}, OutputIsWhole'
  PROVE  FilesIInv'
<1>1. RunOK(NoRun, NoFile)
  BY NoRunIs DEF RunOK
<1> QED
  BY <1>1, RunMoves DEF Forget

LEMMA AbortStep ==
  ASSUME FilesIInv, NEW p \in Processes, Abort(p)
  PROVE  FilesIInv'
<1>1. OutputIsWhole' /\ keyFile' \in Processes \cup {NoFile}
  BY DEF Abort, FilesIInv, OutputIsWhole
<1> QED
  BY <1>1, GivenUp DEF Abort, abortOutput

\* A run that changes in some fields.
Started(k, command, source, length) ==
    [k EXCEPT !.command = command, !.step = "stream", !.source = source, !.length = length]

ReadOn(k, read, tail) == [k EXCEPT !.read = read, !.tail = tail]

LEMMA RunStarts ==
  ASSUME NEW k \in RunRow, NEW command \in Commands, NEW source \in Sources, NEW length \in Nat
  PROVE  LET j == Started(k, command, source, length)
         IN  /\ j \in RunRow /\ j.command = command /\ j.step = "stream" /\ j.source = source
             /\ j.length = length /\ j.read = k.read /\ j.tail = k.tail
  BY DEF RunRow, Started

LEMMA RunReads ==
  ASSUME NEW k \in RunRow, NEW read \in Nat, NEW tail \in 0 .. TagLength
  PROVE  LET j == ReadOn(k, read, tail)
         IN  /\ j \in RunRow /\ j.command = k.command /\ j.step = k.step
             /\ j.source = k.source /\ j.length = k.length /\ j.read = read /\ j.tail = tail
  BY DEF RunRow, ReadOn

LEMMA KeyRunStarts ==
  ASSUME NEW k \in RunRow
  PROVE  LET j == [k EXCEPT !.command = "generate-key", !.step = "link"]
         IN  /\ j \in RunRow /\ j.command = "generate-key" /\ j.step = "link"
             /\ j.source = k.source /\ j.length = k.length /\ j.read = k.read /\ j.tail = k.tail
  BY DEF RunRow, Commands

LEMMA StartEncryptStep ==
  ASSUME FilesIInv, NEW p \in Processes, NEW length \in 0 .. PlainLength, StartEncrypt(p, length)
  PROVE  FilesIInv'
<1> DEFINE k == Started(NoRun, "encrypt", "genuine", length)
<1>1. /\ k \in RunRow /\ k.command = "encrypt" /\ k.step = "stream" /\ k.source = "genuine"
      /\ k.length = length /\ k.read = 0 /\ k.tail = 0
  <2>1. "encrypt" \in Commands /\ "genuine" \in Sources /\ length \in Nat
    BY LengthsAreNumbers DEF Commands, Sources
  <2> QED
    BY <2>1, RunStarts, NoRunIs
<1>2. /\ tool' = [tool EXCEPT ![p] = k] /\ part' = [part EXCEPT ![p] = PrefixLength]
      /\ OutputIsWhole' /\ keyFile' \in Processes \cup {NoFile}
  BY DEF Started, StartEncrypt, outputTarget, FilesIInv, OutputIsWhole
<1> HIDE DEF k
<1>3. RunOK(k, PrefixLength)
  <2>1. k # NoRun /\ PrefixLength # NoFile
    BY <1>1, NoRunIs, LengthsAreNumbers, NoFileAssumption
  <2>2. EncryptOK(k, PrefixLength)
    BY <1>1, LengthsAreNumbers DEF EncryptOK
  <2> QED
    BY <1>1, <2>1, <2>2, LengthsAreNumbers DEF RunOK
<1> QED
  BY <1>2, <1>3, RunMoves

LEMMA StartDecryptStep ==
  ASSUME FilesIInv, NEW p \in Processes, NEW source \in Sources, NEW length \in 0 .. FullLength,
         StartDecrypt(p, source, length)
  PROVE  FilesIInv'
<1> DEFINE k == Started(NoRun, "decrypt", source, length)
<1>1. /\ k \in RunRow /\ k.command = "decrypt" /\ k.step = "stream" /\ k.source = source
      /\ k.length = length /\ k.read = 0 /\ k.tail = 0
  <2>1. "decrypt" \in Commands /\ length \in Nat
    BY LengthsAreNumbers DEF Commands
  <2> QED
    BY <2>1, RunStarts, NoRunIs
<1>2. /\ tool' = [tool EXCEPT ![p] = k] /\ part' = [part EXCEPT ![p] = 0]
      /\ OutputIsWhole' /\ keyFile' \in Processes \cup {NoFile}
  BY DEF Started, StartDecrypt, outputTarget, FilesIInv, OutputIsWhole
<1> HIDE DEF k
<1>3. RunOK(k, 0)
  <2>1. k # NoRun /\ 0 # NoFile
    BY <1>1, NoRunIs, NoFileAssumption
  <2>2. DecryptOK(k, 0)
    BY <1>1, LengthsAreNumbers DEF DecryptOK
  <2> QED
    BY <1>1, <2>1, <2>2 DEF RunOK
<1> QED
  BY <1>2, <1>3, RunMoves

LEMMA StartKeyStep ==
  ASSUME FilesIInv, NEW p \in Processes, StartKey(p)
  PROVE  FilesIInv'
<1> DEFINE k == [NoRun EXCEPT !.command = "generate-key", !.step = "link"]
<1>1. /\ k \in RunRow /\ k.command = "generate-key" /\ k.step = "link"
      /\ k.length = 0 /\ k.read = 0 /\ k.tail = 0
  BY KeyRunStarts, NoRunIs, LengthsAreNumbers DEF Commands, Sources
<1>2. /\ tool' = [tool EXCEPT ![p] = k] /\ part' = [part EXCEPT ![p] = 0]
      /\ OutputIsWhole' /\ keyFile' \in Processes \cup {NoFile}
  BY DEF StartKey, FilesIInv, OutputIsWhole
<1> HIDE DEF k
<1>3. RunOK(k, 0)
  BY <1>1, NoRunIs, NoFileAssumption DEF RunOK
<1> QED
  BY <1>2, <1>3, RunMoves

\* A run that is in some step is a run of a command with a file.
LEMMA RunIs ==
  ASSUME FilesIInv, NEW p \in Processes, tool[p] # NoRun
  PROVE  /\ tool[p] \in RunRow /\ part[p] \in Nat /\ part[p] # NoFile
         /\ RunOK(tool[p], part[p])
  BY NoFileAssumption DEF FilesIInv, RunOK

LEMMA EncryptingIs ==
  ASSUME FilesIInv, NEW p \in Processes, tool[p].command = "encrypt"
  PROVE  tool[p] # NoRun /\ tool[p] \in RunRow /\ part[p] \in Nat /\ EncryptOK(tool[p], part[p])
  BY NoRunIs, RunIs DEF RunOK

LEMMA DecryptingIs ==
  ASSUME FilesIInv, NEW p \in Processes, tool[p].command = "decrypt"
  PROVE  tool[p] # NoRun /\ tool[p] \in RunRow /\ part[p] \in Nat /\ DecryptOK(tool[p], part[p])
  BY NoRunIs, RunIs DEF RunOK

LEMMA EncryptChunkStep ==
  ASSUME FilesIInv, NEW p \in Processes, NEW n \in 1 .. FullLength, EncryptChunk(p, n)
  PROVE  FilesIInv'
<1>1. PICK j \in RunRow, size \in Nat :
         j = tool[p] /\ size = part[p] /\ EncryptOK(j, size) /\ j.command = "encrypt" /\ j.step = "stream"
  BY EncryptingIs DEF EncryptChunk, Runs
<1> DEFINE k == [j EXCEPT !.read = j.read + n]
<1>2. j.read \in Nat /\ j.length \in Nat /\ n \in Nat /\ j.read + n <= j.length
  BY <1>1 DEF EncryptChunk, RunRow
<1>3. /\ k \in RunRow /\ k.command = "encrypt" /\ k.step = "stream" /\ k.source = j.source
      /\ k.length = j.length /\ k.read = j.read + n /\ k.tail = j.tail
  BY <1>1, <1>2 DEF RunRow
<1>4. tool' = [tool EXCEPT ![p] = k] /\ part' = [part EXCEPT ![p] = size + n]
  BY <1>1 DEF EncryptChunk, FilesIInv
<1>5. OutputIsWhole' /\ keyFile' \in Processes \cup {NoFile}
  BY DEF EncryptChunk, FilesIInv, OutputIsWhole
<1> HIDE DEF k
<1>6. RunOK(k, size + n)
  <2>1. k # NoRun /\ size + n \in Nat /\ size + n # NoFile
    BY <1>1, <1>2, <1>3, NoRunIs, NoFileAssumption
  <2>2. EncryptOK(k, size + n)
    BY <1>1, <1>2, <1>3, LengthsAreNumbers DEF EncryptOK
  <2> QED
    BY <1>3, <2>1, <2>2 DEF RunOK
<1> QED
  BY <1>4, <1>5, <1>6, RunMoves

LEMMA EndEncryptStep ==
  ASSUME FilesIInv, NEW p \in Processes, EndEncrypt(p)
  PROVE  FilesIInv'
<1>1. PICK j \in RunRow, size \in Nat :
         j = tool[p] /\ size = part[p] /\ EncryptOK(j, size) /\ j.command = "encrypt" /\ j.step = "stream"
  BY EncryptingIs DEF EndEncrypt, Runs
<1> DEFINE k == [j EXCEPT !.step = "close"]
<1>2. j.read \in Nat /\ j.length \in Nat /\ j.read = j.length
  BY <1>1 DEF EndEncrypt, RunRow
<1>3. /\ k \in RunRow /\ k.command = "encrypt" /\ k.step = "close" /\ k.source = j.source
      /\ k.length = j.length /\ k.read = j.read /\ k.tail = j.tail
  BY <1>1, <1>2 DEF RunRow
<1>4. tool' = [tool EXCEPT ![p] = k] /\ part' = [part EXCEPT ![p] = size + TagLength]
  BY <1>1 DEF EndEncrypt, FilesIInv
<1>5. OutputIsWhole' /\ keyFile' \in Processes \cup {NoFile}
  BY DEF EndEncrypt, FilesIInv, OutputIsWhole
<1> HIDE DEF k
<1>6. RunOK(k, size + TagLength)
  <2>1. k # NoRun /\ size + TagLength \in Nat /\ size + TagLength # NoFile
    BY <1>1, <1>2, <1>3, NoRunIs, NoFileAssumption, LengthsAreNumbers
  <2>2. EncryptOK(k, size + TagLength)
    BY <1>1, <1>2, <1>3, LengthsAreNumbers DEF EncryptOK
  <2> QED
    BY <1>3, <2>1, <2>2 DEF RunOK
<1> QED
  BY <1>4, <1>5, <1>6, RunMoves

LEMMA DecryptChunkStep ==
  ASSUME FilesIInv, NEW p \in Processes, NEW n \in 1 .. FullLength, DecryptChunk(p, n)
  PROVE  FilesIInv'
<1>1. PICK j \in RunRow, size \in Nat :
         j = tool[p] /\ size = part[p] /\ DecryptOK(j, size) /\ j.command = "decrypt" /\ j.step = "stream"
  BY DecryptingIs DEF DecryptChunk, Runs
<1>2. /\ j.read \in Nat /\ j.length \in Nat /\ n \in Nat /\ n > 0 /\ j.read + n <= j.length
      /\ j.tail \in 0 .. TagLength
  BY <1>1 DEF DecryptChunk, RunRow
<1>3. CASE Abort(p)
  BY <1>3, AbortStep
<1>4. CASE /\ j.read + n < PrefixLength /\ tool' = [tool EXCEPT ![p].read = @ + n]
           /\ UNCHANGED <<part, output, keyFile>>
  <2> DEFINE k == [j EXCEPT !.read = j.read + n]
  <2>1. /\ k \in RunRow /\ k.command = "decrypt" /\ k.step = "stream" /\ k.source = j.source
        /\ k.length = j.length /\ k.read = j.read + n /\ k.tail = j.tail
    BY <1>1, <1>2 DEF RunRow
  <2>2. tool' = [tool EXCEPT ![p] = k] /\ part' = [part EXCEPT ![p] = size]
    BY <1>1, <1>4 DEF FilesIInv
  <2>3. OutputIsWhole' /\ keyFile' \in Processes \cup {NoFile}
    BY <1>4 DEF FilesIInv, OutputIsWhole
  <2> HIDE DEF k
  <2>4. k # NoRun /\ size # NoFile
    BY <1>1, <2>1, NoRunIs, NoFileAssumption
  <2>5. DecryptOK(k, size)
    BY <1>1, <1>2, <1>4, <2>1, LengthsAreNumbers DEF DecryptOK
  <2>6. RunOK(k, size)
    BY <1>1, <2>1, <2>4, <2>5 DEF RunOK
  <2> QED
    BY <2>2, <2>3, <2>6, RunMoves
<1>5. CASE /\ j.read + n >= PrefixLength /\ j.source # "headerless"
           /\ tool' = [tool EXCEPT ![p].read = @ + n,
                     ![p].tail = IF held(j, n) <= TagLength THEN held(j, n) ELSE TagLength]
           /\ part' = [part EXCEPT ![p] = IF held(j, n) <= TagLength THEN @
                                          ELSE @ + held(j, n) - TagLength]
           /\ UNCHANGED <<output, keyFile>>
  <2>1. PICK h, t, sz : /\ h = held(j, n)
                        /\ t = IF h <= TagLength THEN h ELSE TagLength
                        /\ sz = IF h <= TagLength THEN size ELSE size + h - TagLength
    OBVIOUS
  <2>2. /\ h \in Nat
        /\ size + h = j.read + n - PrefixLength
        /\ h < TagLength => size = 0
    <3>1. CASE j.read < PrefixLength
      BY <1>1, <1>2, <1>5, <2>1, <3>1, LengthsAreNumbers DEF held, DecryptOK
    <3>2. CASE j.read >= PrefixLength
      BY <1>1, <1>2, <1>5, <2>1, <3>2, LengthsAreNumbers DEF held, DecryptOK
    <3> QED
      BY <1>2, <3>1, <3>2, LengthsAreNumbers
  <2>3. /\ t \in 0 .. TagLength /\ sz \in Nat
        /\ sz + t = j.read + n - PrefixLength
        /\ t < TagLength => sz = 0
    BY <1>1, <1>2, <2>1, <2>2, LengthsAreNumbers
  <2> DEFINE k == ReadOn(j, j.read + n, t)
  <2>4. /\ k \in RunRow /\ k.command = "decrypt" /\ k.step = "stream" /\ k.source = j.source
        /\ k.length = j.length /\ k.read = j.read + n /\ k.tail = t
    <3>1. j.read + n \in Nat
      BY <1>2
    <3>2. t \in 0 .. TagLength /\ j \in RunRow /\ j.command = "decrypt" /\ j.step = "stream"
      BY <1>1, <2>3
    <3> QED
      BY <3>1, <3>2, RunReads
  <2>5. tool' = [tool EXCEPT ![p] = k]
    <3>1. tool' = [tool EXCEPT ![p].read = j.read + n, ![p].tail = t]
      BY <1>1, <1>5, <2>1
    <3> QED
      BY <1>1, <3>1 DEF FilesIInv, ReadOn
  <2>6. part' = [part EXCEPT ![p] = sz]
    BY <1>1, <1>5, <2>1 DEF FilesIInv
  <2>7. OutputIsWhole' /\ keyFile' \in Processes \cup {NoFile}
    BY <1>5 DEF FilesIInv, OutputIsWhole
  <2> HIDE DEF k
  <2>8. k # NoRun /\ sz # NoFile
    BY <2>3, <2>4, NoRunIs, NoFileAssumption
  <2>9. DecryptOK(k, sz)
    BY <1>1, <1>2, <1>5, <2>3, <2>4, LengthsAreNumbers DEF DecryptOK
  <2>10. RunOK(k, sz)
    BY <2>3, <2>4, <2>8, <2>9 DEF RunOK
  <2> QED
    BY <2>5, <2>6, <2>7, <2>10, RunMoves
<1> QED
  BY <1>1, <1>3, <1>4, <1>5 DEF DecryptChunk

LEMMA EndDecryptStep ==
  ASSUME FilesIInv, NEW p \in Processes, EndDecrypt(p)
  PROVE  FilesIInv'
<1>1. CASE Abort(p)
  BY <1>1, AbortStep
<1>2. CASE authentic(tool[p]) /\ tool' = [tool EXCEPT ![p].step = "close"]
           /\ UNCHANGED <<part, output, keyFile>>
  <2>1. PICK j \in RunRow, size \in Nat :
           /\ j = tool[p] /\ size = part[p] /\ DecryptOK(j, size)
           /\ j.command = "decrypt" /\ j.read = j.length /\ authentic(j)
    BY <1>2, DecryptingIs DEF EndDecrypt, Runs
  <2> DEFINE k == [j EXCEPT !.step = "close"]
  <2>2. /\ k \in RunRow /\ k.command = "decrypt" /\ k.step = "close" /\ k.source = j.source
        /\ k.length = j.length /\ k.read = j.read /\ k.tail = j.tail
    BY <2>1 DEF RunRow
  <2>3. tool' = [tool EXCEPT ![p] = k] /\ part' = [part EXCEPT ![p] = size]
    BY <1>2, <2>1 DEF FilesIInv
  <2>4. OutputIsWhole' /\ keyFile' \in Processes \cup {NoFile}
    BY <1>2 DEF FilesIInv, OutputIsWhole
  <2> HIDE DEF k
  <2>5. k # NoRun /\ size # NoFile
    BY <2>1, <2>2, NoRunIs, NoFileAssumption
  <2>6. authentic(k)
    BY <2>1, <2>2 DEF authentic
  <2>7. DecryptOK(k, size)
    BY <2>1, <2>2, <2>6 DEF DecryptOK
  <2>8. RunOK(k, size)
    BY <2>1, <2>2, <2>5, <2>7 DEF RunOK
  <2> QED
    BY <2>3, <2>4, <2>8, RunMoves
<1> QED
  BY <1>1, <1>2 DEF EndDecrypt

LEMMA FindOutputStep ==
  ASSUME FilesIInv, NEW p \in Processes, FindOutput(p)
  PROVE  FilesIInv'
<1>1. CASE Abort(p)
  BY <1>1, AbortStep
<1>2. CASE tool' = [tool EXCEPT ![p].step = "rename"] /\ UNCHANGED <<part, output, keyFile>>
  <2>1. PICK j \in RunRow, size \in Nat :
           j = tool[p] /\ size = part[p] /\ RunOK(j, size) /\ j.step = "close" /\ j # NoRun
    BY NoRunIs, RunIs DEF FindOutput
  <2> DEFINE k == [j EXCEPT !.step = "rename"]
  <2>2. /\ k \in RunRow /\ k.command = j.command /\ k.step = "rename" /\ k.source = j.source
        /\ k.length = j.length /\ k.read = j.read /\ k.tail = j.tail
    BY <2>1 DEF RunRow
  <2>3. tool' = [tool EXCEPT ![p] = k] /\ part' = [part EXCEPT ![p] = size]
    BY <1>2, <2>1 DEF FilesIInv
  <2>4. OutputIsWhole' /\ keyFile' \in Processes \cup {NoFile}
    BY <1>2 DEF FilesIInv, OutputIsWhole
  <2> HIDE DEF k
  <2>5. k # NoRun /\ size # NoFile
    BY <2>1, <2>2, NoRunIs, NoFileAssumption
  <2>6. CASE j.command = "encrypt" /\ EncryptOK(j, size)
    <3>1. EncryptOK(k, size)
      BY <2>1, <2>2, <2>6 DEF EncryptOK
    <3> QED
      BY <2>1, <2>2, <2>3, <2>4, <2>5, <2>6, <3>1, RunMoves DEF RunOK
  <2>7. CASE j.command = "decrypt" /\ DecryptOK(j, size)
    <3>1. DecryptOK(k, size)
      BY <2>1, <2>2, <2>7 DEF DecryptOK, authentic
    <3> QED
      BY <2>1, <2>2, <2>3, <2>4, <2>5, <2>7, <3>1, RunMoves DEF RunOK
  <2> QED
    BY <2>1, <2>6, <2>7 DEF RunOK
<1> QED
  BY <1>1, <1>2 DEF FindOutput

LEMMA RenameOutputStep ==
  ASSUME FilesIInv, NEW p \in Processes, RenameOutput(p)
  PROVE  FilesIInv'
<1>1. PICK j \in RunRow, size \in Nat :
         j = tool[p] /\ size = part[p] /\ RunOK(j, size) /\ j.step = "rename" /\ j # NoRun
  BY NoRunIs, RunIs DEF RenameOutput
<1>2. /\ output' = [command |-> j.command, length |-> j.length, size |-> size, source |-> j.source]
      /\ part' = [part EXCEPT ![p] = NoFile] /\ Forget(p) /\ keyFile' \in Processes \cup {NoFile}
  BY <1>1 DEF RenameOutput, FilesIInv
<1>3. output'.command = j.command /\ output'.length = j.length /\ output'.size = size
      /\ output'.source = j.source
  BY <1>2
<1>4. CASE j.command = "encrypt" /\ EncryptOK(j, size)
  <2>1. OutputIsWhole'
    BY <1>1, <1>3, <1>4 DEF OutputIsWhole, EncryptOK
  <2> QED
    BY <1>2, <2>1, GivenUp
<1>5. CASE j.command = "decrypt" /\ DecryptOK(j, size)
  <2>1. /\ authentic(j) /\ j.read = j.length /\ j.source # "headerless"
        /\ size + j.tail = j.read - PrefixLength
    BY <1>1, <1>5, LengthsAreNumbers DEF DecryptOK, authentic
  <2>2. size = PlainLength
    BY <1>1, <2>1, LengthsAreNumbers DEF authentic
  <2>3. OutputIsWhole'
    BY <1>3, <1>5, <2>1, <2>2 DEF OutputIsWhole, authentic
  <2> QED
    BY <1>2, <2>3, GivenUp
<1> QED
  BY <1>1, <1>4, <1>5 DEF RunOK

LEMMA LinkKeyStep ==
  ASSUME FilesIInv, NEW p \in Processes, LinkKey(p)
  PROVE  FilesIInv'
<1>1. OutputIsWhole' /\ keyFile' \in Processes \cup {NoFile}
  BY DEF LinkKey, linkSync, FilesIInv, OutputIsWhole
<1> QED
  BY <1>1, GivenUp DEF LinkKey, linkSync

LEMMA KillToolStep ==
  ASSUME FilesIInv, NEW p \in Processes, KillTool(p)
  PROVE  FilesIInv'
<1>1. OutputIsWhole' /\ keyFile' \in Processes \cup {NoFile}
  BY DEF KillTool, FilesIInv, OutputIsWhole
<1> QED
  BY <1>1, GivenUp DEF KillTool

LEMMA TakeOutputStep == FilesIInv /\ TakeOutput => FilesIInv'
  BY DEF TakeOutput, FilesIInv, OutputIsWhole, RunOK, EncryptOK, DecryptOK, authentic

LEMMA FilesKept == FilesIInv /\ UNCHANGED fileVars => FilesIInv'
  BY DEF fileVars, FilesIInv, OutputIsWhole, RunOK, EncryptOK, DecryptOK, authentic

\* Every step of the tool keeps the sizes of the files of the runs, and the output, right.
LEMMA FilesAreKept == FilesIInv /\ FilesNext => FilesIInv'
<1> SUFFICES ASSUME FilesIInv, FilesNext PROVE FilesIInv'
  OBVIOUS
<1>1. ASSUME NEW p \in Processes, NEW length \in 0 .. PlainLength, StartEncrypt(p, length)
      PROVE  FilesIInv'
  BY <1>1, StartEncryptStep
<1>2. ASSUME NEW p \in Processes, NEW source \in Sources, NEW length \in 0 .. FullLength,
             StartDecrypt(p, source, length)
      PROVE  FilesIInv'
  BY <1>2, StartDecryptStep
<1>3. ASSUME NEW p \in Processes, NEW n \in 1 .. FullLength, EncryptChunk(p, n) \/ DecryptChunk(p, n)
      PROVE  FilesIInv'
  BY <1>3, EncryptChunkStep, DecryptChunkStep
<1>4. ASSUME NEW p \in Processes, EndEncrypt(p) \/ EndDecrypt(p) \/ FindOutput(p) \/ RenameOutput(p)
      PROVE  FilesIInv'
  BY <1>4, EndEncryptStep, EndDecryptStep, FindOutputStep, RenameOutputStep
<1>5. ASSUME NEW p \in Processes, InputFails(p)
      PROVE  FilesIInv'
  BY <1>5, AbortStep DEF InputFails
<1>6. ASSUME NEW p \in Processes, StartKey(p) \/ LinkKey(p) \/ KillTool(p)
      PROVE  FilesIInv'
  BY <1>6, StartKeyStep, LinkKeyStep, KillToolStep
<1> QED
  BY <1>1, <1>2, <1>3, <1>4, <1>5, <1>6, TakeOutputStep DEF FilesNext

\* A link never replaces the key.
LEMMA KeyStays == FilesNext /\ keyFile # NoFile => keyFile' = keyFile
  BY DEF FilesNext, StartEncrypt, StartDecrypt, outputTarget, EncryptChunk, DecryptChunk, Abort,
         EndEncrypt, EndDecrypt, InputFails, FindOutput, RenameOutput, StartKey, LinkKey, linkSync,
         KillTool, TakeOutput

-----------------------------------------------------------------------------
(* The preflight of a release.                                             *)

\* The evidence files of the steps before the one that is due.
WrittenBefore(n) == {requiredSteps[i] : i \in 1 .. n - 1} \cap Evidence

\* While no step has failed, every evidence file of the steps done was written, and passes.
PreflightIInv ==
    /\ PreflightTypeOK
    /\ step >= 1 /\ ~ failed =>
          /\ written = WrittenBefore(step)
          /\ \A name \in written : files[name] = "pass"

LEMMA StepsAre ==
    /\ Len(requiredSteps) = 8
    /\ \A i \in 1 .. 8 : requiredSteps[i] \in
          Evidence \cup {"install", "tests", "build", "release_check"}
    /\ requiredSteps[2] = "migration" /\ requiredSteps[3] = "environment"
    /\ requiredSteps[6] = "e2e" /\ requiredSteps[7] = "audit"
  BY DEF requiredSteps, Evidence

LEMMA WrittenGrows ==
  ASSUME NEW n \in 1 .. 8
  PROVE  WrittenBefore(n + 1) = WrittenBefore(n) \cup ({requiredSteps[n]} \cap Evidence)
<1>1. 1 .. (n + 1) - 1 = (1 .. n - 1) \cup {n}
  OBVIOUS
<1> QED
  BY <1>1 DEF WrittenBefore

LEMMA WrittenAll == WrittenBefore(9) = Evidence /\ WrittenBefore(1) = {}
<1>1. \A name \in Evidence : \E i \in 1 .. 9 - 1 : requiredSteps[i] = name
  BY StepsAre DEF Evidence
<1> QED
  BY <1>1 DEF WrittenBefore

LEMMA VerdictsAre ==
  ASSUME NEW passed
  PROVE  Verdict(passed) \in Verdicts /\ (Verdict(passed) = "pass" <=> passed)
  BY DEF Verdict, Verdicts

LEMMA PreflightInitially == PreflightInit => PreflightIInv
<1> SUFFICES ASSUME PreflightInit PROVE PreflightIInv
  OBVIOUS
<1>1. step \in 0 .. (Len(requiredSteps) + 2) /\ ~ (step >= 1)
  BY StepsAre DEF PreflightInit
<1>2. files \in [Artifacts -> Verdicts]
  BY DEF PreflightInit, Verdicts
<1> QED
  BY <1>1, <1>2 DEF PreflightInit, PreflightIInv, PreflightTypeOK

\* A step of the preflight runs, passes or fails, and writes its evidence or none.
LEMMA StepRan ==
  ASSUME RunStep
  PROVE  \E passed : \E writes \in BOOLEAN :
         /\ ~ failed
         /\ failed' = Outcome(requiredSteps[step], passed)
         /\ written' = IF writes THEN written \cup {requiredSteps[step]} ELSE written
         /\ files' = IF writes THEN [files EXCEPT ![requiredSteps[step]] = Verdict(passed)]
                     ELSE files
         /\ writes => requiredSteps[step] \in Evidence
         /\ passed /\ requiredSteps[step] \in Evidence => writes
  BY DEF RunStep

LEMMA RunStepKeeps == PreflightIInv /\ RunStep => PreflightIInv'
<1> SUFFICES ASSUME PreflightIInv, RunStep PROVE PreflightIInv'
  OBVIOUS
<1> DEFINE name == requiredSteps[step]
<1>1. PICK passed : \E writes \in BOOLEAN :
         /\ ~ failed
         /\ failed' = Outcome(name, passed)
         /\ written' = IF writes THEN written \cup {name} ELSE written
         /\ files' = IF writes THEN [files EXCEPT ![name] = Verdict(passed)] ELSE files
         /\ writes => name \in Evidence
         /\ passed /\ name \in Evidence => writes
  BY StepRan
<1>0. PICK writes \in BOOLEAN :
         /\ written' = IF writes THEN written \cup {name} ELSE written
         /\ files' = IF writes THEN [files EXCEPT ![name] = Verdict(passed)] ELSE files
         /\ writes => name \in Evidence
         /\ passed /\ name \in Evidence => writes
  BY <1>1
<1>2. /\ step \in 1 .. 8 /\ step' = step + 1 /\ situation' = situation
      /\ name \in Evidence \cup {"install", "tests", "build", "release_check"}
  BY StepsAre DEF RunStep
<1> HIDE DEF name
<1>3. PreflightTypeOK'
  <2>1. Verdict(passed) \in Verdicts
    BY VerdictsAre
  <2>2. written' \subseteq Evidence
    BY <1>0, <1>1 DEF PreflightIInv, PreflightTypeOK
  <2>3. files' \in [Artifacts -> Verdicts]
    BY <1>0, <1>1, <2>1 DEF PreflightIInv, PreflightTypeOK
  <2>4. failed' \in BOOLEAN
    BY <1>0, <1>1 DEF Outcome
  <2> QED
    BY <1>2, <2>2, <2>3, <2>4, StepsAre DEF PreflightIInv, PreflightTypeOK
<1>4. ASSUME ~ failed' PROVE written' = WrittenBefore(step') /\ \A x \in written' : files'[x] = "pass"
  <2>1. passed
    BY <1>0, <1>1, <1>4 DEF Outcome
  <2>2. written' = written \cup ({name} \cap Evidence)
    BY <1>0, <1>1, <2>1
  <2>3. written = WrittenBefore(step) /\ \A x \in written : files[x] = "pass"
    BY <1>0, <1>1, <1>2 DEF PreflightIInv
  <2>4. written' = WrittenBefore(step')
    BY <1>2, <2>2, <2>3, WrittenGrows DEF name
  <2>5. files \in [Artifacts -> Verdicts] /\ Evidence \subseteq Artifacts /\ Verdict(passed) = "pass"
    BY <2>1, VerdictsAre DEF PreflightIInv, PreflightTypeOK, Artifacts
  <2>6. \A x \in written' : files'[x] = "pass"
    BY <1>0, <1>1, <2>1, <2>2, <2>3, <2>5 DEF PreflightIInv, PreflightTypeOK
  <2> QED
    BY <2>4, <2>6
<1> QED
  BY <1>3, <1>4 DEF PreflightIInv

LEMMA ReportWrites ==
  ASSUME PreflightIInv, writeReleaseReport
  PROVE  files' \in [Artifacts -> Verdicts] /\ \A name \in Evidence : files'[name] = files[name]
  BY VerdictsAre DEF writeReleaseReport, PreflightIInv, PreflightTypeOK, Artifacts, Evidence

LEMMA PreflightIsKept == PreflightIInv /\ PreflightNext => PreflightIInv'
<1> SUFFICES ASSUME PreflightIInv, PreflightNext PROVE PreflightIInv'
  OBVIOUS
<1>1. CASE StartPreflight
  <2>1. step' = 1 /\ written' = WrittenBefore(step') /\ written' = {}
    BY <1>1, WrittenAll DEF StartPreflight
  <2>2. PreflightTypeOK'
    <3>1. 1 \in 0 .. (Len(requiredSteps) + 2)
      BY StepsAre
    <3>2. step' = 1 /\ failed' = FALSE /\ written' = {} /\ UNCHANGED <<files, situation>>
      BY <1>1 DEF StartPreflight
    <3> QED
      BY <3>1, <3>2 DEF StartPreflight, PreflightIInv, PreflightTypeOK
  <2> QED
    BY <2>1, <2>2 DEF PreflightIInv
<1>2. CASE SkipStep
  BY <1>2, StepsAre DEF SkipStep, PreflightIInv, PreflightTypeOK
<1>3. CASE FinishPreflight
  <2>1. files' \in [Artifacts -> Verdicts] /\ \A name \in Evidence : files'[name] = files[name]
    BY <1>3, VerdictsAre DEF FinishPreflight, PreflightIInv, PreflightTypeOK, Artifacts, Evidence
  <2>2. step = 9 /\ step' = 10 /\ UNCHANGED <<failed, written, situation>>
    BY <1>3, StepsAre DEF FinishPreflight
  <2>3. WrittenBefore(10) = WrittenBefore(9)
    <3>1. \A i \in 1 .. 9 : i # 9 => i \in 1 .. 8
      OBVIOUS
    <3>2. WrittenBefore(10) \subseteq Evidence /\ WrittenBefore(9) \subseteq WrittenBefore(10)
      BY DEF WrittenBefore
    <3> QED
      BY <3>2, WrittenAll
  <2>4. PreflightTypeOK'
    BY <2>1, <2>2, StepsAre DEF PreflightIInv, PreflightTypeOK
  <2>5. ~ failed => written = WrittenBefore(9) /\ \A name \in written : files[name] = "pass"
    BY <2>2 DEF PreflightIInv
  <2>6. written \subseteq Evidence
    BY DEF PreflightIInv, PreflightTypeOK
  <2>7. ~ failed => written' = WrittenBefore(step') /\ \A name \in written' : files'[name] = "pass"
    BY <2>1, <2>2, <2>3, <2>5, <2>6
  <2> QED
    BY <2>2, <2>4, <2>7 DEF PreflightIInv
<1>4. CASE ReportPreflight
  BY <1>4, ReportWrites, StepsAre DEF ReportPreflight, PreflightIInv, PreflightTypeOK
<1>5. CASE RunAlone
  <2>1. files' \in [Artifacts -> Verdicts]
    BY <1>5, ReportWrites, VerdictsAre DEF RunAlone, PreflightIInv, PreflightTypeOK
  <2> QED
    BY <1>5, <2>1 DEF RunAlone, PreflightIInv, PreflightTypeOK
<1>6. CASE Interrupt
  BY <1>6, StepsAre DEF Interrupt, PreflightIInv, PreflightTypeOK
<1>7. CASE SituationChanges
  BY <1>7 DEF SituationChanges, PreflightIInv, PreflightTypeOK
<1> QED
  BY <1>1, <1>2, <1>3, <1>4, <1>5, <1>6, <1>7, RunStepKeeps DEF PreflightNext

\* Only the end of a preflight writes that a release may go, and only after every step.
LEMMA PassIsEarned ==
  ASSUME PreflightIInv, PreflightNext,
         files'["release"] # files["release"], files'["release"] = "pass"
  PROVE  written = Evidence /\ \A name \in Evidence : files[name] = "pass"
<1>1. FinishPreflight
  <2>1. ~ writeReleaseReport
    BY DEF writeReleaseReport, PreflightIInv, PreflightTypeOK, Artifacts
  <2>2. ~ RunAlone
    BY <2>1 DEF RunAlone, PreflightIInv, PreflightTypeOK, Artifacts
  <2>3. ~ RunStep
    <3>1. SUFFICES ASSUME RunStep PROVE FALSE
      OBVIOUS
    <3> DEFINE name == requiredSteps[step]
    <3>2. PICK passed : \/ name \in Evidence /\ files' = [files EXCEPT ![name] = Verdict(passed)]
                        \/ files' = files
      BY <3>1, StepRan
    <3> HIDE DEF name
    <3> QED
      BY <3>2 DEF PreflightIInv, PreflightTypeOK, Artifacts, Evidence
  <2> QED
    BY <2>1, <2>2, <2>3 DEF PreflightNext, StartPreflight, SkipStep, ReportPreflight, Interrupt,
                            SituationChanges
<1>2. step = 9 /\ ~ failed
  <2>1. step = 9 /\ files' = [files EXCEPT !["release"] = Verdict(~ failed)]
    BY <1>1, StepsAre DEF FinishPreflight
  <2>2. Verdict(~ failed) = "pass"
    BY <2>1 DEF PreflightIInv, PreflightTypeOK, Artifacts
  <2> QED
    BY <2>1, <2>2, VerdictsAre
<1> QED
  BY <1>2, WrittenAll DEF PreflightIInv

-----------------------------------------------------------------------------
(* Backups, their evidence, the watchdog and the alerts.                   *)

KeptRows == {NoValue} \cup Row

Snapshot == [latest : {NoValue} \cup Stamps, service : {"success", "failed"}, sealed : BOOLEAN]

Existing == {Idle.existing} \cup UNION {[found -> KeptRows] : found \in SUBSET Codes}

PassRow == [step : {"idle", "seen", "collected", "read"}, found : SUBSET Codes,
            critical : SUBSET Codes, existing : Existing, at : 0 .. MaxTime, resolve : BOOLEAN,
            seen : {NoValue} \cup Snapshot]

JobRow == [step : {"idle", "dumping", "published", "sealed", "recorded"}, stamp : Stamps]

\* A reconciliation that has read holds a row, or none, of each thing it found.
ReadOK(k) == k.step = "read" => k.existing \in [k.found -> KeptRows]

\* A file that was sealed still is, unless it has expired.
SealedThen(n) == n <= clock /\ (file[n] = "sealed" \/ (file[n] = "absent" /\ n < clock))

\* What the watchdog finds is of its own source; what it saw sealed was; and where it finds
\* nothing, it saw a sealed file that was fresh.
WatchOK(k) ==
    /\ k.found \subseteq WatchdogCodes
    /\ k.resolve /\ k.step # "idle" =>
          /\ k.seen \in Snapshot
          /\ k.seen.latest # NoValue /\ k.seen.sealed => SealedThen(k.seen.latest)
          /\ k.step # "seen" /\ k.found = {} =>
                k.seen.latest # NoValue /\ k.seen.sealed /\ k.at < k.seen.latest + StaleTicks

\* A run works on the file of the tick, and no file is of a later one.
JobOK ==
    /\ job.step # "idle" => job.stamp = clock
    /\ job.step = "dumping" => file[job.stamp] = "absent"
    /\ job.step = "published" => file[job.stamp] = "published"
    /\ job.step \in {"sealed", "recorded"} => file[job.stamp] = "sealed"
    /\ \A n \in Stamps : file[n] # "absent" => n <= clock

EvidenceIInv ==
    /\ EvidenceTypeOK
    /\ pass \in [Reconcilers -> PassRow]
    /\ \A r \in Reconcilers : ReadOK(pass[r])
    /\ \A k \in PassRow : k = pass[Watchdog] => WatchOK(k)
    /\ job \in JobRow
    /\ JobOK

LEMMA IdleIs ==
    /\ Idle \in PassRow /\ ReadOK(Idle) /\ WatchOK(Idle)
    /\ Idle.step = "idle" /\ Idle.found = {} /\ Idle.critical = {} /\ Idle.resolve = TRUE
<1>1. Idle.existing \in Existing
  BY DEF Existing
<1>2. /\ Idle.step = "idle" /\ Idle.found = {} /\ Idle.critical = {} /\ Idle.at = 0
      /\ Idle.resolve = TRUE /\ Idle.seen = NoValue
  BY DEF Idle
<1>3. Idle \in PassRow
  <2>1. PICK e : e = <<>>
    OBVIOUS
  <2>2. Idle = [step |-> "idle", found |-> {}, critical |-> {}, existing |-> e, at |-> 0,
                resolve |-> TRUE, seen |-> NoValue]
    BY <2>1 DEF Idle
  <2>3. e \in Existing
    BY <1>1, <2>2
  <2>4. 0 \in 0 .. MaxTime
    BY AlertsAssumption
  <2> QED
    BY <2>2, <2>3, <2>4 DEF PassRow
<1> QED
  BY <1>2, <1>3 DEF ReadOK, WatchOK

LEMMA ClockIs ==
  ASSUME EvidenceIInv
  PROVE  clock \in Nat /\ clock \in Stamps /\ clock <= MaxTime /\ MaxTime \in Nat
  BY AlertsAssumption DEF EvidenceIInv, EvidenceTypeOK, TypeOKAlerts, Stamps

LEMMA EvidenceInitially == EvidenceInit => EvidenceIInv
<1> SUFFICES ASSUME EvidenceInit PROVE EvidenceIInv
  OBVIOUS
<1>1. TypeOKAlerts
  BY IdleIs, AlertsAssumption DEF EvidenceInit, InitAlerts, TypeOKAlerts
<1>2. 0 \in Stamps /\ Stamps \subseteq Nat
  BY AlertsAssumption DEF Stamps
<1>3. MatchingRecord(0) \in Record
  BY <1>2 DEF MatchingRecord, Record
<1>4. record \in [Stamps -> {NoValue} \cup Record]
  BY <1>3 DEF EvidenceInit
<1>5. file \in [Stamps -> {"absent", "published", "sealed"}]
  BY DEF EvidenceInit
<1>6. job \in JobRow /\ job.step = "idle"
  BY <1>2 DEF EvidenceInit, NoJob, JobRow
<1>7. EvidenceTypeOK
  BY <1>1, <1>4, <1>5, <1>6, EvidenceAssumption DEF EvidenceInit, EvidenceTypeOK
<1>8. JobOK
  BY <1>2, <1>6 DEF EvidenceInit, InitAlerts, JobOK
<1>9. pass \in [Reconcilers -> PassRow] /\ \A r \in Reconcilers : pass[r] = Idle
  BY IdleIs DEF EvidenceInit, InitAlerts
<1>10. Watchdog \in Reconcilers
  BY DEF Reconcilers
<1> QED
  BY <1>6, <1>7, <1>8, <1>9, <1>10, IdleIs DEF EvidenceIInv

-----------------------------------------------------------------------------
(* The backup job and the clock.                                           *)

LEMMA SealedStays ==
  ASSUME EvidenceIInv, NEW n \in Stamps, SealedThen(n),
         StartBackup \/ PublishFile \/ SealFile \/ FinishBackup \/ Tick
         \/ UNCHANGED <<clock, file>>
  PROVE  SealedThen(n)'
<1>1. /\ n \in Nat /\ clock \in Nat /\ RetentionTicks \in Nat
      /\ file \in [Stamps -> {"absent", "published", "sealed"}]
  BY ClockIs, EvidenceAssumption DEF Stamps, EvidenceIInv, EvidenceTypeOK
<1>2. CASE PublishFile
  <2>1. n # job.stamp
    BY <1>1, <1>2 DEF PublishFile, EvidenceIInv, JobOK, SealedThen
  <2> QED
    BY <1>1, <1>2, <2>1 DEF PublishFile, SealedThen, alertVars
<1>3. CASE SealFile
  BY <1>1, <1>3 DEF SealFile, SealedThen, alertVars
<1>4. CASE FinishBackup
  BY <1>1, <1>4 DEF FinishBackup, Expired, SealedThen, alertVars
<1>5. CASE Tick
  BY <1>1, <1>5 DEF Tick, SealedThen, backupVars
<1>6. CASE StartBackup \/ UNCHANGED <<clock, file>>
  BY <1>6 DEF StartBackup, SealedThen, alertVars
<1> QED
  BY <1>2, <1>3, <1>4, <1>5, <1>6

\* A step of the job leaves what has been read as it was.
LEMMA ReadersStay ==
  ASSUME EvidenceIInv, UNCHANGED pass,
         StartBackup \/ PublishFile \/ SealFile \/ FinishBackup \/ Tick
         \/ UNCHANGED <<clock, file>>
  PROVE  /\ (pass \in [Reconcilers -> PassRow])'
         /\ (\A r \in Reconcilers : ReadOK(pass[r]))'
         /\ (\A k \in PassRow : k = pass[Watchdog] => WatchOK(k))'
<1>1. (pass \in [Reconcilers -> PassRow])' /\ (\A r \in Reconcilers : ReadOK(pass[r]))'
  BY DEF EvidenceIInv
<1>2. ASSUME NEW k \in PassRow, k = pass[Watchdog] PROVE WatchOK(k)'
  <2>1. WatchOK(k)
    BY <1>2 DEF EvidenceIInv
  <2>2. k.seen \in Snapshot /\ k.seen.latest # NoValue => k.seen.latest \in Stamps
    BY DEF Snapshot
  <2> QED
    BY <2>1, <2>2, SealedStays DEF WatchOK
<1> QED
  BY <1>1, <1>2

LEMMA JobIs ==
  ASSUME EvidenceIInv
  PROVE  /\ job.step \in {"idle", "dumping", "published", "sealed", "recorded"} /\ job.stamp \in Stamps
         /\ file \in [Stamps -> {"absent", "published", "sealed"}]
         /\ TypeOKAlerts
         /\ Stamps \subseteq Nat
  BY AlertsAssumption DEF EvidenceIInv, EvidenceTypeOK, JobRow, Stamps

LEMMA MatchingIs ==
  ASSUME NEW n \in Stamps
  PROVE  MatchingRecord(n) \in Record
  BY DEF MatchingRecord, Record

LEMMA NoJobIs == NoJob \in JobRow /\ NoJob.step = "idle"
<1>1. 0 \in Stamps
  BY AlertsAssumption DEF Stamps
<1> QED
  BY <1>1 DEF NoJob, JobRow

\* What a step of the job owes beside its own variables.
LEMMA JobMoves ==
  ASSUME EvidenceIInv, UNCHANGED <<alertVars, world>>, job' \in JobRow, JobOK',
         file' \in [Stamps -> {"absent", "published", "sealed"}],
         record' \in [Stamps -> {NoValue} \cup Record], service' \in {"success", "failed"},
         faults' \in 0 .. Faults,
         StartBackup \/ PublishFile \/ SealFile \/ FinishBackup \/ UNCHANGED file
  PROVE  EvidenceIInv'
<1>1. UNCHANGED <<clock, alert, unread, pass, edits, world>>
  BY DEF alertVars
<1>2. TypeOKAlerts'
  BY <1>1 DEF EvidenceIInv, EvidenceTypeOK, TypeOKAlerts
<1>3. EvidenceTypeOK'
  BY <1>1, <1>2 DEF EvidenceIInv, EvidenceTypeOK, JobRow
<1> QED
  BY <1>1, <1>3, ReadersStay DEF EvidenceIInv

LEMMA StartBackupStep == EvidenceIInv /\ StartBackup => EvidenceIInv'
<1> SUFFICES ASSUME EvidenceIInv, StartBackup PROVE EvidenceIInv'
  OBVIOUS
<1>1. job' \in JobRow /\ job'.step = "dumping" /\ job'.stamp = clock
  BY ClockIs DEF StartBackup, JobRow
<1>2. UNCHANGED <<clock, file>>
  BY DEF StartBackup, alertVars
<1>3. JobOK'
  BY <1>1, <1>2 DEF StartBackup, EvidenceIInv, JobOK
<1> QED
  BY <1>1, <1>2, <1>3, JobMoves DEF StartBackup, EvidenceIInv, EvidenceTypeOK

LEMMA PublishFileStep == EvidenceIInv /\ PublishFile => EvidenceIInv'
<1> SUFFICES ASSUME EvidenceIInv, PublishFile PROVE EvidenceIInv'
  OBVIOUS
<1>1. job' \in JobRow /\ job'.step = "published" /\ job'.stamp = job.stamp
  BY DEF PublishFile, JobRow, EvidenceIInv
<1>2. clock' = clock /\ clock \in Nat /\ job.stamp = clock /\ job.stamp \in Stamps
  BY ClockIs, JobIs DEF PublishFile, alertVars, EvidenceIInv, JobOK
<1>3. file' \in [Stamps -> {"absent", "published", "sealed"}] /\ file'[job.stamp] = "published"
      /\ \A n \in Stamps : n # job.stamp => file'[n] = file[n]
  BY <1>2, JobIs DEF PublishFile
<1>4. JobOK'
  BY <1>1, <1>2, <1>3 DEF EvidenceIInv, JobOK
<1> QED
  BY <1>1, <1>3, <1>4, JobMoves DEF PublishFile, EvidenceIInv, EvidenceTypeOK

LEMMA SealFileStep == EvidenceIInv /\ SealFile => EvidenceIInv'
<1> SUFFICES ASSUME EvidenceIInv, SealFile PROVE EvidenceIInv'
  OBVIOUS
<1>1. job' \in JobRow /\ job'.step = "sealed" /\ job'.stamp = job.stamp
  BY DEF SealFile, JobRow, EvidenceIInv
<1>2. clock' = clock /\ clock \in Nat /\ job.stamp = clock /\ job.stamp \in Stamps
  BY ClockIs, JobIs DEF SealFile, alertVars, EvidenceIInv, JobOK
<1>3. file' \in [Stamps -> {"absent", "published", "sealed"}] /\ file'[job.stamp] = "sealed"
      /\ \A n \in Stamps : n # job.stamp => file'[n] = file[n]
  BY <1>2, JobIs DEF SealFile
<1>4. JobOK'
  BY <1>1, <1>2, <1>3 DEF EvidenceIInv, JobOK
<1> QED
  BY <1>1, <1>3, <1>4, JobMoves DEF SealFile, EvidenceIInv, EvidenceTypeOK

LEMMA ReconcileBackupStep == EvidenceIInv /\ reconcileBackup => EvidenceIInv'
<1> SUFFICES ASSUME EvidenceIInv, reconcileBackup PROVE EvidenceIInv'
  OBVIOUS
<1>1. UNCHANGED <<clock, file>>
  BY DEF reconcileBackup, alertVars
<1>2. CASE job' = NoJob /\ service' = "failed" /\ UNCHANGED record
  <2>1. JobOK'
    BY <1>1, <1>2, NoJobIs DEF EvidenceIInv, JobOK
  <2> QED
    BY <1>1, <1>2, <2>1, NoJobIs, JobMoves DEF reconcileBackup, EvidenceIInv, EvidenceTypeOK
<1>3. CASE /\ record' = [record EXCEPT ![job.stamp] =
                            IF @ = NoValue THEN MatchingRecord(job.stamp) ELSE @]
           /\ job' = [job EXCEPT !.step = "recorded"]
           /\ UNCHANGED service
  <2>1. job' \in JobRow /\ job'.step = "recorded" /\ job'.stamp = job.stamp
    BY <1>3 DEF JobRow, EvidenceIInv
  <2>2. JobOK'
    BY <1>1, <2>1 DEF reconcileBackup, EvidenceIInv, JobOK
  <2>3. record' \in [Stamps -> {NoValue} \cup Record]
    BY <1>3, JobIs, MatchingIs DEF EvidenceIInv, EvidenceTypeOK
  <2> QED
    BY <1>1, <1>3, <2>1, <2>2, <2>3, JobMoves DEF reconcileBackup, EvidenceIInv, EvidenceTypeOK
<1> QED
  BY <1>2, <1>3 DEF reconcileBackup

LEMMA FinishBackupStep == EvidenceIInv /\ FinishBackup => EvidenceIInv'
<1> SUFFICES ASSUME EvidenceIInv, FinishBackup PROVE EvidenceIInv'
  OBVIOUS
<1>1. job' \in JobRow /\ job'.step = "idle" /\ clock' = clock
  BY NoJobIs DEF FinishBackup, alertVars
<1>2. file' \in [Stamps -> {"absent", "published", "sealed"}]
      /\ \A n \in Stamps : file'[n] # "absent" => file'[n] = file[n]
  BY JobIs DEF FinishBackup
<1>3. JobOK'
  BY <1>1, <1>2 DEF EvidenceIInv, JobOK
<1> QED
  BY <1>1, <1>2, <1>3, JobMoves DEF FinishBackup, EvidenceIInv, EvidenceTypeOK

LEMMA CrashBackupStep == EvidenceIInv /\ CrashBackup => EvidenceIInv'
<1> SUFFICES ASSUME EvidenceIInv, CrashBackup PROVE EvidenceIInv'
  OBVIOUS
<1>1. job' \in JobRow /\ job'.step = "idle" /\ UNCHANGED <<clock, file>>
  BY NoJobIs DEF CrashBackup, alertVars
<1>2. JobOK'
  BY <1>1 DEF EvidenceIInv, JobOK
<1>3. faults' \in 0 .. Faults
  BY EvidenceAssumption DEF CrashBackup, EvidenceIInv, EvidenceTypeOK
<1> QED
  BY <1>1, <1>2, <1>3, JobMoves DEF CrashBackup, EvidenceIInv, EvidenceTypeOK

LEMMA TickStep == EvidenceIInv /\ Tick => EvidenceIInv'
<1> SUFFICES ASSUME EvidenceIInv, Tick PROVE EvidenceIInv'
  OBVIOUS
<1>1. /\ clock' = clock + 1 /\ clock' \in 0 .. MaxTime
      /\ UNCHANGED <<alert, unread, pass, edits, file, record, job, service, world, faults>>
  BY ClockIs DEF Tick, backupVars
<1>2. EvidenceTypeOK'
  BY <1>1 DEF EvidenceIInv, EvidenceTypeOK, TypeOKAlerts
<1>3. JobOK'
  BY <1>1, ClockIs, JobIs DEF Tick, EvidenceIInv, JobOK
<1> QED
  BY <1>1, <1>2, <1>3, ReadersStay DEF EvidenceIInv

-----------------------------------------------------------------------------
(* The administrators and the world.                                       *)

LEMMA EditIs == EvidenceIInv /\ Edit => edits' \in 0 .. Edits
  BY AlertsAssumption DEF EvidenceIInv, EvidenceTypeOK, TypeOKAlerts, Edit

LEMMA ManualIs == Manual \subseteq Record
  BY DEF Manual, Record

LEMMA EnterStep ==
  ASSUME EvidenceIInv, NEW n \in Stamps, NEW r \in Manual, createBackup(n, r) \/ updateBackup(n, r)
  PROVE  EvidenceIInv'
<1>1. /\ Edit /\ record' = [record EXCEPT ![n] = r]
      /\ UNCHANGED <<clock, alert, unread, pass, file, job, service, world, faults>>
  BY DEF createBackup, updateBackup
<1>2. record' \in [Stamps -> {NoValue} \cup Record]
  BY <1>1, ManualIs DEF EvidenceIInv, EvidenceTypeOK
<1>3. EvidenceTypeOK'
  BY <1>1, <1>2, EditIs DEF EvidenceIInv, EvidenceTypeOK, TypeOKAlerts
<1>4. JobOK'
  BY <1>1 DEF EvidenceIInv, JobOK
<1> QED
  BY <1>1, <1>3, <1>4, ReadersStay DEF EvidenceIInv

LEMMA ChangeWorldStep ==
  ASSUME EvidenceIInv, NEW f \in WatchedFacts, ChangeWorld(f)
  PROVE  EvidenceIInv'
<1>1. /\ Edit /\ world' \subseteq WatchedFacts
      /\ UNCHANGED <<clock, alert, unread, pass, file, record, job, service, faults>>
  BY DEF ChangeWorld, EvidenceIInv, EvidenceTypeOK
<1>2. EvidenceTypeOK'
  BY <1>1, EditIs DEF EvidenceIInv, EvidenceTypeOK, TypeOKAlerts
<1>3. JobOK'
  BY <1>1 DEF EvidenceIInv, JobOK
<1> QED
  BY <1>1, <1>2, <1>3, ReadersStay DEF EvidenceIInv

\* What an administrator does to an alert or to its notifications.
LEMMA AlertsMove ==
  ASSUME EvidenceIInv, UNCHANGED <<clock, pass, backupVars>>, edits' \in 0 .. Edits,
         alert' \in [Codes -> {NoValue} \cup Row], unread' \in [Codes -> SUBSET Readers]
  PROVE  EvidenceIInv'
<1>1. UNCHANGED <<clock, pass, file, record, job, service, world, faults>>
  BY DEF backupVars
<1>2. EvidenceTypeOK'
  BY <1>1 DEF EvidenceIInv, EvidenceTypeOK, TypeOKAlerts
<1>3. JobOK'
  BY <1>1 DEF EvidenceIInv, JobOK
<1> QED
  BY <1>1, <1>2, <1>3, ReadersStay DEF EvidenceIInv

LEMMA AlertsAre ==
  ASSUME EvidenceIInv
  PROVE  /\ alert \in [Codes -> {NoValue} \cup Row] /\ unread \in [Codes -> SUBSET Readers]
         /\ edits \in 0 .. Edits
  BY DEF EvidenceIInv, EvidenceTypeOK, TypeOKAlerts

LEMMA AcknowledgeStep ==
  ASSUME EvidenceIInv, NEW c \in Codes, acknowledge(c), UNCHANGED backupVars
  PROVE  EvidenceIInv'
<1>1. alert' = [alert EXCEPT ![c] = [alert[c] EXCEPT !.acknowledged = TRUE]] /\ alert[c] \in Row
  BY AlertsAre DEF acknowledge
<1>2. [alert[c] EXCEPT !.acknowledged = TRUE] \in Row
  BY <1>1 DEF Row
<1>3. alert' \in [Codes -> {NoValue} \cup Row]
  BY <1>1, <1>2, AlertsAre
<1> QED
  BY <1>3, EditIs, AlertsAre, AlertsMove DEF acknowledge

LEMMA SilenceStep ==
  ASSUME EvidenceIInv, NEW c \in Codes, silence(c), UNCHANGED backupVars
  PROVE  EvidenceIInv'
<1>1. PICK until \in clock + 1 .. MaxTime + 1 :
         alert' = [alert EXCEPT ![c].status = "silenced", ![c].until = until]
  BY DEF silence
<1>2. until \in 0 .. MaxTime + 1 /\ alert[c] \in Row
  BY <1>1, ClockIs, AlertsAre DEF silence
<1> DEFINE a == [alert[c] EXCEPT !.status = "silenced", !.until = until]
<1>3. a \in Row /\ alert' = [alert EXCEPT ![c] = a]
  BY <1>1, <1>2, AlertsAre DEF Row
<1> HIDE DEF a
<1>4. alert' \in [Codes -> {NoValue} \cup Row]
  BY <1>3, AlertsAre
<1> QED
  BY <1>4, EditIs, AlertsAre, AlertsMove DEF silence

LEMMA MarkStep ==
  ASSUME EvidenceIInv, NEW u \in Readers, UNCHANGED backupVars,
         markAllRead(u) \/ \E c \in Codes : markRead(u, c)
  PROVE  EvidenceIInv'
<1>1. /\ unread' \in [Codes -> SUBSET Readers] /\ Edit /\ UNCHANGED <<clock, alert, pass>>
  BY AlertsAre DEF markAllRead, markRead
<1> QED
  BY <1>1, EditIs, AlertsAre, AlertsMove

-----------------------------------------------------------------------------
(* The reconciliations.                                                    *)

LEMMA PassIs ==
  ASSUME EvidenceIInv, NEW r \in Reconcilers
  PROVE  /\ pass[r] \in PassRow /\ ReadOK(pass[r]) /\ pass[r].critical \subseteq pass[r].found
         /\ r = Watchdog => WatchOK(pass[r])
  BY DEF EvidenceIInv, EvidenceTypeOK, TypeOKAlerts

LEMMA PassMoves ==
  ASSUME EvidenceIInv, NEW r \in Reconcilers, NEW k \in PassRow, ReadOK(k),
         k.critical \subseteq k.found, r = Watchdog => WatchOK(k),
         pass' = [pass EXCEPT ![r] = k], UNCHANGED <<clock, file, record, job, service, world>>,
         edits' \in 0 .. Edits, faults' \in 0 .. Faults,
         alert' \in [Codes -> {NoValue} \cup Row], unread' \in [Codes -> SUBSET Readers]
  PROVE  EvidenceIInv'
<1>1. pass' \in [Reconcilers -> PassRow] /\ pass'[r] = k
      /\ \A q \in Reconcilers : q # r => pass'[q] = pass[q]
  BY DEF EvidenceIInv
<1>2. \A q \in Reconcilers : ReadOK(pass'[q]) /\ pass'[q].critical \subseteq pass'[q].found
  BY <1>1, PassIs
<1>3. TypeOKAlerts'
  <2>1. \A q \in Reconcilers : /\ pass'[q].step \in {"idle", "seen", "collected", "read"}
                               /\ pass'[q].found \subseteq Codes
    BY <1>1 DEF PassRow
  <2> QED
    BY <1>2, <2>1, ClockIs DEF TypeOKAlerts, EvidenceIInv, EvidenceTypeOK
<1>4. EvidenceTypeOK'
  BY <1>3 DEF EvidenceIInv, EvidenceTypeOK
<1>5. ASSUME NEW j \in PassRow, j = pass'[Watchdog] PROVE WatchOK(j)'
  <2>1. Watchdog \in Reconcilers
    BY DEF Reconcilers
  <2>2. WatchOK(j)
    BY <1>1, <1>5, <2>1, PassIs
  <2> QED
    BY <2>2 DEF WatchOK, SealedThen
<1>6. JobOK'
  BY DEF EvidenceIInv, JobOK
<1> QED
  BY <1>1, <1>2, <1>4, <1>5, <1>6 DEF EvidenceIInv

LEMMA FaultsAre ==
  ASSUME EvidenceIInv
  PROVE  faults \in 0 .. Faults /\ Faults \in Nat /\ edits \in 0 .. Edits /\ Edits \in Nat
  BY EvidenceAssumption, AlertsAssumption DEF EvidenceIInv, EvidenceTypeOK, TypeOKAlerts

LEMMA ReadExistingStep ==
  ASSUME EvidenceIInv, NEW r \in Reconcilers, ReadExisting(r), UNCHANGED backupVars
  PROVE  EvidenceIInv'
<1>1. PICK p \in PassRow : p = pass[r] /\ p.step = "collected"
  BY PassIs DEF ReadExisting
<1>2. PICK read : read = [c \in p.found |-> alert[c]]
  OBVIOUS
<1>3. p.found \subseteq Codes /\ read \in [p.found -> KeptRows] /\ read \in Existing
  <2>1. p.found \in SUBSET Codes
    BY DEF PassRow
  <2>2. read \in [p.found -> KeptRows]
    BY <1>2, <2>1, AlertsAre DEF KeptRows
  <2> QED
    BY <2>1, <2>2 DEF Existing
<1> DEFINE k == [p EXCEPT !.step = "read", !.existing = read]
<1>4. /\ k \in PassRow /\ k.step = "read" /\ k.found = p.found /\ k.critical = p.critical
      /\ k.existing = read /\ k.at = p.at /\ k.resolve = p.resolve /\ k.seen = p.seen
  BY <1>3 DEF PassRow
<1>5. pass' = [pass EXCEPT ![r] = k]
  BY <1>1, <1>2 DEF ReadExisting, EvidenceIInv
<1> HIDE DEF k
<1>6. ReadOK(k) /\ k.critical \subseteq k.found
  BY <1>1, <1>3, <1>4, PassIs DEF ReadOK
<1>7. r = Watchdog => WatchOK(k)
  BY <1>1, <1>4, PassIs DEF WatchOK
<1> QED
  BY <1>4, <1>5, <1>6, <1>7, FaultsAre, AlertsAre, PassMoves DEF ReadExisting, backupVars

\* A finding becomes a row, and every row stays one.
LEMMA FoundIs ==
  ASSUME EvidenceIInv, NEW r \in Reconcilers, NEW c \in Codes
  PROVE  /\ Found(c, pass[r]) \in Row /\ Found(c, pass[r]).status \in {"active", "silenced"}
         /\ Found(c, pass[r]) # NoValue
         /\ Reconciled(r, c) \in {NoValue} \cup Row
<1>1. PICK p : p = pass[r]
  OBVIOUS
<1>2. PICK keep \in BOOLEAN : keep = KeepSilenced(p.existing[c], p.at)
  <2>1. KeepSilenced(p.existing[c], p.at) \in BOOLEAN
    BY DEF KeepSilenced
  <2> QED
    BY <2>1
<1>3. PICK until, acknowledged :
         /\ until = IF keep /\ alert[c] /= NoValue THEN alert[c].until ELSE 0
         /\ acknowledged = IF alert[c] = NoValue THEN FALSE ELSE alert[c].acknowledged
  OBVIOUS
<1>4. until \in 0 .. MaxTime + 1 /\ acknowledged \in BOOLEAN
  <2>1. CASE alert[c] = NoValue
    BY <1>3, <2>1, AlertsAssumption
  <2>2. CASE alert[c] # NoValue
    <3>1. alert[c].until \in 0 .. MaxTime + 1 /\ alert[c].acknowledged \in BOOLEAN
      BY <2>2, AlertsAre DEF Row
    <3> QED
      BY <1>3, <2>2, <3>1, AlertsAssumption
  <2> QED
    BY <2>1, <2>2
<1>5. (c \in p.critical) \in BOOLEAN
  OBVIOUS
<1>6. Found(c, p) = [status |-> IF keep THEN "silenced" ELSE "active", until |-> until,
                     critical |-> c \in p.critical, acknowledged |-> acknowledged]
  BY <1>2, <1>3 DEF Found
<1>7. Found(c, p) \in Row /\ Found(c, p).status \in {"active", "silenced"}
  BY <1>4, <1>5, <1>6 DEF Row
<1>8. alert[c] \in Row => [alert[c] EXCEPT !.status = "resolved"] \in Row
  BY DEF Row
<1>9. alert[c] # NoValue => alert[c] \in Row
  BY AlertsAre
<1>10. IsOpen(c) => alert[c] # NoValue
  BY DEF IsOpen
<1> QED
  BY <1>1, <1>7, <1>8, <1>9, <1>10, AlertsAssumption DEF Reconciled

LEMMA CommitStep ==
  ASSUME EvidenceIInv, NEW r \in Reconcilers, CommitReconciliation(r), UNCHANGED backupVars
  PROVE  EvidenceIInv'
<1>1. alert' \in [Codes -> {NoValue} \cup Row]
  BY FoundIs DEF CommitReconciliation
<1>2. unread' \in [Codes -> SUBSET Readers]
  BY AlertsAre DEF CommitReconciliation
<1> QED
  BY <1>1, <1>2, IdleIs, FaultsAre, PassMoves DEF CommitReconciliation, backupVars

LEMMA FailScanStep ==
  ASSUME EvidenceIInv, NEW r \in Reconcilers, FailScan(r), UNCHANGED backupVars
  PROVE  EvidenceIInv'
<1>1. edits' \in 0 .. Edits
  BY FaultsAre DEF FailScan
<1> QED
  BY <1>1, IdleIs, FaultsAre, AlertsAre, PassMoves DEF FailScan, backupVars

LEMMA ScanStep ==
  ASSUME EvidenceIInv, NEW r \in Scanners, scan(r)
  PROVE  EvidenceIInv'
<1>1. r \in Reconcilers /\ r # Watchdog
  BY AlertsAssumption DEF Reconcilers
<1>2. PICK n \in AnyNewest, failing \in {{}} \cup {{s} : s \in Sections} :
         /\ faults' = faults + Cardinality(failing) /\ faults' <= Faults
         /\ pass' = [pass EXCEPT ![r] =
               [Idle EXCEPT !.step = "collected", !.found = buildCandidates(n, failing), !.at = clock,
                  !.critical = {c \in buildCandidates(n, failing) : CriticalFinding(c, n)}]]
  BY DEF scan
<1>3. PICK found, critical :
         found = buildCandidates(n, failing) /\ critical = {c \in found : CriticalFinding(c, n)}
  OBVIOUS
<1>4. found \in SUBSET Codes /\ critical \in SUBSET found
  BY <1>3 DEF buildCandidates, Codes
<1>5. Cardinality(failing) \in Nat
  BY FS_EmptySet, FS_Singleton
<1>6. faults' \in 0 .. Faults
  BY <1>2, <1>5, FaultsAre
<1> DEFINE k == [Idle EXCEPT !.step = "collected", !.found = found, !.at = clock,
                             !.critical = critical]
<1>7. k \in PassRow /\ k.step = "collected" /\ k.found = found /\ k.critical = critical
  BY <1>4, IdleIs, ClockIs DEF PassRow, Stamps
<1>8. pass' = [pass EXCEPT ![r] = k]
  BY <1>2, <1>3
<1> HIDE DEF k
<1>9. ReadOK(k)
  BY <1>7 DEF ReadOK
<1> QED
  BY <1>1, <1>4, <1>6, <1>7, <1>8, <1>9, FaultsAre, AlertsAre, PassMoves DEF scan

LEMMA ReportFailureStep ==
  ASSUME EvidenceIInv, commandReportFailure
  PROVE  EvidenceIInv'
<1>1. PICK found : found = {"WATCHDOG_FAILED"} \cap WatchdogCodes
  OBVIOUS
<1>2. found \in SUBSET Codes /\ found \subseteq WatchdogCodes /\ Watchdog \in Reconcilers
  BY <1>1 DEF Codes, Reconcilers
<1> DEFINE k == [Idle EXCEPT !.step = "collected", !.at = clock, !.resolve = FALSE,
                             !.found = found, !.critical = found]
<1>3. /\ k \in PassRow /\ k.step = "collected" /\ k.found = found /\ k.critical = found
      /\ k.resolve = FALSE
  BY <1>2, IdleIs, ClockIs DEF PassRow, Stamps
<1>4. pass' = [pass EXCEPT ![Watchdog] = k]
  BY <1>1 DEF commandReportFailure
<1> HIDE DEF k
<1>5. ReadOK(k) /\ WatchOK(k)
  BY <1>2, <1>3 DEF ReadOK, WatchOK
<1>6. faults' \in 0 .. Faults
  BY FaultsAre DEF commandReportFailure
<1> QED
  BY <1>2, <1>3, <1>4, <1>5, <1>6, FaultsAre, AlertsAre, PassMoves DEF commandReportFailure

-----------------------------------------------------------------------------
(* The watchdog.                                                           *)

\* A set of natural numbers has a least element: induction without an operator.
LEMMA Least ==
    ASSUME NEW T, T \subseteq Nat, T # {}
    PROVE  \E n \in T : \A m \in T : n <= m
<1> DEFINE Less == {p \in Nat \X Nat : p[1] < p[2]}
<1>1. IsWellFoundedOn(Less, Nat)
  BY NatLessThanWellFounded DEF OpToRel
<1>2. PICK n \in T : \A m \in T : ~(<<m, n>> \in Less)
  <2> HIDE DEF Less
  <2> QED
    BY <1>1, WFMin, Zenon
<1>3. ASSUME NEW m \in T PROVE n <= m
  <2>1. m \in Nat /\ n \in Nat
    OBVIOUS
  <2>2. m < n => <<m, n>> \in Less
    BY <2>1
  <2> HIDE DEF Less
  <2> QED
    BY <1>2, <2>1, <2>2
<1> QED
  BY <1>3

\* The latest file is one of the files.
LEMMA LatestIs ==
  ASSUME EvidenceIInv
  PROVE  LatestFile = NoValue \/ (LatestFile \in Stamps /\ file[LatestFile] # "absent")
<1>1. ASSUME Files # {} PROVE \E n \in Files : \A m \in Files : m <= n
  <2> DEFINE T == {MaxTime - n : n \in Files}
  <2>1. Files \subseteq 0 .. MaxTime /\ MaxTime \in Nat
    BY AlertsAssumption DEF Files, Stamps
  <2>2. T \subseteq Nat /\ T # {}
    <3>1. \A n \in Files : MaxTime - n \in Nat
      BY <2>1
    <3> QED
      BY <1>1, <3>1
  <2>3. PICK least \in T : \A t \in T : least <= t
    BY <2>2, Least
  <2>4. PICK n \in Files : least = MaxTime - n
    OBVIOUS
  <2>5. ASSUME NEW m \in Files PROVE m <= n
    <3>1. MaxTime - m \in T
      OBVIOUS
    <3>2. MaxTime - n <= MaxTime - m
      BY <2>3, <2>4, <3>1
    <3>3. m \in Int /\ n \in Int /\ MaxTime \in Int
      BY <2>1
    <3> QED
      BY <3>2, <3>3
  <2> QED
    BY <2>5
<1>2. Files # {} => LatestFile \in Files
  <2>1. SUFFICES ASSUME Files # {} PROVE LatestFile \in Files
    OBVIOUS
  <2>2. LatestFile = CHOOSE n \in Files : \A m \in Files : m <= n
    BY <2>1 DEF LatestFile
  <2> QED
    BY <1>1, <2>1, <2>2
<1>3. Files = {} => LatestFile = NoValue
  BY DEF LatestFile
<1> QED
  BY <1>2, <1>3 DEF Files

LEMMA CollectSnapshotStep ==
  ASSUME EvidenceIInv, CollectSnapshot
  PROVE  EvidenceIInv'
<1>1. PICK latest, sealed : /\ latest = LatestFile
                            /\ sealed = (LatestFile /= NoValue => file[LatestFile] = "sealed")
  OBVIOUS
<1>2. /\ latest \in {NoValue} \cup Stamps /\ sealed \in BOOLEAN
      /\ latest # NoValue => latest \in Stamps /\ file[latest] # "absent"
      /\ latest # NoValue /\ sealed => file[latest] = "sealed"
  BY <1>1, LatestIs
<1> DEFINE s == [latest |-> latest, service |-> service, sealed |-> sealed]
<1>3. s \in Snapshot /\ s.latest = latest /\ s.sealed = sealed
  BY <1>2 DEF Snapshot, EvidenceIInv, EvidenceTypeOK
<1>4. pass' = [pass EXCEPT ![Watchdog] = [Idle EXCEPT !.step = "seen", !.at = clock, !.seen = s]]
  BY <1>1 DEF CollectSnapshot
<1> HIDE DEF s
<1> DEFINE k == [Idle EXCEPT !.step = "seen", !.at = clock, !.seen = s]
<1>5. /\ k \in PassRow /\ k.step = "seen" /\ k.found = {} /\ k.critical = {}
      /\ k.seen = s /\ k.resolve = TRUE
  BY <1>3, IdleIs, ClockIs DEF PassRow, Stamps
<1> HIDE DEF k
<1>6. latest # NoValue /\ sealed => SealedThen(latest)
  BY <1>2 DEF SealedThen, EvidenceIInv, JobOK
<1>7. ReadOK(k) /\ WatchOK(k)
  BY <1>3, <1>5, <1>6 DEF ReadOK, WatchOK
<1>8. Watchdog \in Reconcilers
  BY DEF Reconcilers
<1>9. pass' = [pass EXCEPT ![Watchdog] = k]
  BY <1>4 DEF k
<1> QED
  BY <1>5, <1>7, <1>8, <1>9, FaultsAre, AlertsAre, PassMoves DEF CollectSnapshot, backupVars

\* What is found nothing wrong with is there, sealed and fresh.
LEMMA NothingFound ==
  ASSUME NEW s \in Snapshot, NEW now \in Nat, NEW n, evaluateSnapshot(s, now, n) = {}
  PROVE  s.latest # NoValue /\ s.sealed /\ now < s.latest + StaleTicks
<1>1. ~ Stale(s, now, n)
  BY EvidenceAssumption DEF evaluateSnapshot
<1>2. s.latest # NoValue /\ ~ (now - s.latest >= StaleTicks)
  BY <1>1 DEF Stale
<1>3. s.sealed
  BY <1>2, EvidenceAssumption DEF evaluateSnapshot
<1>4. s.latest \in Nat /\ StaleTicks \in Nat
  BY <1>2, AlertsAssumption, EvidenceAssumption DEF Snapshot, Stamps
<1> QED
  BY <1>2, <1>3, <1>4

LEMMA ReconcileStep ==
  ASSUME EvidenceIInv, commandReconcile
  PROVE  EvidenceIInv'
<1>1. Watchdog \in Reconcilers
  BY DEF Reconcilers
<1>2. PICK p \in PassRow : p = pass[Watchdog] /\ p.step = "seen" /\ WatchOK(p)
  BY <1>1, PassIs DEF commandReconcile
<1>3. PICK n \in AnyNewest :
         pass' = [pass EXCEPT ![Watchdog].step = "collected",
                              ![Watchdog].found = evaluateSnapshot(p.seen, p.at, n),
                              ![Watchdog].critical = evaluateSnapshot(p.seen, p.at, n)]
  BY <1>2 DEF commandReconcile
<1>4. PICK found : found = evaluateSnapshot(p.seen, p.at, n)
  OBVIOUS
<1>5. found \subseteq WatchdogCodes /\ found \in SUBSET Codes
  BY <1>4 DEF evaluateSnapshot, Codes
<1> DEFINE k == [p EXCEPT !.step = "collected", !.found = found, !.critical = found]
<1>6. /\ k \in PassRow /\ k.step = "collected" /\ k.found = found /\ k.critical = found
      /\ k.seen = p.seen /\ k.at = p.at /\ k.resolve = p.resolve
  BY <1>5 DEF PassRow
<1>7. pass' = [pass EXCEPT ![Watchdog] = k]
  BY <1>1, <1>2, <1>3, <1>4 DEF EvidenceIInv
<1> HIDE DEF k
<1>8. p.at \in Nat
  BY AlertsAssumption DEF PassRow
<1>9. p.seen \in Snapshot /\ found = {} =>
         p.seen.latest # NoValue /\ p.seen.sealed /\ p.at < p.seen.latest + StaleTicks
  BY <1>4, <1>8, NothingFound
<1>10. ReadOK(k) /\ WatchOK(k)
  BY <1>2, <1>5, <1>6, <1>9 DEF ReadOK, WatchOK
<1> QED
  BY <1>1, <1>6, <1>7, <1>10, FaultsAre, AlertsAre, PassMoves DEF commandReconcile, backupVars

\* Every step of the operation of backups and alerts keeps the invariant.
LEMMA EvidenceIsKept == EvidenceIInv /\ EvidenceNext => EvidenceIInv'
<1> SUFFICES ASSUME EvidenceIInv, EvidenceNext PROVE EvidenceIInv'
  OBVIOUS
<1>1. CASE NextAlerts /\ UNCHANGED backupVars
  <2>1. ASSUME NEW r \in Reconcilers, ReadExisting(r) \/ CommitReconciliation(r) \/ FailScan(r)
        PROVE  EvidenceIInv'
    BY <1>1, <2>1, ReadExistingStep, CommitStep, FailScanStep
  <2>2. ASSUME NEW c \in Codes, acknowledge(c) \/ silence(c) PROVE EvidenceIInv'
    BY <1>1, <2>2, AcknowledgeStep, SilenceStep
  <2>3. ASSUME NEW u \in Readers, markAllRead(u) \/ \E c \in Codes : markRead(u, c)
        PROVE  EvidenceIInv'
    BY <1>1, <2>3, MarkStep
  <2> QED
    BY <1>1, <2>1, <2>2, <2>3 DEF NextAlerts
<1>2. CASE StartBackup \/ PublishFile \/ SealFile
  BY <1>2, StartBackupStep, PublishFileStep, SealFileStep
<1>3. CASE reconcileBackup \/ FinishBackup \/ CrashBackup
  BY <1>3, ReconcileBackupStep, FinishBackupStep, CrashBackupStep
<1>4. ASSUME NEW n \in Stamps, NEW r \in Manual, createBackup(n, r) \/ updateBackup(n, r)
      PROVE  EvidenceIInv'
  BY <1>4, EnterStep
<1>5. ASSUME NEW r \in Scanners, scan(r) PROVE EvidenceIInv'
  BY <1>5, ScanStep
<1>6. CASE CollectSnapshot \/ commandReconcile \/ commandReportFailure
  BY <1>6, CollectSnapshotStep, ReconcileStep, ReportFailureStep
<1>7. ASSUME NEW f \in WatchedFacts, ChangeWorld(f) PROVE EvidenceIInv'
  BY <1>7, ChangeWorldStep
<1> QED
  BY <1>1, <1>2, <1>3, <1>4, <1>5, <1>6, <1>7, TickStep DEF EvidenceNext

\* A step of another program leaves it alone.
LEMMA EvidenceStays == EvidenceIInv /\ UNCHANGED evidenceVars => EvidenceIInv'
<1> SUFFICES ASSUME EvidenceIInv, UNCHANGED evidenceVars PROVE EvidenceIInv'
  OBVIOUS
<1>1. UNCHANGED <<clock, alert, unread, pass, edits, file, record, job, service, world, faults>>
  BY DEF evidenceVars, alertVars, backupVars
<1>2. EvidenceTypeOK'
  BY <1>1 DEF EvidenceIInv, EvidenceTypeOK, TypeOKAlerts
<1>3. JobOK'
  BY <1>1 DEF EvidenceIInv, JobOK
<1> QED
  BY <1>1, <1>2, <1>3, ReadersStay DEF EvidenceIInv

-----------------------------------------------------------------------------
(* What the steps of backups and alerts do.                                *)

\* Retention deletes only what is older than the backup that it ends.
LEMMA SomeRemains ==
  ASSUME EvidenceIInv, EvidenceNext, NEW n \in Stamps, file[n] = "sealed"
  PROVE  \E m \in Stamps : file'[m] = "sealed"
<1>1. CASE PublishFile
  BY <1>1, JobIs DEF PublishFile, EvidenceIInv, JobOK
<1>2. CASE SealFile
  BY <1>2, JobIs DEF SealFile
<1>3. CASE FinishBackup
  <2>1. file[job.stamp] = "sealed" /\ job.stamp = clock /\ job.stamp \in Stamps
    BY <1>3, JobIs DEF FinishBackup, EvidenceIInv, JobOK
  <2>2. ~ Expired(job.stamp)
    BY <2>1, ClockIs, EvidenceAssumption DEF Expired
  <2> QED
    BY <1>3, <2>1, <2>2 DEF FinishBackup
<1>4. PublishFile \/ SealFile \/ FinishBackup \/ UNCHANGED file
  BY DEF EvidenceNext, StartBackup, reconcileBackup, CrashBackup, createBackup, updateBackup, scan,
         CollectSnapshot, commandReconcile, commandReportFailure, ChangeWorld, Tick, backupVars
<1> QED
  BY <1>1, <1>2, <1>3, <1>4

\* A reconciliation that leaves its last step without an error has committed.
LEMMA CommittedIs ==
  ASSUME EvidenceIInv, EvidenceNext, NEW r \in Reconcilers, Commits(r)
  PROVE  CommitReconciliation(r) /\ UNCHANGED backupVars
<1>1. pass \in [Reconcilers -> PassRow] /\ pass[r].step = "read" /\ pass'[r].step = "idle"
      /\ edits' = edits /\ Watchdog \in Reconcilers /\ Scanners \subseteq Reconcilers
  BY DEF EvidenceIInv, Commits, Reconcilers
<1>2. UNCHANGED pass => FALSE
  BY <1>1
<1>3. ASSUME NEW q \in Reconcilers, NEW k, pass' = [pass EXCEPT ![q] = k], k.step # "idle"
      PROVE  FALSE
  BY <1>1, <1>3
<1>4. ASSUME NEW q \in Reconcilers, ReadExisting(q) PROVE FALSE
  <2>1. pass'[q].step = "read" /\ \A x \in Reconcilers : x # q => pass'[x] = pass[x]
    BY <1>1, <1>4 DEF ReadExisting, PassRow
  <2> QED
    BY <1>1, <2>1
<1>5. ASSUME NEW q \in Reconcilers, FailScan(q) PROVE FALSE
  BY <1>1, <1>5, FaultsAre DEF FailScan
<1>6. ASSUME NEW q \in Reconcilers, CommitReconciliation(q) PROVE q = r
  <2>1. \A x \in Reconcilers : x # q => pass'[x] = pass[x]
    BY <1>1, <1>6 DEF CommitReconciliation
  <2> QED
    BY <1>1, <2>1
<1>7. ~ CollectSnapshot
  <2>1. SUFFICES ASSUME CollectSnapshot PROVE FALSE
    OBVIOUS
  <2>2. PICK s : pass' = [pass EXCEPT ![Watchdog] = [Idle EXCEPT !.step = "seen", !.at = clock, !.seen = s]]
    BY <2>1 DEF CollectSnapshot
  <2>3. [Idle EXCEPT !.step = "seen", !.at = clock, !.seen = s].step = "seen"
    BY IdleIs DEF PassRow
  <2> QED
    BY <1>1, <1>3, <2>2, <2>3
<1>8. ~ commandReconcile
  <2>1. SUFFICES ASSUME commandReconcile PROVE FALSE
    OBVIOUS
  <2>2. PICK found : pass' = [pass EXCEPT ![Watchdog].step = "collected", ![Watchdog].found = found,
                                          ![Watchdog].critical = found]
    BY <2>1 DEF commandReconcile
  <2>3. pass'[Watchdog].step = "collected" /\ \A x \in Reconcilers : x # Watchdog => pass'[x] = pass[x]
    BY <1>1, <2>2 DEF PassRow
  <2> QED
    BY <1>1, <2>3
<1>9. ~ commandReportFailure
  <2>1. SUFFICES ASSUME commandReportFailure PROVE FALSE
    OBVIOUS
  <2>2. PICK found : pass' = [pass EXCEPT ![Watchdog] =
                        [Idle EXCEPT !.step = "collected", !.at = clock, !.resolve = FALSE,
                                     !.found = found, !.critical = found]]
    BY <2>1 DEF commandReportFailure
  <2>3. [Idle EXCEPT !.step = "collected", !.at = clock, !.resolve = FALSE,
                     !.found = found, !.critical = found].step = "collected"
    BY IdleIs DEF PassRow
  <2> QED
    BY <1>1, <1>3, <2>2, <2>3
<1>10. ASSUME NEW q \in Scanners, scan(q) PROVE FALSE
  <2>1. PICK found, critical :
           pass' = [pass EXCEPT ![q] = [Idle EXCEPT !.step = "collected", !.found = found,
                                                    !.at = clock, !.critical = critical]]
    BY <1>10 DEF scan
  <2>2. [Idle EXCEPT !.step = "collected", !.found = found, !.at = clock,
                     !.critical = critical].step = "collected"
    BY IdleIs DEF PassRow
  <2>3. q \in Reconcilers
    BY <1>1
  <2> QED
    BY <1>1, <1>3, <2>1, <2>2, <2>3
<1>11. NextAlerts /\ UNCHANGED backupVars
  BY <1>2, <1>7, <1>8, <1>9, <1>10
  DEF EvidenceNext, StartBackup, PublishFile, SealFile, reconcileBackup, FinishBackup, CrashBackup,
      createBackup, updateBackup, ChangeWorld, Tick, alertVars
<1> QED
  BY <1>2, <1>4, <1>5, <1>6, <1>11 DEF NextAlerts, acknowledge, silence, markAllRead, markRead

\* A watchdog with nothing open found nothing, so it saw a file that was fresh and sealed.
LEMMA QuietIs ==
  ASSUME EvidenceIInv, CommitReconciliation(Watchdog), pass[Watchdog].resolve,
         \A c \in WatchdogCodes : ~ IsOpen(c)'
  PROVE  LET s == pass[Watchdog].seen
         IN  /\ s.latest /= NoValue
             /\ file[s.latest] /= "published"
             /\ pass[Watchdog].at < s.latest + StaleTicks
<1>1. Watchdog \in Reconcilers /\ WatchdogCodes \subseteq Codes
  BY DEF Reconcilers, Codes
<1>2. pass[Watchdog] \in PassRow /\ WatchOK(pass[Watchdog]) /\ pass[Watchdog].step = "read"
  BY <1>1, PassIs DEF CommitReconciliation
<1>3. pass[Watchdog].found = {}
  <2>1. SUFFICES ASSUME NEW c \in pass[Watchdog].found PROVE FALSE
    OBVIOUS
  <2>2. c \in WatchdogCodes /\ c \in Codes
    BY <1>1, <1>2, <2>1 DEF WatchOK
  <2>3. alert'[c] = Found(c, pass[Watchdog])
    BY <2>1, <2>2 DEF CommitReconciliation, Reconciled
  <2>4. IsOpen(c)'
    BY <1>1, <2>2, <2>3, FoundIs DEF IsOpen, Open
  <2> QED
    BY <2>2, <2>4
<1> QED
  BY <1>2, <1>3 DEF WatchOK, SealedThen

LEMMA Announces ==
  ASSUME EvidenceIInv, NEW r \in Reconcilers, CommitReconciliation(r)
  PROVE  OccurrencesAreAnnounced(r)
<1> SUFFICES ASSUME NEW c \in Codes, ~ IsOpen(c), IsOpen(c)',
                    c \in pass[r].found => pass[r].existing[c] = alert[c]
             PROVE  unread'[c] = Readers
  BY DEF OccurrencesAreAnnounced
<1>1. alert'[c] = Reconciled(r, c) /\ unread'[c] = IF Announced(r, c) THEN Readers ELSE unread[c]
  BY DEF CommitReconciliation
<1>2. c \in pass[r].found
  BY <1>1 DEF Reconciled, IsOpen, Open
<1>3. alert[c] # NoValue => alert[c].status = "resolved"
  <2>1. alert[c] # NoValue => alert[c].status \in {"active", "silenced", "resolved"}
    BY AlertsAre DEF Row
  <2> QED
    BY <2>1 DEF IsOpen, Open
<1> QED
  BY <1>1, <1>2, <1>3 DEF Announced

LEMMA KeepsSilence ==
  ASSUME EvidenceIInv, NEW r \in Reconcilers, CommitReconciliation(r)
  PROVE  SilenceIsKept(r)
<1> SUFFICES ASSUME NEW c \in Codes, c \in pass[r].found => pass[r].existing[c] = alert[c],
                    KeepSilenced(alert[c], pass[r].at)
             PROVE  alert'[c].status # "active" /\ alert'[c].until = alert[c].until
  BY DEF SilenceIsKept
<1>1. alert'[c] = Reconciled(r, c)
  BY DEF CommitReconciliation
<1>2. alert[c] # NoValue /\ alert[c].status = "silenced" /\ alert[c] \in Row
  BY AlertsAre DEF KeepSilenced
<1>3. CASE c \in pass[r].found
  <2>1. Reconciled(r, c) = Found(c, pass[r]) /\ KeepSilenced(pass[r].existing[c], pass[r].at)
    BY <1>3 DEF Reconciled
  <2>2. Found(c, pass[r]).status = "silenced" /\ Found(c, pass[r]).until = alert[c].until
    BY <1>2, <2>1 DEF Found
  <2> QED
    BY <1>1, <2>1, <2>2
<1>4. CASE c \notin pass[r].found
  <2>1. Reconciled(r, c) \in {[alert[c] EXCEPT !.status = "resolved"], alert[c]}
    BY <1>4 DEF Reconciled
  <2>2. /\ [alert[c] EXCEPT !.status = "resolved"].status = "resolved"
        /\ [alert[c] EXCEPT !.status = "resolved"].until = alert[c].until
    BY <1>2 DEF Row
  <2> QED
    BY <1>1, <1>2, <2>1, <2>2
<1> QED
  BY <1>3, <1>4

LEMMA KeepsToIt ==
  ASSUME EvidenceIInv, NEW r \in Reconcilers, CommitReconciliation(r)
  PROVE  KeepsToItsSource(r)
<1> SUFFICES ASSUME r = Watchdog
             PROVE  /\ \A c \in ScanCodes : alert'[c] = alert[c]
                    /\ ~ pass[r].resolve => \A c \in WatchdogCodes : IsOpen(c) => IsOpen(c)'
  BY DEF KeepsToItsSource
<1>1. WatchOK(pass[r]) /\ Scope(r) = WatchdogCodes
  BY PassIs DEF Scope
<1>2. ASSUME NEW c \in ScanCodes PROVE alert'[c] = alert[c]
  <2>1. c \in Codes /\ c \notin WatchdogCodes
    BY AlertsAssumption DEF Codes
  <2> QED
    BY <1>1, <2>1 DEF WatchOK, Reconciled, CommitReconciliation
<1>3. ASSUME ~ pass[r].resolve, NEW c \in WatchdogCodes, IsOpen(c) PROVE IsOpen(c)'
  <2>1. c \in Codes
    BY DEF Codes
  <2>2. alert'[c] = Reconciled(r, c)
    BY <2>1 DEF CommitReconciliation
  <2>3. CASE c \in pass[r].found
    BY <2>1, <2>2, <2>3, FoundIs DEF Reconciled, IsOpen, Open
  <2>4. CASE c \notin pass[r].found
    BY <1>3, <2>2, <2>4 DEF Reconciled, IsOpen, Open
  <2> QED
    BY <2>3, <2>4
<1> QED
  BY <1>2, <1>3

-----------------------------------------------------------------------------
(* The theorems.                                                           *)

OperationsIInv == FilesIInv /\ PreflightIInv /\ EvidenceIInv

LEMMA PreflightStays == PreflightIInv /\ UNCHANGED preflightVars => PreflightIInv'
  BY DEF preflightVars, PreflightIInv, PreflightTypeOK

LEMMA OperationsInvariance == OperationsSpec => []OperationsIInv
<1>1. OperationsInit => OperationsIInv
  BY FilesInitially, PreflightInitially, EvidenceInitially DEF OperationsInit, OperationsIInv
<1>2. OperationsIInv /\ [OperationsNext]_operationsVars => OperationsIInv'
  <2> SUFFICES ASSUME OperationsIInv, [OperationsNext]_operationsVars PROVE OperationsIInv'
    OBVIOUS
  <2>1. FilesNext \/ UNCHANGED fileVars
    BY DEF OperationsNext, RolloutStep, PreflightStep, FilesStep, EvidenceStep, operationsVars
  <2>2. PreflightNext \/ UNCHANGED preflightVars
    BY DEF OperationsNext, RolloutStep, PreflightStep, FilesStep, EvidenceStep, operationsVars
  <2>3. EvidenceNext \/ UNCHANGED evidenceVars
    BY DEF OperationsNext, RolloutStep, PreflightStep, FilesStep, EvidenceStep, operationsVars
  <2> QED
    BY <2>1, <2>2, <2>3, FilesAreKept, FilesKept, PreflightIsKept, PreflightStays, EvidenceIsKept,
       EvidenceStays DEF OperationsIInv
<1> QED
  BY <1>1, <1>2, PTL DEF OperationsSpec

\* However many runs of the tool meet and wherever they stop, what has the name of the output
\* is whole; and the evidence of the preflight and of the backups has its type.
THEOREM FilesAndEvidenceAreSound == OperationsSpec => []FilesAndEvidenceInv
<1>1. OperationsIInv => FilesAndEvidenceInv
  BY FilesImplied DEF OperationsIInv, FilesAndEvidenceInv, PreflightIInv, EvidenceIInv
<1> QED
  BY <1>1, OperationsInvariance, PTL

\* A key that is in its place is never replaced, whoever else makes one.
THEOREM KeysAreKept == OperationsSpec => KeyIsKept
<1>1. [OperationsNext]_operationsVars => [keyFile # NoFile => keyFile' = keyFile]_fileVars
  BY KeyStays DEF OperationsNext, RolloutStep, PreflightStep, FilesStep, EvidenceStep, operationsVars
<1> QED
  BY <1>1, PTL DEF OperationsSpec, KeyIsKept

\* A preflight writes that a release may go only when all of its evidence is its own and passes.
THEOREM PreflightPassesAreEarned == OperationsSpec => PreflightPassIsEarned
<1>1. OperationsIInv /\ [OperationsNext]_operationsVars =>
         [files'["release"] /= files["release"] /\ files'["release"] = "pass"
            => written = Evidence /\ \A name \in Evidence : files[name] = "pass"]_preflightVars
  BY PassIsEarned DEF OperationsIInv, OperationsNext, RolloutStep, PreflightStep, FilesStep,
                      EvidenceStep, operationsVars
<1> QED
  BY <1>1, OperationsInvariance, PTL DEF OperationsSpec, PreflightPassIsEarned

\* A reconciliation announces what it opens, keeps a silence and minds its own source.
THEOREM AlertsAreAnnounced == OperationsSpec => AlertsReachReaders
<1>1. OperationsIInv /\ EvidenceNext =>
         \A r \in Reconcilers : Commits(r) =>
            OccurrencesAreAnnounced(r) /\ SilenceIsKept(r) /\ KeepsToItsSource(r)
  BY CommittedIs, Announces, KeepsSilence, KeepsToIt DEF OperationsIInv
<1>2. [OperationsNext]_operationsVars => [EvidenceNext]_alertVars
  BY DEF OperationsNext, RolloutStep, PreflightStep, FilesStep, EvidenceStep, operationsVars,
         evidenceVars
<1>3. OperationsIInv /\ [OperationsNext]_operationsVars =>
         [\A r \in Reconcilers : Commits(r) =>
            OccurrencesAreAnnounced(r) /\ SilenceIsKept(r) /\ KeepsToItsSource(r)]_alertVars
  BY <1>1, <1>2
<1> QED
  BY <1>3, OperationsInvariance, PTL DEF OperationsSpec, AlertsReachReaders

\* Once there is a backup there always is one, and silence of the watchdog means so.
THEOREM SomeBackupStays == OperationsSpec => BackupsRemain
<1>1. OperationsIInv /\ EvidenceNext => SomeBackupRemains
  BY SomeRemains DEF OperationsIInv, SomeBackupRemains
<1>2. OperationsIInv /\ EvidenceNext => QuietWatchdogMeansBackups
  <2>1. Watchdog \in Reconcilers
    BY DEF Reconcilers
  <2> QED
    BY <2>1, CommittedIs, QuietIs DEF OperationsIInv, QuietWatchdogMeansBackups
<1>3. [OperationsNext]_operationsVars => [EvidenceNext]_evidenceVars
  BY DEF OperationsNext, RolloutStep, PreflightStep, FilesStep, EvidenceStep, operationsVars
<1>4. OperationsIInv /\ [OperationsNext]_operationsVars =>
         [SomeBackupRemains /\ QuietWatchdogMeansBackups]_evidenceVars
  BY <1>1, <1>2, <1>3
<1> QED
  BY <1>4, OperationsInvariance, PTL DEF OperationsSpec, BackupsRemain
=============================================================================
