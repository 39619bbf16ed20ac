------------------------- MODULE ProductionRollout -------------------------
(***************************************************************************)
(* A production rollout: the script that replaces the release of the API   *)
(* and of the site, with its release gate, its backup and migration when   *)
(* the release brings one, and its rollback on error.                      *)
(*                                                                         *)
(* Releases are numbered in the order they are made.  Release 0 is the one *)
(* in production at first; the files of release r bring the migrations up  *)
(* to r and their scripts know the tags up to r.  Any command may fail, in *)
(* which case the trap on ERR runs; a killed script runs no trap.          *)
(***************************************************************************)
EXTENDS ReleaseGate

CONSTANTS Last, Migrating, Troubles, None

ASSUME RolloutAssumption == /\ Last \in Nat \ {0}
                            /\ Migrating \subseteq 1..Last
                            /\ Sound \in Troubles /\ Troubles \subseteq Facts

VARIABLES tag,        \* RELEASE_IMAGE_TAG of the environment file
          installed,  \* the release whose environment helper and gate are in use
          running,    \* the release the api and web containers run
          built,      \* releases with their directory and images
          database,   \* migrations applied, those left incomplete, and the newest backup
          evidence,   \* the evidence files of the gate
          facts,      \* what the gate finds besides
          rollout,    \* the script: its step, variables and copies for rollback
          result,     \* the result file
          lost        \* some step of a rollback failed

vars == <<tag, installed, running, built, database, evidence, facts, rollout, result, lost>>

Releases == 0..Last

(* The migrations in the directory of a release.                           *)
Migrations(r) == {m \in Migrating : m <= r}

Steps == {"validate", "baseline", "build", "backup", "precheck", "migrate", "postcheck",
          "save", "installHelper", "installGate", "writeTag", "deploy", "verify", "gate",
          "observe", "logs"}
Undoing == {"undoTag", "undoHelper", "undoGate", "undoServices"}
Outcomes == {"none", "empty", "success", "rolled_back", "before_change"}

Init == /\ tag = 0
        /\ installed = [helper |-> 0, gate |-> 0]
        /\ running = [api |-> 0, web |-> 0]
        /\ built = {0}
        /\ database = [applied |-> {}, incomplete |-> {}, backup |-> {}]
        /\ evidence = [environment |-> "none", migration |-> "none"]
        /\ facts \in Troubles
        /\ rollout = [step |-> "idle", release |-> 0, old |-> None,
                      saved |-> [helper |-> 0, gate |-> 0], operational |-> FALSE]
        /\ result = "none"
        /\ lost = FALSE

At(step) == rollout.step = step
Goto(step) == rollout' = [rollout EXCEPT !.step = step]

-----------------------------------------------------------------------------
(* The migration helper: the migrations of a release against the database. *)
Pending(r) == Migrations(r) \ (database.applied \cup database.incomplete)
Unexpected(r) == (database.applied \cup database.incomplete) \ Migrations(r)
MigrationStatus(r) ==
    IF Pending(r) = {} /\ Unexpected(r) = {} /\ database.incomplete = {} THEN "pass" ELSE "fail"

(* The environment helper knows the tags up to its own release.            *)
EnvironmentStatus ==
    IF tag <= installed.helper /\ facts.explicitFlags THEN "pass" ELSE "fail"

(* A helper whose container fails writes no file, and the old one stays.   *)
Collected(written) ==
    [environment |-> IF "environment" \in written THEN EnvironmentStatus ELSE evidence.environment,
     migration |-> IF "migration" \in written /\ facts.connected
                   THEN MigrationStatus(tag) ELSE evidence.migration]

CollectionPasses(written) ==
    /\ written = {"environment", "migration"}
    /\ facts.connected /\ EnvironmentStatus = "pass" /\ MigrationStatus(tag) = "pass"

GateKnows == tag <= installed.gate /\ tag \in built

GatePasses(written) ==
    /\ GateKnows
    /\ CollectionPasses(written)
    /\ ReleaseCheckPasses([facts EXCEPT !.environment = Collected(written).environment,
                                        !.migration = Collected(written).migration])

(* A gate that does not know the tag stops before it collects.             *)
Gate(written) == evidence' = IF GateKnows THEN Collected(written) ELSE evidence

-----------------------------------------------------------------------------
\* variant: the rollback forgets the tag
TrapWithoutTag(services) ==
    LET undo == services \/ rollout.operational IN
    /\ rollout' = [rollout EXCEPT !.step = IF undo THEN "undoHelper" ELSE "idle"]
    /\ result' = IF undo THEN result ELSE "before_change"

(* rollback_on_error, up to its first command: nothing is undone before an *)
(* operational file or a service was replaced.                             *)
Trap(services) ==
    LET undo == services \/ rollout.operational IN
    /\ rollout' = [rollout EXCEPT !.step = IF undo THEN "undoTag" ELSE "idle"]
    /\ result' = IF undo THEN result ELSE "before_change"

Start(r) ==
    /\ At("idle")
    /\ rollout' = [rollout EXCEPT !.step = "validate", !.release = r, !.old = None,
                                 !.operational = FALSE]
    /\ result' = "empty"
    /\ UNCHANGED <<tag, installed, running, built, database, evidence, facts, lost>>

(* The release in production must be one the script knows; a directory of  *)
(* the new one is moved away and unpacked again, unless it is in           *)
(* production; exactly the expected migration is new.                      *)
Validate ==
    /\ At("validate")
    /\ tag <= rollout.release /\ tag \in built
    /\ rollout.release \in built => tag /= rollout.release
    /\ Migrations(rollout.release) \ Migrations(tag) = {rollout.release} \cap Migrating
    /\ built' = built \ {rollout.release}
    /\ rollout' = [rollout EXCEPT !.step = "baseline", !.old = tag]
    /\ UNCHANGED <<tag, installed, running, database, evidence, facts, result, lost>>

(* The release gate before anything is changed.                            *)
Baseline ==
    /\ At("baseline")
    /\ \E written \in SUBSET {"environment", "migration"} :
          /\ Gate(written)
          /\ IF GatePasses(written) THEN Goto("build") /\ UNCHANGED result ELSE Trap(FALSE)
    /\ UNCHANGED <<tag, installed, running, built, database, facts, lost>>

Build ==
    /\ At("build")
    /\ built' = built \cup {rollout.release}
    /\ Goto(IF rollout.release \in Migrating THEN "backup" ELSE "save")
    /\ UNCHANGED <<tag, installed, running, database, evidence, facts, result, lost>>

Backup ==
    /\ At("backup")
    /\ database' = [database EXCEPT !.backup = database.applied]
    /\ Goto("precheck")
    /\ UNCHANGED <<tag, installed, running, built, evidence, facts, result, lost>>

Precheck ==
    /\ At("precheck")
    /\ facts.connected
    /\ Pending(rollout.release) = {rollout.release}
    /\ Unexpected(rollout.release) = {} /\ database.incomplete = {}
    /\ Goto("migrate")
    /\ UNCHANGED <<tag, installed, running, built, database, evidence, facts, result, lost>>

Migrate ==
    /\ At("migrate")
    /\ database' = [database EXCEPT !.applied = @ \cup {rollout.release}]
    /\ Goto("postcheck")
    /\ UNCHANGED <<tag, installed, running, built, evidence, facts, result, lost>>

(* The deployment of the migration fails and leaves it incomplete.         *)
MigrationBreaks ==
    /\ At("migrate")
    /\ database' = [database EXCEPT !.incomplete = @ \cup {rollout.release}]
    /\ Trap(FALSE)
    /\ UNCHANGED <<tag, installed, running, built, evidence, facts, lost>>

Postcheck ==
    /\ At("postcheck")
    /\ facts.connected /\ MigrationStatus(rollout.release) = "pass"
    /\ Goto("save")
    /\ UNCHANGED <<tag, installed, running, built, database, evidence, facts, result, lost>>

Save ==
    /\ At("save")
    /\ rollout' = [rollout EXCEPT !.step = "installHelper", !.saved = installed]
    /\ UNCHANGED <<tag, installed, running, built, database, evidence, facts, result, lost>>

InstallHelper ==
    /\ At("installHelper")
    /\ installed' = [installed EXCEPT !.helper = rollout.release]
    /\ Goto("installGate")
    /\ UNCHANGED <<tag, running, built, database, evidence, facts, result, lost>>

(* operational_files_changed is set only here, after both were replaced.   *)
InstallGate ==
    /\ At("installGate")
    /\ installed' = [installed EXCEPT !.gate = rollout.release]
    /\ rollout' = [rollout EXCEPT !.step = "writeTag", !.operational = TRUE]
    /\ UNCHANGED <<tag, running, built, database, evidence, facts, result, lost>>

WriteTag ==
    /\ At("writeTag")
    /\ tag' = rollout.release
    /\ Goto("deploy")
    /\ UNCHANGED <<installed, running, built, database, evidence, facts, result, lost>>

(* What runs once the containers in up were replaced.                      *)
Replaced(up) == [api |-> IF "api" \in up THEN rollout.release ELSE running.api,
                 web |-> IF "web" \in up THEN rollout.release ELSE running.web]

(* Compose comes to its end, with a container it left as it was or not.    *)
Deploy ==
    /\ At("deploy")
    /\ \E up \in SUBSET {"api", "web"} : running' = Replaced(up)
    /\ Goto("verify")
    /\ UNCHANGED <<tag, installed, built, database, evidence, facts, result, lost>>

(* The api container is replaced and the web container is not.             *)
DeployPartly ==
    /\ At("deploy")
    /\ running' = Replaced({"api"})
    /\ Trap(FALSE)
    /\ UNCHANGED <<tag, installed, built, database, evidence, facts, lost>>

(* Both containers run the images that were built, and automatic execution *)
(* is off.                                                                 *)
Verify ==
    /\ At("verify")
    /\ running = [api |-> rollout.release, web |-> rollout.release]
    /\ facts.connected /\ (rollout.release \in Migrating => ~facts.autoEnabled)
    /\ Goto("gate")
    /\ UNCHANGED <<tag, installed, running, built, database, evidence, facts, result, lost>>

GateAfter ==
    /\ At("gate")
    /\ \E written \in SUBSET {"environment", "migration"} :
          /\ Gate(written)
          /\ IF GatePasses(written) THEN Goto("observe") /\ UNCHANGED result ELSE Trap(TRUE)
    /\ UNCHANGED <<tag, installed, running, built, database, facts, lost>>

Observe ==
    /\ At("observe")
    /\ Goto("logs")
    /\ UNCHANGED <<tag, installed, running, built, database, evidence, facts, result, lost>>

ScanLogs ==
    /\ At("logs")
    /\ Goto("idle")
    /\ result' = "success"
    /\ UNCHANGED <<tag, installed, running, built, database, evidence, facts, lost>>

(* The scan finds an error and the script exits without its trap: nothing  *)
(* is rolled back and the result stays empty.                              *)
ScanFails ==
    /\ At("logs")
    /\ Goto("idle")
    /\ UNCHANGED <<tag, installed, running, built, database, evidence, facts, result, lost>>

(* A command of the step fails and changes nothing.                        *)
CommandFails ==
    /\ rollout.step \in Steps \ {"baseline", "gate", "logs"}
    /\ Trap(rollout.step \in {"verify", "observe"})
    /\ UNCHANGED <<tag, installed, running, built, database, evidence, facts, lost>>

-----------------------------------------------------------------------------
(* rollback_on_error: each of its commands may fail, and the next one runs *)
(* all the same.                                                           *)
UndoTag ==
    /\ At("undoTag")
    /\ \/ tag' = rollout.old /\ UNCHANGED lost
       \/ lost' = TRUE /\ UNCHANGED tag
    /\ Goto("undoHelper")
    /\ UNCHANGED <<installed, running, built, database, evidence, facts, result>>

UndoHelper ==
    /\ At("undoHelper")
    /\ \/ installed' = [installed EXCEPT !.helper = rollout.saved.helper] /\ UNCHANGED lost
       \/ lost' = TRUE /\ UNCHANGED installed
    /\ Goto("undoGate")
    /\ UNCHANGED <<tag, running, built, database, evidence, facts, result>>

UndoGate ==
    /\ At("undoGate")
    /\ \/ installed' = [installed EXCEPT !.gate = rollout.saved.gate] /\ UNCHANGED lost
       \/ lost' = TRUE /\ UNCHANGED installed
    /\ Goto("undoServices")
    /\ UNCHANGED <<tag, running, built, database, evidence, facts, result>>

UndoServices ==
    /\ At("undoServices")
    /\ \/ running' = [api |-> rollout.old, web |-> rollout.old] /\ UNCHANGED lost
       \/ lost' = TRUE /\ running' \in {running, [running EXCEPT !.api = rollout.old]}
    /\ Goto("idle")
    /\ result' = "rolled_back"
    /\ UNCHANGED <<tag, installed, built, database, evidence, facts>>

-----------------------------------------------------------------------------
(* The process is killed: no trap runs.                                    *)
Kill ==
    /\ ~At("idle")
    /\ Goto("idle")
    /\ UNCHANGED <<tag, installed, running, built, database, evidence, facts, result, lost>>

(* An operator runs the gate by hand.                                      *)
RunGate ==
    /\ At("idle")
    /\ \E written \in SUBSET {"environment", "migration"} : Gate(written)
    /\ UNCHANGED <<tag, installed, running, built, database, facts, rollout, result, lost>>

(* The evidence files grow too old to count.                               *)
Age ==
    /\ evidence' = [environment |-> "none", migration |-> "none"]
    /\ UNCHANGED <<tag, installed, running, built, database, facts, rollout, result, lost>>

(* What the gate finds changes.                                            *)
Change ==
    /\ facts' \in Troubles
    /\ UNCHANGED <<tag, installed, running, built, database, evidence, rollout, result, lost>>

Rollout == \/ \E r \in 1..Last : Start(r)
           \/ Validate \/ Baseline \/ Build \/ Backup \/ Precheck \/ Migrate
           \/ MigrationBreaks \/ Postcheck \/ Save \/ InstallHelper \/ InstallGate
           \/ WriteTag \/ Deploy \/ DeployPartly \/ Verify \/ GateAfter \/ Observe
           \/ ScanLogs \/ ScanFails \/ CommandFails
           \/ UndoTag \/ UndoHelper \/ UndoGate \/ UndoServices \/ Kill

Next == Rollout \/ RunGate \/ Age \/ Change

Spec == Init /\ [][Next]_vars

-----------------------------------------------------------------------------
(* The state of the server and of the script has its type.                 *)
TypeOK ==
    /\ tag \in Releases
    /\ installed \in [helper : Releases, gate : Releases]
    /\ running \in [api : Releases, web : Releases]
    /\ built \subseteq Releases
    /\ database \in [applied : SUBSET Migrating, incomplete : SUBSET Migrating,
                     backup : SUBSET Migrating]
    /\ evidence \in [environment : Verdicts, migration : Verdicts]
    /\ facts \in Troubles
    /\ rollout \in [step : {"idle"} \cup Steps \cup Undoing, release : Releases,
                    old : Releases \cup {None}, saved : [helper : Releases, gate : Releases],
                    operational : BOOLEAN]
    /\ result \in Outcomes
    /\ lost \in BOOLEAN

(* A rollout that reports success left one release everywhere: the tag,    *)
(* the installed scripts and both containers are of it, and the database   *)
(* holds exactly its migrations.                                           *)
SuccessIsComplete ==
    result = "success" =>
        /\ {tag, installed.helper, installed.gate, running.api, running.web} = {rollout.release}
        /\ database.applied = Migrations(rollout.release) /\ database.incomplete = {}

(* Whenever a script stops, killed in the middle of a rollback even, the   *)
(* gate and the helper that are installed know the tag that is set, or     *)
(* nobody could roll out again.                                            *)
GateKnowsTheRelease ==
    ~lost => tag <= installed.gate /\ tag <= installed.helper

(* No container runs code whose migrations are not in the database, during *)
(* a rollout, after a rollback and after a stop.                           *)
CodeHasItsSchema ==
    Migrations(running.api) \cup Migrations(running.web) \subseteq database.applied

(* The newest backup holds the schema from before the newest migration.    *)
BackupPrecedesMigration ==
    database'.applied \cup database'.incomplete /= database.applied \cup database.incomplete
        => database.backup = database.applied

(* From the build on, the release to fall back to is another one, it is    *)
(* built, and the database serves it.                                      *)
FallbackIsRunnable ==
    rollout.step \in (Steps \ {"validate"}) \cup Undoing =>
        /\ rollout.old /= rollout.release /\ rollout.old \in built
        /\ Migrations(rollout.old) \subseteq database.applied

(* A rollout that failed left the tag it found, whether it says that it    *)
(* changed nothing or that it rolled back, and after a rollback none of    *)
(* whose commands failed both containers run the old release again.        *)
FailureLeavesTheOldRelease ==
    ~lost /\ rollout.old /= None =>
        /\ result = "before_change" => tag = rollout.old
        /\ result = "rolled_back" => {tag, running.api, running.web} = {rollout.old}

(* A rollout builds and migrates only on a database that is exactly as the *)
(* release in production left it: no evidence of an earlier run of the     *)
(* gate stands in for that.                                                *)
BaselineIsCurrent ==
    rollout.step \in {"build", "backup", "precheck"} =>
        database.applied = Migrations(rollout.old) /\ database.incomplete = {}

Blocking(f) == \/ ~f.connected \/ f.criticalAlerts \/ ~f.backup \/ ~f.drill \/ f.residue
               \/ ~f.superAdmins \/ ~f.autoConfig \/ f.systemHealth = "critical"

(* A release goes on past its gate only when nothing that blocks a release *)
(* was there to be found.                                                  *)
NoTroublePassesTheGate ==
    (At("baseline") /\ rollout'.step = "build") \/ (At("gate") /\ rollout'.step = "observe")
        => ~Blocking(facts)

(* A rollout takes neither of its two irrevocable steps unprepared: it     *)
(* migrates behind a backup, and passes its gates without trouble.         *)
RolloutIsPrepared == [][BackupPrecedesMigration /\ NoTroublePassesTheGate]_vars

(* At every moment of a rollout, wherever it stops or is killed, there is  *)
(* a release that runs, that the installed scripts know and that can be    *)
(* fallen back to.                                                         *)
RolloutInv ==
    /\ TypeOK
    /\ SuccessIsComplete
    /\ GateKnowsTheRelease
    /\ CodeHasItsSchema
    /\ FallbackIsRunnable
    /\ FailureLeavesTheOldRelease
    /\ BaselineIsCurrent
=============================================================================
