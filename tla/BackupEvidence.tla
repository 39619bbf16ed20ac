---------------------------- MODULE BackupEvidence ----------------------------
(***************************************************************************)
(* The daily backup of the database, the evidence of it that the API keeps *)
(* and the watchdog that compares the two.                                 *)
(*                                                                         *)
(* The backup job dumps, publishes the file, seals it with a checksum,     *)
(* records it through the database helper and only then deletes expired    *)
(* files.  Its process may stop between any two of these.  Administrators  *)
(* enter and change records by hand.  The watchdog takes a snapshot of the *)
(* host, then reads the records and reports what does not agree; the scan  *)
(* of the API reports from the records alone.                              *)
(*                                                                         *)
(* A backup is named by the tick it started at.  One tick is half a day.   *)
(***************************************************************************)
EXTENDS AlertCenter, SystemHealth

CONSTANTS
    StaleTicks,      \* the watchdog's 36 hours
    WarningTicks,    \* the API warns of a success more than one whole day old
    CriticalTicks,   \* and finds it critical when more than three are over
    RetentionTicks,  \* how long a file is kept
    Faults,          \* bound: crashes and failures
    WatchedFacts     \* bound: the facts of the world that change

Stamps == 0 .. MaxTime

VARIABLES
    file,     \* per backup: "absent", "published" or "sealed"
    record,   \* per backup: NoValue, or its row of backup_records
    job,      \* the run of the backup script
    service,  \* the result systemd keeps of the last run
    world,    \* the facts that system health finds
    faults

backupVars == <<file, record, job, service, world, faults>>

evidenceVars == <<alertVars, backupVars>>

NoJob == [step |-> "idle", stamp |-> 0]

Record == [status : {"running", "succeeded", "failed"}, true : BOOLEAN,
           completed : Stamps \cup {NoValue}]

ASSUME EvidenceAssumption ==
    /\ {StaleTicks, WarningTicks, CriticalTicks, RetentionTicks, Faults} \subseteq Nat
    /\ {"STALE_OVER_36H", "CHECKSUM_INVALID"} \subseteq WatchdogCodes
    /\ NoValue \notin Record

(* What the recorder writes for a sealed file; "true" says that the type,  *)
(* the key, the size and the checksum are those of the file.               *)
MatchingRecord(n) == [status |-> "succeeded", true |-> TRUE, completed |-> n]

-----------------------------------------------------------------------------
(* The backup script.  A lock keeps it single; a name that exists ends it. *)

StartBackup ==
    /\ job.step = "idle"
    /\ file[clock] = "absent"
    /\ job' = [step |-> "dumping", stamp |-> clock]
    /\ UNCHANGED <<alertVars, file, record, service, world, faults>>

\* variant: the expired files go before the new one is complete
PublishFileAlone ==
    /\ job.step = "dumping"
    /\ file' = [n \in Stamps |-> IF n < clock THEN "absent" ELSE IF n = job.stamp
                                 THEN "published" ELSE file[n]]
    /\ job' = [job EXCEPT !.step = "published"]
    /\ UNCHANGED <<alertVars, record, service, world, faults>>

PublishFile ==
    /\ job.step = "dumping"
    /\ file' = [file EXCEPT ![job.stamp] = "published"]
    /\ job' = [job EXCEPT !.step = "published"]
    /\ UNCHANGED <<alertVars, record, service, world, faults>>

SealFile ==
    /\ job.step = "published"
    /\ file' = [file EXCEPT ![job.stamp] = "sealed"]
    /\ job' = [job EXCEPT !.step = "sealed"]
    /\ UNCHANGED <<alertVars, record, service, world, faults>>

(* The recorder creates the row, or finds it: one that says the same is no *)
(* change, one that says anything else is a conflict and fails the run.    *)
Conflict(n) == record[n] /= NoValue /\ record[n] /= MatchingRecord(n)

(* The recorder accepts only a file whose checksum it can verify.          *)
Recordable(n) == file[n] = "sealed"

reconcileBackup ==
    /\ job.step = "sealed"
    /\ Recordable(job.stamp)
    /\ IF Conflict(job.stamp)
       THEN /\ job' = NoJob
            /\ service' = "failed"
            /\ UNCHANGED record
       ELSE /\ record' = [record EXCEPT ![job.stamp] =
                             IF @ = NoValue THEN MatchingRecord(job.stamp) ELSE @]
            /\ job' = [job EXCEPT !.step = "recorded"]
            /\ UNCHANGED service
    /\ UNCHANGED <<alertVars, file, world, faults>>

Expired(n) == n + RetentionTicks < clock

FinishBackup ==
    /\ job.step = "recorded"
    /\ file' = [n \in Stamps |-> IF Expired(n) THEN "absent" ELSE file[n]]
    /\ job' = NoJob
    /\ service' = "success"
    /\ UNCHANGED <<alertVars, record, world, faults>>

(* The run fails or its process stops; what it has made stays.             *)
CrashBackup ==
    /\ job.step /= "idle"
    /\ faults < Faults
    /\ faults' = faults + 1
    /\ job' = NoJob
    /\ service' = "failed"
    /\ UNCHANGED <<alertVars, file, record, world>>

-----------------------------------------------------------------------------
(* Administrators enter and change records by hand.                        *)

createBackup(n, r) ==
    /\ record[n] = NoValue
    /\ n <= clock
    /\ Edit
    /\ record' = [record EXCEPT ![n] = r]
    /\ UNCHANGED <<clock, alert, unread, pass, file, job, service, world, faults>>

updateBackup(n, r) ==
    /\ record[n] /= NoValue
    /\ Edit
    /\ record' = [record EXCEPT ![n] = r]
    /\ UNCHANGED <<clock, alert, unread, pass, file, job, service, world, faults>>

-----------------------------------------------------------------------------
(* What the records say.                                                   *)

Recorded == {n \in Stamps : record[n] /= NoValue}

Succeeded == {n \in Recorded : record[n].status = "succeeded"}

When(n) == IF record[n].completed = NoValue THEN n ELSE record[n].completed

(* The newest success: the query orders by the completion in descending    *)
(* order, and the database puts the rows without one first.                *)
Newest ==
    IF \E n \in Succeeded : record[n].completed = NoValue
    THEN {n \in Succeeded : record[n].completed = NoValue}
    ELSE {n \in Succeeded :
             \A m \in Succeeded : record[m].completed <= record[n].completed}

LatestFailed ==
    /\ Recorded /= {}
    /\ \E n \in Recorded : /\ record[n].status = "failed"
                           /\ \A m \in Recorded : m <= n

SuccessAge(n) == clock - When(n)

(* The findings of the health of the backups, as the scan collects them.   *)
BackupHealth(n) ==
    (IF Succeeded = {} THEN {"no_successful_backup"} ELSE {})
    \cup (IF Succeeded /= {} /\ SuccessAge(n) >= WarningTicks
          THEN {"success_too_old"} ELSE {})
    \cup (IF LatestFailed THEN {"latest_failed"} ELSE {})

CriticalFinding(c, n) ==
    \/ c \in {"no_successful_backup", "latest_failed", "critical_alert"} \cup CriticalCodes
    \/ c = "success_too_old" /\ SuccessAge(n) >= CriticalTicks

(* System health finds an open critical alert of the backups critical in   *)
(* its turn.                                                               *)
DataProtection ==
    IF \E c \in ScanCodes \ {"critical_alert"} : IsOpen(c) /\ alert[c].critical
    THEN {"critical_alert"} ELSE {}

(* What the scan reports, of the codes this instance follows; failing are  *)
(* the sections whose queries fail.                                        *)
buildCandidates(n, failing) ==
    ScanCodes \cap (BackupHealth(n) \cup DataProtection
                      \cup getSystemHealth(world, failing)
                      \cup credentialCandidates(world)
                      \cup syncTaskCandidates(world))

AnyNewest == IF Newest = {} THEN {0} ELSE Newest

(* The scan queries its sections at the same time; its findings are those  *)
(* of one moment.                                                          *)
scan(r) ==
    /\ r \in Scanners
    /\ pass[r].step = "idle"
    /\ ScanIsPossible(world)
    /\ \E n \in AnyNewest, failing \in {{}} \cup {{s} : s \in Sections} :
          LET found == buildCandidates(n, failing)
          IN  /\ faults' = faults + Cardinality(failing)
              /\ faults' <= Faults
              /\ pass' = [pass EXCEPT ![r] =
                 [Idle EXCEPT !.step = "collected", !.found = found, !.at = clock,
                              !.critical = {c \in found : CriticalFinding(c, n)}]]
    /\ UNCHANGED <<clock, alert, unread, edits, file, record, job, service, world>>

-----------------------------------------------------------------------------
(* The watchdog.                                                           *)

Files == {n \in Stamps : file[n] /= "absent"}

LatestFile == IF Files = {} THEN NoValue
              ELSE CHOOSE n \in Files : \A m \in Files : m <= n

CollectSnapshot ==
    /\ pass[Watchdog].step = "idle"
    /\ pass' = [pass EXCEPT ![Watchdog] =
          [Idle EXCEPT !.step = "seen", !.at = clock,
             !.seen = [latest |-> LatestFile, service |-> service,
                       sealed |-> LatestFile /= NoValue => file[LatestFile] = "sealed"]]]
    /\ UNCHANGED <<clock, alert, unread, edits, backupVars>>

Stale(s, now, n) ==
    \/ s.latest = NoValue
    \/ s.latest /= NoValue => now - s.latest >= StaleTicks
    \/ Succeeded = {}
    \/ Succeeded /= {} => now >= When(n) + StaleTicks

recordMatches(n) == record[n].status = "succeeded" /\ record[n].true

(* What a snapshot and the records read after it do not agree on.          *)
evaluateSnapshot(s, now, n) ==
    WatchdogCodes \cap
       ((IF s.service = "failed" THEN {"SERVICE_FAILED"} ELSE {})
        \cup (IF Stale(s, now, n) THEN {"STALE_OVER_36H"} ELSE {})
        \cup (IF s.latest = NoValue THEN {"FILE_MISSING"} ELSE {})
        \cup (IF s.latest /= NoValue /\ ~s.sealed THEN {"CHECKSUM_INVALID"} ELSE {})
        \cup (IF s.latest = NoValue THEN {}
              ELSE IF record[s.latest] = NoValue THEN {"RECORD_MISSING"}
              ELSE IF recordMatches(s.latest) THEN {} ELSE {"RECORD_MISMATCH"})
        \cup (IF LatestFailed \/ Succeeded = {} THEN {"HEALTH_CRITICAL"} ELSE {}))

commandReconcile ==
    /\ pass[Watchdog].step = "seen"
    /\ \E n \in AnyNewest :
          LET found == evaluateSnapshot(pass[Watchdog].seen, pass[Watchdog].at, n)
          IN  pass' = [pass EXCEPT ![Watchdog].step = "collected",
                                   ![Watchdog].found = found,
                                   ![Watchdog].critical = found]
    /\ UNCHANGED <<clock, alert, unread, edits, backupVars>>

(* A run of the watchdog that fails is reported by systemd: one finding,   *)
(* and nothing is closed.                                                  *)
commandReportFailure ==
    /\ pass[Watchdog].step /= "idle"
    /\ faults < Faults
    /\ faults' = faults + 1
    /\ pass' = [pass EXCEPT ![Watchdog] =
          [Idle EXCEPT !.step = "collected", !.at = clock, !.resolve = FALSE,
             !.found = {"WATCHDOG_FAILED"} \cap WatchdogCodes,
             !.critical = {"WATCHDOG_FAILED"} \cap WatchdogCodes]]
    /\ UNCHANGED <<clock, alert, unread, edits, file, record, job, service, world>>

(* A fact appears or goes.                                                 *)
ChangeWorld(f) ==
    /\ Edit
    /\ world' = IF f \in world THEN world \ {f} ELSE world \cup {f}
    /\ UNCHANGED <<clock, alert, unread, pass, file, record, job, service, faults>>

(* A backup takes minutes: it ends within the half day it started in.      *)
Tick ==
    /\ clock < MaxTime
    /\ job.step = "idle"
    /\ clock' = clock + 1
    /\ UNCHANGED <<alert, unread, pass, edits, backupVars>>

Manual == [status : {"failed"}, true : {FALSE}, completed : {NoValue}]
            \cup [status : {"succeeded"}, true : {FALSE}, completed : {NoValue}]

EvidenceInit ==
    /\ InitAlerts
    /\ file = [n \in Stamps |-> IF n = 0 THEN "sealed" ELSE "absent"]
    /\ record = [n \in Stamps |-> IF n = 0 THEN MatchingRecord(0) ELSE NoValue]
    /\ job = NoJob
    /\ service = "success"
    /\ world = {}
    /\ faults = 0

WatchdogStep ==
    \/ CollectSnapshot
    \/ commandReconcile
    \/ (ReadExisting(Watchdog) \/ CommitReconciliation(Watchdog)) /\ UNCHANGED backupVars

EvidenceNext ==
    \/ NextAlerts /\ UNCHANGED backupVars
    \/ StartBackup \/ PublishFile \/ SealFile \/ reconcileBackup \/ FinishBackup
    \/ CrashBackup
    \/ \E n \in Stamps, r \in Manual : createBackup(n, r) \/ updateBackup(n, r)
    \/ \E r \in Scanners : scan(r)
    \/ CollectSnapshot \/ commandReconcile \/ commandReportFailure
    \/ \E f \in WatchedFacts : ChangeWorld(f)
    \/ Tick

(* The timer starts the watchdog every day and systemd lets it run.        *)
EvidenceFairness == WF_evidenceVars(WatchdogStep)

EvidenceSpec == EvidenceInit /\ [][EvidenceNext]_evidenceVars /\ EvidenceFairness

-----------------------------------------------------------------------------
EvidenceTypeOK ==
    /\ TypeOKAlerts
    /\ file \in [Stamps -> {"absent", "published", "sealed"}]
    /\ record \in [Stamps -> {NoValue} \cup Record]
    /\ job.step \in {"idle", "dumping", "published", "sealed", "recorded"}
    /\ service \in {"success", "failed"}
    /\ world \subseteq WatchedFacts
    /\ faults \in 0 .. Faults

(* A watchdog that ends with nothing open saw a backup file that is fresh  *)
(* and sealed, whatever the records were made to say meanwhile.            *)
QuietWatchdogMeansBackups ==
    /\ Commits(Watchdog) /\ pass[Watchdog].resolve
    /\ \A c \in WatchdogCodes : ~IsOpen(c)'
    => LET s == pass[Watchdog].seen
       IN  /\ s.latest /= NoValue
           /\ file[s.latest] /= "published"
           /\ pass[Watchdog].at < s.latest + StaleTicks

(* Once a backup was sealed there is always one: retention runs after the  *)
(* new file is sealed and recorded, however many runs crash before.        *)
SomeBackupRemains ==
    (\E n \in Stamps : file[n] = "sealed") => (\E n \in Stamps : file'[n] = "sealed")

(* There is a backup, and silence about backups means that there is.       *)
BackupsRemain == [][SomeBackupRemains /\ QuietWatchdogMeansBackups]_evidenceVars

(* Backups that stay too old, in the file or in the record, are always     *)
(* reported again, whatever the scans close and the administrators silence. *)
TooOld ==
    \/ Files = {} \/ Succeeded = {}
    \/ \A n \in Files : clock - n >= StaleTicks
    \/ Succeeded /= {} => \A n \in Newest : clock >= When(n) + StaleTicks

StaleBackupsAreReported ==
    <>[]TooOld => []<>IsOpen("STALE_OVER_36H")
=============================================================================
