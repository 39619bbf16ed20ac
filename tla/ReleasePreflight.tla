------------------------- MODULE ReleasePreflight --------------------------
(***************************************************************************)
(* The release evidence commands: the preflight that runs the steps before *)
(* a release one after the other, the commands that run one of them alone, *)
(* and the report on the evidence files they leave.                        *)
(***************************************************************************)
EXTENDS ReleaseGate, Sequences

CONSTANT Situations   \* what release:check may find

ASSUME PreflightAssumption == Situations \subseteq Facts

VARIABLES step,       \* of the preflight; 0 when none runs
          failed,     \* some step of it failed
          written,    \* the evidence files that it wrote itself
          files,      \* the evidence files
          situation   \* what release:check finds

preflightVars == <<step, failed, written, files, situation>>

requiredSteps == <<"install", "migration", "environment", "tests", "build", "e2e", "audit",
                   "release_check">>
Evidence == {"migration", "environment", "e2e", "audit"}
Artifacts == Evidence \cup {"release", "report"}

PreflightInit == /\ step = 0 /\ failed = FALSE /\ written = {}
                 /\ files = [a \in Artifacts |-> "none"]
                 /\ situation \in Situations

Verdict(passed) == IF passed THEN "pass" ELSE "fail"

releaseCheck == ReleaseCheckPasses([situation EXCEPT !.migration = files["migration"],
                                        !.environment = files["environment"], !.e2e = files["e2e"]])

StartPreflight == /\ step = 0
                  /\ step' = 1 /\ failed' = FALSE /\ written' = {}
                  /\ UNCHANGED <<files, situation>>

\* variant: only commands are counted, not the steps the script runs itself
CommandOutcome(name, passed) == failed \/ (~passed /\ name \notin {"migration", "audit"})

(* A step that passed does not mend an earlier failure.                    *)
Outcome(name, passed) == failed \/ ~passed

(* After a failure no further step runs.  A step of the environment or of  *)
(* the permissions may fail before it writes its file.                     *)
RunStep ==
    /\ step \in 1..Len(requiredSteps)
    /\ LET name == requiredSteps[step] IN
       \E passed \in (IF name = "release_check" THEN {releaseCheck} ELSE BOOLEAN) :
       \E writes \in (IF name \notin Evidence THEN {FALSE}
                      ELSE IF name \in {"migration", "audit"} \/ passed THEN {TRUE} ELSE BOOLEAN) :
          /\ ~failed
          /\ failed' = Outcome(name, passed)
          /\ written' = IF writes THEN written \cup {name} ELSE written
          /\ files' = IF writes THEN [files EXCEPT ![name] = Verdict(passed)] ELSE files
    /\ step' = step + 1
    /\ UNCHANGED situation

SkipStep == /\ step \in 1..Len(requiredSteps) /\ failed
            /\ step' = step + 1
            /\ UNCHANGED <<failed, written, files, situation>>

FinishPreflight ==
    /\ step = Len(requiredSteps) + 1
    /\ files' = [files EXCEPT !["release"] = Verdict(~failed)]
    /\ step' = step + 1
    /\ UNCHANGED <<failed, written, situation>>

(* The report of the files that are there, whoever wrote them and when.    *)
writeReleaseReport ==
    files' = [files EXCEPT !["report"] =
        Verdict(files["release"] = "pass" /\ files["audit"] = "pass" /\ releaseCheck)]

ReportPreflight == /\ step = Len(requiredSteps) + 2
                   /\ writeReleaseReport
                   /\ step' = 0
                   /\ UNCHANGED <<failed, written, situation>>

(* The commands that run one step, and the report, by themselves.          *)
RunAlone == /\ step = 0
            /\ \/ \E name \in {"migration", "audit"}, passed \in BOOLEAN :
                     files' = [files EXCEPT ![name] = Verdict(passed)]
               \/ writeReleaseReport
            /\ UNCHANGED <<step, failed, written, situation>>

Interrupt == /\ step /= 0
             /\ step' = 0
             /\ UNCHANGED <<failed, written, files, situation>>

SituationChanges == /\ situation' \in Situations
                    /\ UNCHANGED <<step, failed, written, files>>

PreflightNext == \/ StartPreflight \/ RunStep \/ SkipStep \/ FinishPreflight \/ ReportPreflight
                 \/ RunAlone \/ Interrupt \/ SituationChanges

(* The preflight has its type.                                             *)
PreflightTypeOK == /\ step \in 0..(Len(requiredSteps) + 2)
                   /\ failed \in BOOLEAN /\ written \subseteq Evidence
                   /\ files \in [Artifacts -> Verdicts]
                   /\ situation \in Situations

(* Evidence of a passing preflight is written only when each of the four   *)
(* evidence files was written by this same preflight and passed: neither a *)
(* file of an earlier one nor a later step that passes hides a failure.    *)
PreflightPassIsEarned ==
    [][files'["release"] /= files["release"] /\ files'["release"] = "pass"
        => written = Evidence /\ \A name \in Evidence : files[name] = "pass"]_preflightVars
=============================================================================
