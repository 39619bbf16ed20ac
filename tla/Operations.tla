------------------------------ MODULE Operations ------------------------------
(***************************************************************************)
(* What is operated around the program: the rollout, the preflight of a    *)
(* release, the tool that seals backups, and the backup job with its       *)
(* evidence, its watchdog and the alerts.  They are programs of their own  *)
(* that share no file of those modelled, and their steps interleave.       *)
(***************************************************************************)
EXTENDS ProductionRollout, ReleasePreflight, BackupFile, BackupEvidence

operationsVars == <<vars, preflightVars, fileVars, evidenceVars>>

OperationsInit == Init /\ PreflightInit /\ FilesInit /\ EvidenceInit

RolloutStep == Next /\ UNCHANGED <<preflightVars, fileVars, evidenceVars>>
PreflightStep == PreflightNext /\ UNCHANGED <<vars, fileVars, evidenceVars>>
FilesStep == FilesNext /\ UNCHANGED <<vars, preflightVars, evidenceVars>>
EvidenceStep == EvidenceNext /\ UNCHANGED <<vars, preflightVars, fileVars>>

OperationsNext == RolloutStep \/ PreflightStep \/ FilesStep \/ EvidenceStep

OperationsSpec == OperationsInit /\ [][OperationsNext]_operationsVars /\ EvidenceFairness
-----------------------------------------------------------------------------
\* What stands on disk or in the evidence tables is what it is taken for.
FilesAndEvidenceInv == FilesInv /\ EvidenceTypeOK /\ PreflightTypeOK
=============================================================================
