---------------------------- MODULE MCOperations ----------------------------
(* What is operated, each on a host of its own: rollouts of three          *)
(* releases, the first two of which bring a migration, with one trouble of *)
(* each kind that the gate, the collection or the verification stops at;   *)
(* the preflight; two runs of the tool that seals backups; or the backup   *)
(* job, its evidence and the alerts about them.                            *)
EXTENDS Operations

CONSTANTS s1, u1

VARIABLE host

MCTroubles == {Sound, [Sound EXCEPT !.criticalAlerts = TRUE],
               [Sound EXCEPT !.connected = FALSE], [Sound EXCEPT !.autoEnabled = TRUE]}

MCSituations == {Sound, [Sound EXCEPT !.residue = TRUE]}

MCScanners == {s1}
MCReaders == {u1}
MCScanCodes == {"latest_failed", "SYNC_AUTO_EXECUTION_EXPIRED_LEASES"}
MCWatchdogCodes == {"STALE_OVER_36H", "CHECKSUM_INVALID"}
MCFacts == {"leases_expired"}

MCInit == /\ host \in {"server", "ci", "backup", "watched"}
          /\ OperationsInit
          /\ host # "server" => facts = Sound
          /\ host # "ci" => situation = Sound

MCNext == /\ UNCHANGED host
          /\ \/ host = "server" /\ RolloutStep
             \/ host = "ci" /\ PreflightStep
             \/ host = "backup" /\ FilesStep
             \/ host = "watched" /\ EvidenceStep

\* Fairness of BackupEvidence, where backups are watched.
MCFairness == WF_evidenceVars(host = "watched" /\ WatchdogStep)

MCSpec == MCInit /\ [][MCNext]_<<host, operationsVars>> /\ MCFairness
=============================================================================
