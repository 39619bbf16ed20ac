----------------------------- MODULE AlertCenter -----------------------------
(***************************************************************************)
(* Alerts and the notifications that announce them.                        *)
(*                                                                         *)
(* An alert is one row per fingerprint.  Two programs reconcile the table  *)
(* with what they find: the scan of the API, which looks at every row, and *)
(* the backup watchdog of the host, which looks at the rows of its own     *)
(* source.  Each first collects its findings, then reads and rewrites the  *)
(* rows in a transaction that runs at READ COMMITTED: between the read of  *)
(* a row and its rewriting another reconciliation or an administrator may  *)
(* change it.  What is found is given by the module that extends this one. *)
(***************************************************************************)
EXTENDS Naturals, FiniteSets

CONSTANTS
    ScanCodes,      \* fingerprints the scan of the API reports
    WatchdogCodes,  \* fingerprints of the source backup_watchdog
    Readers,        \* administrators who may read alerts
    Scanners,       \* scans of the API that may run at the same time
    Watchdog,       \* the one watchdog, which a lock file keeps single
    NoValue,
    MaxTime,        \* bound: ticks of the clock
    Edits           \* bound: administrator requests and outside changes

Codes == ScanCodes \cup WatchdogCodes

Reconcilers == Scanners \cup {Watchdog}

VARIABLES
    clock,
    alert,   \* per fingerprint: NoValue, or the row
    unread,  \* per fingerprint: the readers with an unread notification of it
    pass,    \* per reconciliation: how far it is and what it has read
    edits

alertVars == <<clock, alert, unread, pass, edits>>

Row == [status : {"active", "silenced", "resolved"}, until : 0 .. MaxTime + 1,
        critical : BOOLEAN, acknowledged : BOOLEAN]

ASSUME AlertsAssumption ==
    /\ ScanCodes \cap WatchdogCodes = {} /\ Watchdog \notin Scanners
    /\ MaxTime \in Nat /\ Edits \in Nat
    /\ NoValue \notin Row /\ NoValue \notin Nat

Idle == [step |-> "idle", found |-> {}, critical |-> {}, existing |-> <<>>,
         at |-> 0, resolve |-> TRUE, seen |-> NoValue]

Open(a) == a /= NoValue => a.status \in {"active", "silenced"}

IsOpen(c) == alert[c] /= NoValue /\ Open(alert[c])

(* The rows a reconciliation closes when it does not find them: the scan   *)
(* asks for every open row, the watchdog for those of its source.          *)
Scope(r) == IF r = Watchdog THEN WatchdogCodes ELSE Codes

(* A finding of a silenced alert leaves it silenced until its time is up.  *)
KeepSilenced(a, now) ==
    IF a = NoValue THEN FALSE ELSE a.status = "silenced" /\ a.until > now

\* variant: what is found is active, silenced or not
FoundActive(c, p) ==
    [status |-> "active", until |-> 0, critical |-> c \in p.critical, acknowledged |-> FALSE]

\* variant: a resolved row stays resolved
FoundOnce(c, p) ==
    [status |-> IF alert[c] = NoValue THEN "active" ELSE alert[c].status, until |-> 0,
     critical |-> c \in p.critical, acknowledged |-> FALSE]

Found(c, p) ==
    LET keep == KeepSilenced(p.existing[c], p.at)
    IN  [status |-> IF keep THEN "silenced" ELSE "active",
         until |-> IF keep /\ alert[c] /= NoValue THEN alert[c].until ELSE 0,
         critical |-> c \in p.critical,
         acknowledged |-> IF alert[c] = NoValue THEN FALSE ELSE alert[c].acknowledged]

Reconciled(r, c) ==
    LET p == pass[r]
    IN  IF c \in p.found THEN Found(c, p)
        ELSE IF p.resolve /\ c \in Scope(r) /\ IsOpen(c)
             THEN [alert[c] EXCEPT !.status = "resolved"]
             ELSE alert[c]

(* A finding is announced when its row was absent or resolved; a reader    *)
(* who still has an unread notification of it gets no other.               *)
Announced(r, c) ==
    /\ c \in pass[r].found
    /\ pass[r].existing[c] /= NoValue => pass[r].existing[c].status = "resolved"

ReadExisting(r) ==
    /\ pass[r].step = "collected"
    /\ pass' = [pass EXCEPT ![r].step = "read",
                             ![r].existing = [c \in pass[r].found |-> alert[c]]]
    /\ UNCHANGED <<clock, alert, unread, edits>>

CommitReconciliation(r) ==
    /\ pass[r].step = "read"
    /\ alert' = [c \in Codes |-> Reconciled(r, c)]
    /\ unread' = [c \in Codes |-> IF Announced(r, c) THEN Readers ELSE unread[c]]
    /\ pass' = [pass EXCEPT ![r] = Idle]
    /\ UNCHANGED <<clock, edits>>

(* A scan that fails rolls its transaction back: two that announce the     *)
(* same alert collide on the index of unread notifications.                *)
FailScan(r) ==
    /\ r \in Scanners
    /\ pass[r].step \in {"collected", "read"}
    /\ edits < Edits
    /\ edits' = edits + 1
    /\ pass' = [pass EXCEPT ![r] = Idle]
    /\ UNCHANGED <<clock, alert, unread>>

Edit ==
    /\ edits < Edits
    /\ edits' = edits + 1

acknowledge(c) ==
    /\ alert[c] /= NoValue
    /\ Edit
    /\ alert' = [alert EXCEPT ![c].acknowledged = TRUE]
    /\ UNCHANGED <<clock, unread, pass>>

(* A silence may be put on a row in any status, a resolved one included.   *)
silence(c) ==
    /\ alert[c] /= NoValue
    /\ Edit
    /\ \E until \in clock + 1 .. MaxTime + 1 :
          alert' = [alert EXCEPT ![c].status = "silenced", ![c].until = until]
    /\ UNCHANGED <<clock, unread, pass>>

markRead(u, c) ==
    /\ u \in unread[c]
    /\ Edit
    /\ unread' = [unread EXCEPT ![c] = @ \ {u}]
    /\ UNCHANGED <<clock, alert, pass>>

markAllRead(u) ==
    /\ \E c \in Codes : u \in unread[c]
    /\ Edit
    /\ unread' = [c \in Codes |-> unread[c] \ {u}]
    /\ UNCHANGED <<clock, alert, pass>>

InitAlerts ==
    /\ clock = 0
    /\ alert = [c \in Codes |-> NoValue]
    /\ unread = [c \in Codes |-> {}]
    /\ pass = [r \in Reconcilers |-> Idle]
    /\ edits = 0

NextAlerts ==
    \/ \E r \in Reconcilers :
          ReadExisting(r) \/ CommitReconciliation(r) \/ FailScan(r)
    \/ \E c \in Codes : acknowledge(c) \/ silence(c)
    \/ \E u \in Readers : markAllRead(u) \/ \E c \in Codes : markRead(u, c)

TypeOKAlerts ==
    /\ clock \in 0 .. MaxTime
    /\ alert \in [Codes -> {NoValue} \cup Row]
    /\ unread \in [Codes -> SUBSET Readers]
    /\ \A r \in Reconcilers :
          /\ pass[r].step \in {"idle", "seen", "collected", "read"}
          /\ pass[r].found \subseteq Codes
          /\ pass[r].critical \subseteq pass[r].found
    /\ edits \in 0 .. Edits

(***************************************************************************)
(* Properties.                                                             *)
(***************************************************************************)

Commits(r) == pass[r].step = "read" /\ pass'[r].step = "idle" /\ edits' = edits

(* An alert that opens is announced: after the reconciliation that opens   *)
(* an absent or resolved alert, every reader has an unread notification of *)
(* it, unless the row changed between the read and the write.              *)
OccurrencesAreAnnounced(r) ==
    \A c \in Codes :
        /\ ~IsOpen(c) /\ IsOpen(c)'
        /\ c \in pass[r].found => pass[r].existing[c] = alert[c]
        => unread'[c] = Readers

(* A silence lasts: no reconciliation that read a silenced row makes it    *)
(* active before its time, and what it does to the other rows of its scope *)
(* leaves it silenced or closes it.                                        *)
SilenceIsKept(r) ==
    \A c \in Codes :
        /\ c \in pass[r].found => pass[r].existing[c] = alert[c]
        /\ KeepSilenced(alert[c], pass[r].at)
        => alert'[c].status # "active" /\ alert'[c].until = alert[c].until

(* The watchdog minds its own alerts: it never touches the row of another  *)
(* source, and a failure it reports closes none of its own.                *)
KeepsToItsSource(r) ==
    r = Watchdog =>
        /\ \A c \in ScanCodes : alert'[c] = alert[c]
        /\ ~pass[r].resolve => \A c \in WatchdogCodes : IsOpen(c) => IsOpen(c)'

(* However scans, the watchdog and administrators overlap, a reconciliation *)
(* tells of what it opens, leaves silence alone, and minds its own source.  *)
AlertsReachReaders ==
    [][\A r \in Reconcilers : Commits(r) =>
          OccurrencesAreAnnounced(r) /\ SilenceIsKept(r) /\ KeepsToItsSource(r)]_alertVars
=============================================================================
