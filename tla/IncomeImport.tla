---------------------------- MODULE IncomeImport ----------------------------
(***************************************************************************)
(* The monthly import of the revenue one affiliate account reports per SUB *)
(* value, from Everflow or from CAKE, and what it meets on its way: the    *)
(* versions of the SUB mappings, the calibration that opens its gate, the  *)
(* unmatched events administrators settle, and the adjustments of CAKE     *)
(* revenue they draft and confirm.                                         *)
(*                                                                         *)
(* An Everflow import writes row by row, one statement after another; a    *)
(* CAKE import reads, and then commits all it has to write in one step:    *)
(* nothing it wrote is seen before, and what others commit between its     *)
(* reads and its writes it does not see.                                   *)
(***************************************************************************)
EXTENDS Integers, FiniteSets

CONSTANTS
    Months,             \* months a mapping may be effective from
    ImportMonth,        \* the month that is imported
    Subs, Blank,        \* SUB values; rows without one
    Employees,
    Revenues,           \* amounts a report may show
    None,
    MaxEdits,           \* bound on mapping and employee edits
    MaxImports          \* bound on imports

Keys == Subs \cup {Blank}

Versions == [employee : Employees, status : {"active", "disabled"}]
IncomeRows == [employee : Employees, revenue : Revenues \ {0}]
Adjustments == [status : {"draft", "confirmed", "disabled"}, employee : Employees,
                base : Revenues, target : Revenues, usd : Int]

ASSUME ImportAssumption ==
    /\ Revenues \subseteq Int /\ 0 \in Revenues
    /\ Blank \notin Subs
    /\ MaxEdits \in Nat /\ MaxImports \in Nat

\* The outcomes of a row that are not employees.
ASSUME NobodyIsCalledSo == {"zero", "unmatched"} \cap Employees = {} /\ None \notin IncomeRows

VARIABLES
    platform,           \* of the account
    mapping,            \* sub_id_mappings: at most one per SUB and effective month
    active,             \* employees whose status is active
    locked,             \* the imported month is locked
    calibration,        \* newest calibration audited since it was updated
    calibrating,        \* a calibration is under way
    income,             \* income_records of the platform
    event,              \* status of the unmatched event of each row
    adjustment,         \* income_records of source cake_adjustment
    request,            \* adjustment request between its reads and its write
    overtaken,          \* SUBs whose adjustment was written from a base already replaced
    phase,              \* where the import is
    report, todo,       \* what it fetched, rows to come
    key, verdict, seen, \* row at hand, what the mappings and the event said
    imports, edits,     \* counters the bounds are on
    quiet               \* no mapping or employee was edited since the import began

settings == <<platform, mapping, active, locked, edits, quiet>>
gate == <<calibration, calibrating>>
rows == <<income, event, adjustment>>
progress == <<phase, report, todo, key, verdict, seen, imports>>
asked == <<request, overtaken>>
vars == <<settings, gate, rows, asked, progress>>

Init ==
    /\ platform \in {"everflow", "cake"}
    /\ mapping = [v \in Months \X Subs |-> None]
    /\ active = Employees
    /\ locked = FALSE
    /\ calibration = "none" /\ calibrating = FALSE
    /\ income = [s \in Subs |-> None]
    /\ event = [k \in Keys |-> "none"]
    /\ adjustment = [s \in Subs |-> None]
    /\ request = None /\ overtaken = {}
    /\ phase = "idle"
    /\ report = None /\ todo = {} /\ key = Blank
    /\ verdict = [k \in Keys |-> None] /\ seen = [k \in Keys |-> "none"]
    /\ imports = 0 /\ edits = 0 /\ quiet = FALSE

-----------------------------------------------------------------------------
(* SUB mappings and employees.                                             *)

\* The version of the latest effective month counts, be it disabled.
resolveEffectiveSubIdMappings(s, m) ==
    LET versions == {n \in Months : n <= m /\ mapping[<<n, s>>] # None}
    IN  IF versions = {} THEN None
        ELSE mapping[<<CHOOSE n \in versions : \A o \in versions : o <= n, s>>]

\* The employee a SUB belongs to, or None.
Usable(v) == v # None /\ v.status = "active" /\ v.employee \in active

WritableVersion(m) == m = ImportMonth => ~locked

EditMapping(m, s, version) ==
    /\ edits < MaxEdits
    /\ WritableVersion(m)
    /\ mapping' = [mapping EXCEPT ![<<m, s>>] = version]
    /\ edits' = edits + 1
    /\ quiet' = FALSE
    /\ UNCHANGED <<platform, active, locked, gate, rows, asked, progress>>

createMapping(m, s, e) ==
    mapping[<<m, s>>] = None /\ EditMapping(m, s, [employee |-> e, status |-> "active"])

updateMapping(m, s, e) ==
    mapping[<<m, s>>] # None /\ EditMapping(m, s, [employee |-> e, status |-> "active"])

disableMapping(m, s) ==
    /\ mapping[<<m, s>>] # None
    /\ EditMapping(m, s, [mapping[<<m, s>>] EXCEPT !.status = "disabled"])

ToggleEmployee(e) ==
    /\ edits < MaxEdits
    /\ active' = IF e \in active THEN active \ {e} ELSE active \cup {e}
    /\ edits' = edits + 1
    /\ quiet' = FALSE
    /\ UNCHANGED <<platform, mapping, locked, gate, rows, asked, progress>>

LockMonth ==
    /\ ~locked
    /\ locked' = TRUE
    /\ UNCHANGED <<platform, mapping, active, edits, quiet, gate, rows, asked, progress>>

-----------------------------------------------------------------------------
(* Credentials and calibration.                                            *)

UpdateCredential ==
    /\ edits < MaxEdits
    /\ calibration' = "none"
    /\ edits' = edits + 1
    /\ UNCHANGED <<platform, mapping, active, locked, quiet, calibrating, rows, asked, progress>>

StartCalibration ==
    /\ ~calibrating
    /\ calibrating' = TRUE
    /\ UNCHANGED <<settings, calibration, rows, asked, progress>>

\* What a calibration compares: both reports are complete, they agree in total,
\* and (CAKE) the amounts are in USD.
Evidence == [complete : BOOLEAN, equal : BOOLEAN, usd : BOOLEAN]
EverflowWriteGate(evidence) == evidence.complete /\ evidence.equal
CakeWriteGate(evidence) == evidence.complete /\ evidence.equal /\ evidence.usd

\* A calibration that opens no gate is audited as a mere reading.
FinishCalibration(evidence) ==
    LET pass == IF platform = "cake" THEN CakeWriteGate(evidence) ELSE EverflowWriteGate(evidence)
    IN  /\ calibrating
        /\ calibration' = IF pass THEN "pass" ELSE "mismatch"
        /\ calibrating' = FALSE
        /\ UNCHANGED <<settings, rows, asked, progress>>

\* The provider cannot be asked, or names no GMT+8 time zone: nothing is audited.
AbortCalibration ==
    /\ calibrating
    /\ calibrating' = FALSE
    /\ UNCHANGED <<settings, calibration, rows, asked, progress>>

-----------------------------------------------------------------------------
(* Adjustments of CAKE revenue.                                            *)

\* variant: the adjustment is left alone when the base row is removed
MarkStaleOnNewRevenueOnly(s, revenue, unavailable) ==
    LET a == adjustment[s] IN
    IF a = None \/ a.status = "disabled" \/ unavailable \/ a.base = revenue
    THEN a
    ELSE [a EXCEPT !.status = "draft", !.base = revenue, !.usd = a.target - revenue]

\* An adjustment whose base changed goes back to a draft (and is marked stale).
markAdjustmentStaleWhenBaseChanges(s, revenue, unavailable) ==
    LET a == adjustment[s] IN
    IF a = None \/ a.status = "disabled" \/ (~unavailable /\ a.base = revenue)
    THEN a
    ELSE [a EXCEPT !.status = "draft", !.base = revenue, !.usd = a.target - revenue]

\* The base row, the mapping and the employee an adjustment needs.
resolveInput(s, target) ==
    LET v == resolveEffectiveSubIdMappings(s, ImportMonth) IN
    /\ platform = "cake"
    /\ ~locked
    /\ Usable(v)
    /\ income[s] # None
    /\ income[s].employee = v.employee
    /\ target # income[s].revenue

Resolved(s, status, target) ==
    [sub |-> s, late |-> FALSE,
     to |-> [status |-> status, employee |-> income[s].employee, base |-> income[s].revenue,
             target |-> target, usd |-> target - income[s].revenue]]

\* What the list of adjustments offers for editing.
editable(s) ==
    LET v == resolveEffectiveSubIdMappings(s, ImportMonth)
        matched == v # None /\ v.status = "active"
        employeeMismatch == matched /\ income[s].employee # v.employee
    IN  /\ platform = "cake"
        /\ ~locked
        /\ income[s] # None
        /\ matched /\ ~employeeMismatch
        /\ v.employee \in active

saveDraft(s, target) ==
    /\ request = None
    /\ resolveInput(s, target)
    /\ adjustment[s] # None => adjustment[s].status # "confirmed"
    /\ request' = Resolved(s, "draft", target)
    /\ UNCHANGED <<settings, gate, rows, overtaken, progress>>

confirm(s) ==
    /\ request = None
    /\ adjustment[s] # None /\ adjustment[s].status = "draft"
    /\ resolveInput(s, adjustment[s].target)
    /\ request' = Resolved(s, "confirmed", adjustment[s].target)
    /\ UNCHANGED <<settings, gate, rows, overtaken, progress>>

\* Only the status column is written.
disable(s) ==
    /\ request = None
    /\ adjustment[s] # None /\ adjustment[s].status # "disabled"
    /\ ~locked
    /\ adjustment' = [adjustment EXCEPT ![s].status = "disabled"]
    /\ UNCHANGED <<settings, gate, income, event, asked, progress>>

WriteAdjustment ==
    /\ request # None
    /\ adjustment' = [adjustment EXCEPT ![request.sub] = request.to]
    /\ overtaken' = IF request.late THEN overtaken \cup {request.sub}
                    ELSE overtaken \ {request.sub}
    /\ request' = None
    /\ UNCHANGED <<settings, gate, income, event, progress>>

-----------------------------------------------------------------------------
(* Unmatched events, settled by administrators whatever their status.      *)

ignore(k) ==
    /\ event[k] # "none"
    /\ event' = [event EXCEPT ![k] = "ignored"]
    /\ UNCHANGED <<settings, gate, income, adjustment, asked, progress>>

resolve(k) ==
    /\ event[k] # "none"
    /\ event' = [event EXCEPT ![k] = "resolved"]
    /\ UNCHANGED <<settings, gate, income, adjustment, asked, progress>>

\* What is written of an event that was read as was.
recordUnmatchedEvent(k, was) == IF was \in {"none", "open"} THEN "open" ELSE event[k]

resolveAfterSuccessfulImport(k, was) == IF was = "open" THEN "resolved" ELSE event[k]

-----------------------------------------------------------------------------
(* The import.                                                             *)

\* Reports that are complete and in a confirmed time zone; None otherwise.
EverflowAnswers == {None} \cup UNION {[K -> Revenues] : K \in SUBSET Keys}
CakeAnswers == {None} \cup UNION {[K -> Revenues] : K \in SUBSET Keys}

\* The variables of the loop body go out of scope.
Forget ==
    /\ key' = Blank
    /\ verdict' = [k \in Keys |-> None]
    /\ seen' = [k \in Keys |-> "none"]

\* The task is executable and its month writable.
Begin ==
    /\ phase \in {"idle", "done", "failed"}
    /\ imports < MaxImports
    /\ ~locked
    /\ phase' = "gate"
    /\ imports' = imports + 1 /\ quiet' = TRUE
    /\ report' = None /\ todo' = {} /\ Forget
    /\ UNCHANGED <<platform, mapping, active, locked, edits, gate, rows, asked>>

hasCurrentCalibration ==
    /\ phase = "gate"
    /\ phase' = IF calibration = "pass" THEN "fetch" ELSE "failed"
    /\ UNCHANGED <<settings, gate, rows, asked, report, todo, key, verdict, seen, imports>>

Fetch ==
    /\ phase = "fetch"
    /\ \E answer \in IF platform = "cake" THEN CakeAnswers ELSE EverflowAnswers :
        IF answer = None
        THEN phase' = "failed" /\ UNCHANGED <<report, todo>>
        ELSE phase' = "rows" /\ report' = answer /\ todo' = DOMAIN answer
    /\ UNCHANGED <<settings, gate, rows, asked, key, verdict, seen, imports>>

\* What becomes of a row: nothing to pay, unmatched, or the employee it pays.
Verdict(k) ==
    IF report[k] = 0 THEN "zero"
    ELSE IF k = Blank THEN "unmatched"
    ELSE LET v == resolveEffectiveSubIdMappings(k, ImportMonth)
         IN  IF Usable(v) THEN v.employee ELSE "unmatched"

Pays(k) == verdict[k] \in Employees

\* variant: the row of an earlier import stays when its SUB is unmatched now
WriteIncomeNoDelete(K) ==
    income' = [s \in Subs |->
        IF s \notin K \/ verdict[s] = "unmatched" THEN income[s]
        ELSE IF Pays(s) THEN [employee |-> verdict[s], revenue |-> report[s]]
        ELSE None]

\* upsert by external record id, or deleteMany
WriteIncome(K) ==
    income' = [s \in Subs |->
        IF s \notin K THEN income[s]
        ELSE IF Pays(s) THEN [employee |-> verdict[s], revenue |-> report[s]]
        ELSE None]

WriteEvent(K) ==
    event' = [k \in Keys |->
        IF k \notin K \/ verdict[k] = "zero" THEN event[k]
        ELSE IF Pays(k) THEN resolveAfterSuccessfulImport(k, seen[k])
        ELSE recordUnmatchedEvent(k, seen[k])]

EverflowResolve(k) ==
    /\ phase = "rows" /\ platform = "everflow"
    /\ k \in todo
    /\ phase' = "income" /\ key' = k
    /\ verdict' = [verdict EXCEPT ![k] = Verdict(k)]
    /\ UNCHANGED <<settings, gate, rows, asked, report, todo, seen, imports>>

EverflowIncome ==
    /\ phase = "income"
    /\ WriteIncome({key})
    /\ phase' = IF verdict[key] = "zero" THEN "rows" ELSE "event"
    /\ IF verdict[key] = "zero"
       THEN todo' = todo \ {key} /\ Forget
       ELSE UNCHANGED <<todo, key, verdict, seen>>
    /\ UNCHANGED <<settings, gate, event, adjustment, asked, report, imports>>

EverflowReadEvent ==
    /\ phase = "event"
    /\ seen' = [seen EXCEPT ![key] = event[key]]
    /\ phase' = "eventWrite"
    /\ UNCHANGED <<settings, gate, rows, asked, report, todo, key, verdict, imports>>

EverflowWriteEvent ==
    /\ phase = "eventWrite"
    /\ WriteEvent({key})
    /\ phase' = "rows" /\ todo' = todo \ {key} /\ Forget
    /\ UNCHANGED <<settings, gate, income, adjustment, asked, report, imports>>

EverflowDone ==
    /\ phase = "rows" /\ platform = "everflow"
    /\ todo = {}
    /\ phase' = "done"
    /\ UNCHANGED <<settings, gate, rows, asked, report, todo, key, verdict, seen, imports>>

CakeRead ==
    /\ phase = "rows" /\ platform = "cake"
    /\ verdict' = [k \in Keys |-> IF k \in todo THEN Verdict(k) ELSE None]
    /\ seen' = event
    /\ phase' = "commit"
    /\ UNCHANGED <<settings, gate, rows, asked, report, todo, key, imports>>

CakeCommit ==
    /\ phase = "commit"
    /\ WriteIncome(todo)
    /\ WriteEvent(todo)
    /\ adjustment' = [s \in Subs |->
         IF s \in todo THEN markAdjustmentStaleWhenBaseChanges(s, report[s], ~Pays(s))
         ELSE adjustment[s]]
    /\ request' = IF request = None THEN None
                  ELSE [request EXCEPT !.late = @ \/ request.sub \in todo]
    /\ overtaken' = overtaken \ todo
    /\ phase' = "done" /\ todo' = {} /\ Forget
    /\ UNCHANGED <<settings, gate, report, imports>>

\* Something throws, or the process stops: a CAKE import has written nothing, an
\* Everflow import keeps what it wrote.
Fail ==
    /\ phase \notin {"idle", "done", "failed"}
    /\ phase' = "failed"
    /\ report' = None /\ todo' = {} /\ Forget
    /\ UNCHANGED <<settings, gate, rows, asked, imports>>

-----------------------------------------------------------------------------

Import ==
    \/ Begin \/ hasCurrentCalibration \/ Fetch
    \/ \E k \in Keys : EverflowResolve(k)
    \/ EverflowIncome \/ EverflowReadEvent \/ EverflowWriteEvent \/ EverflowDone
    \/ CakeRead \/ CakeCommit
    \/ Fail

SubIdMappings ==
    \E s \in Subs, m \in Months :
        \/ \E e \in Employees : createMapping(m, s, e) \/ updateMapping(m, s, e)
        \/ disableMapping(m, s)

UnmatchedEvents == \E k \in Keys : ignore(k) \/ resolve(k)

Administrate ==
    \/ SubIdMappings
    \/ UnmatchedEvents
    \/ \E e \in Employees : ToggleEmployee(e)
    \/ LockMonth
    \/ UpdateCredential
    \/ StartCalibration
    \/ \E evidence \in Evidence : FinishCalibration(evidence)
    \/ AbortCalibration

Adjust ==
    \/ \E s \in Subs :
        \/ \E target \in Revenues : saveDraft(s, target)
        \/ confirm(s)
        \/ disable(s)
    \/ WriteAdjustment

Next == Import \/ Administrate \/ Adjust

Spec == Init /\ [][Next]_vars

-----------------------------------------------------------------------------
(* Properties.                                                             *)

Phases == {"idle", "gate", "fetch", "rows", "income", "event", "eventWrite", "commit",
           "done", "failed"}
Statuses == {"none", "open", "ignored", "resolved"}

\* Type invariant; a row of income is never zero and an adjustment is what its
\* target is short of its base.
TypeOK ==
    /\ platform \in {"everflow", "cake"}
    /\ mapping \in [Months \X Subs -> Versions \cup {None}]
    /\ active \subseteq Employees
    /\ locked \in BOOLEAN
    /\ calibration \in {"none", "pass", "mismatch"}
    /\ calibrating \in BOOLEAN
    /\ income \in [Subs -> IncomeRows \cup {None}]
    /\ event \in [Keys -> Statuses]
    /\ \A s \in Subs : adjustment[s] # None =>
        /\ adjustment[s] \in Adjustments
        /\ adjustment[s].usd = adjustment[s].target - adjustment[s].base
    /\ phase \in Phases
    /\ todo \subseteq Keys
    /\ key \in Keys
    /\ verdict \in [Keys -> Employees \cup {"zero", "unmatched", None}]
    /\ seen \in [Keys -> Statuses]
    /\ imports \in 0 .. MaxImports
    /\ edits \in 0 .. MaxEdits
    /\ quiet \in BOOLEAN

Settled == phase = "done" /\ quiet

\* An import that completes while nobody edits mappings or employees leaves the
\* month's income exactly as the report and the mappings in force say, whatever
\* earlier imports, failed half-way or not, had left there.
CompletedImportMatchesMapping ==
    Settled => \A s \in Subs \cap DOMAIN report :
        LET v == resolveEffectiveSubIdMappings(s, ImportMonth) IN
        income[s] = IF report[s] # 0 /\ Usable(v)
                    THEN [employee |-> v.employee, revenue |-> report[s]]
                    ELSE None

\* No revenue of a completed report gets lost or is counted twice: it is income
\* and its event is not open any more, or there is an event for it.
RevenueIsAccounted ==
    phase = "done" => \A k \in DOMAIN report : report[k] # 0 =>
        IF k \in Subs /\ income[k] # None
        THEN income[k].revenue = report[k] /\ event[k] # "open"
        ELSE event[k] # "none"

\* The income of a SUB with a confirmed adjustment adds up to the target that was
\* confirmed, whatever imports do to its base: only an adjustment that was written
\* after an import replaced the base it had read is off, and no longer than to the
\* next import of the SUB.
ConfirmedReachesTarget ==
    \A s \in Subs \ overtaken : adjustment[s] # None /\ adjustment[s].status = "confirmed" =>
        /\ income[s] # None
        /\ income[s].revenue + adjustment[s].usd = adjustment[s].target

\* What the list of adjustments offers for editing is what a request to save one
\* would be granted.
ListOffersWhatIsAccepted ==
    \A s \in Subs : editable(s) <=> \E target \in Revenues : resolveInput(s, target)

\* What an import leaves behind: its rows, and the events for what it could not place.
IncomeInv == TypeOK /\ CompletedImportMatchesMapping /\ RevenueIsAccounted

\* What administrators make of the imported income afterwards.
AdjustmentInv == ConfirmedReachesTarget /\ ListOffersWhatIsAccepted
=============================================================================
