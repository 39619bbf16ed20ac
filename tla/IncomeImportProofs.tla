------------------------- MODULE IncomeImportProofs -------------------------
(***************************************************************************)
(* What an import leaves of a report, and what the adjustments of CAKE     *)
(* revenue add up to, for any number of SUB values, months and employees   *)
(* and whatever administrators do in between.                              *)
(***************************************************************************)
EXTENDS IncomeImport, TLAPS

-----------------------------------------------------------------------------
(* The inductive invariant.                                                *)

InRow == {"income", "event", "eventWrite"}
WithReport == InRow \cup {"rows", "commit", "done"}

\* A CAKE import has written nothing before its commit; an Everflow import works on one
\* of the rows to come.
ReportOK ==
    /\ phase \in WithReport =>
        /\ DOMAIN report \subseteq Keys /\ report \in [DOMAIN report -> Revenues]
        /\ todo \subseteq DOMAIN report
    /\ phase = "done" => todo = {}
    /\ phase \in InRow => platform = "everflow" /\ key \in todo
    /\ phase = "commit" => platform = "cake"
    /\ phase \in {"rows", "commit"} /\ platform = "cake" => todo = DOMAIN report

\* What was decided of a row fits the report and, as long as nobody edits mappings or
\* employees, is what would be decided again.
Judged(k) ==
    /\ verdict[k] \in Employees \cup {"zero", "unmatched"}
    /\ verdict[k] = "zero" <=> report[k] = 0
    /\ k = Blank => verdict[k] \notin Employees
    /\ quiet => verdict[k] = Verdict(k)

RowOf(k) == IF Pays(k) THEN [employee |-> verdict[k], revenue |-> report[k]] ELSE None

\* Since the event was read, it may only have been settled.
EventRead(k) ==
    /\ event[k] = "open" => seen[k] = "open"
    /\ seen[k] \notin {"none", "open"} => event[k] # "none"

RowsInHand ==
    /\ phase \in InRow => Judged(key)
    /\ phase \in {"event", "eventWrite"} =>
        verdict[key] # "zero" /\ (key \in Subs => income[key] = RowOf(key))
    /\ phase = "eventWrite" => EventRead(key)
    /\ phase = "commit" => \A k \in todo : Judged(k) /\ EventRead(k)

MappedRow(s) ==
    LET v == resolveEffectiveSubIdMappings(s, ImportMonth) IN
    IF report[s] # 0 /\ Usable(v) THEN [employee |-> v.employee, revenue |-> report[s]] ELSE None

AsMapped(s) == income[s] = MappedRow(s)

Accounted(k) ==
    report[k] # 0 =>
        IF k \in Subs /\ income[k] # None
        THEN income[k].revenue = report[k] /\ event[k] # "open"
        ELSE event[k] # "none"

\* What the import is through with keeps what CompletedImportMatchesMapping and
\* RevenueIsAccounted say of a completed import.
RowsBehind ==
    phase \in WithReport => \A k \in DOMAIN report \ todo :
        Accounted(k) /\ (quiet /\ k \in Subs => AsMapped(k))

\* A request that no import overtook was resolved from the base there is.
RequestOK ==
    request # None =>
        /\ platform = "cake"
        /\ request \in [sub : Subs, late : BOOLEAN, to : Adjustments]
        /\ request.to.usd = request.to.target - request.to.base
        /\ ~request.late =>
            income[request.sub] # None /\ income[request.sub].revenue = request.to.base

AdjustmentsOK ==
    /\ adjustment = [s \in Subs |-> adjustment[s]]
    /\ platform = "everflow" => \A s \in Subs : adjustment[s] = None

IInv ==
    /\ TypeOK
    /\ ReportOK /\ RowsInHand /\ RowsBehind
    /\ AdjustmentsOK /\ RequestOK /\ ConfirmedReachesTarget

-----------------------------------------------------------------------------
(* What administrators do.                                                 *)

LEMMA ImportInit == Init => IInv
<1> SUFFICES ASSUME Init PROVE IInv
  OBVIOUS
<1>1. TypeOK
  <2>1. /\ platform \in {"everflow", "cake"} /\ active \subseteq Employees /\ locked \in BOOLEAN
        /\ calibration \in {"none", "pass", "mismatch"} /\ calibrating \in BOOLEAN
        /\ quiet \in BOOLEAN
    BY DEF Init
  <2>2. /\ mapping \in [Months \X Subs -> Versions \cup {None}]
        /\ income \in [Subs -> IncomeRows \cup {None}]
    BY DEF Init
  <2>3. \A s \in Subs : adjustment[s] = None
    BY DEF Init
  <2>4. /\ event \in [Keys -> Statuses] /\ seen \in [Keys -> Statuses]
        /\ verdict \in [Keys -> Employees \cup {"zero", "unmatched", None}]
    BY DEF Init, Statuses
  <2>5. /\ phase \in Phases /\ todo \subseteq Keys /\ key \in Keys
        /\ imports \in 0 .. MaxImports /\ edits \in 0 .. MaxEdits
    BY ImportAssumption DEF Init, Phases, Keys
  <2> QED
    BY <2>1, <2>2, <2>3, <2>4, <2>5 DEF TypeOK
<1>2. ReportOK /\ RowsInHand /\ RowsBehind
  BY DEF Init, ReportOK, RowsInHand, RowsBehind, WithReport, InRow
<1>3. AdjustmentsOK /\ RequestOK /\ ConfirmedReachesTarget
  BY DEF Init, AdjustmentsOK, RequestOK, ConfirmedReachesTarget
<1> QED
  BY <1>1, <1>2, <1>3 DEF IInv

\* Nobody but the import moves it on: a settled event stays one, and who edits mappings or
\* employees ends the quiet.
LEMMA ImportWaits ==
    ASSUME IInv, UNCHANGED <<platform, income, progress>>,
           quiet' => quiet /\ UNCHANGED <<mapping, active>>,
           \A k \in Keys : /\ event'[k] = "open" => event[k] = "open"
                           /\ event[k] # "none" => event'[k] # "none"
    PROVE  ReportOK' /\ RowsInHand' /\ RowsBehind'
<1>1. ReportOK'
  BY DEF IInv, ReportOK, progress
<1>2. quiet' => quiet /\ \A k : Verdict(k)' = Verdict(k)
  BY DEF Verdict, resolveEffectiveSubIdMappings, Usable, progress
<1>3. quiet' => \A s \in Subs : AsMapped(s) => AsMapped(s)'
  BY DEF AsMapped, MappedRow, resolveEffectiveSubIdMappings, Usable, progress
<1>4. \A k \in Keys : Judged(k) => Judged(k)'
  BY <1>2 DEF Judged, progress
<1>5. \A k \in Keys : EventRead(k) => EventRead(k)'
  BY DEF EventRead, progress
<1>6. \A k \in Keys : Accounted(k) => Accounted(k)'
  BY DEF Accounted, progress
<1>7. key \in Keys /\ todo \subseteq Keys
  BY DEF IInv, TypeOK
<1>8. RowsInHand'
  BY <1>4, <1>5, <1>7 DEF IInv, RowsInHand, RowOf, Pays, progress
<1>9. RowsBehind'
  BY <1>2, <1>3, <1>6 DEF IInv, ReportOK, RowsBehind, progress
<1> QED
  BY <1>1, <1>8, <1>9

LEMMA AdjustmentsWait ==
    ASSUME IInv, UNCHANGED <<platform, income, adjustment, request, overtaken>>
    PROVE  AdjustmentsOK' /\ RequestOK' /\ ConfirmedReachesTarget'
BY DEF IInv, AdjustmentsOK, RequestOK, ConfirmedReachesTarget

LEMMA SubIdMappingsKeep ==
    ASSUME IInv, NEW s \in Subs, NEW m \in Months,
           \/ \E e \in Employees : createMapping(m, s, e) \/ updateMapping(m, s, e)
           \/ disableMapping(m, s)
    PROVE  IInv'
<1>1. PICK version \in Versions : EditMapping(m, s, version)
  <2>1. CASE disableMapping(m, s)
    <3>1. [mapping[<<m, s>>] EXCEPT !.status = "disabled"] \in Versions
      BY <2>1 DEF disableMapping, IInv, TypeOK, Versions
    <3> QED
      BY <2>1, <3>1 DEF disableMapping
  <2>2. CASE \E e \in Employees : createMapping(m, s, e) \/ updateMapping(m, s, e)
    BY <2>2 DEF createMapping, updateMapping, Versions
  <2> QED
    BY <2>1, <2>2
<1>2. mapping' \in [Months \X Subs -> Versions \cup {None}]
  BY <1>1 DEF EditMapping, IInv, TypeOK
<1>3. edits' \in 0 .. MaxEdits
  BY <1>1, ImportAssumption DEF EditMapping, IInv, TypeOK
<1>4. TypeOK'
  BY <1>1, <1>2, <1>3 DEF EditMapping, IInv, TypeOK, gate, rows, progress
<1> QED
  BY <1>1, <1>4, ImportWaits, AdjustmentsWait DEF EditMapping, IInv, gate, rows, asked, progress

LEMMA EmployeesKeep ==
    ASSUME IInv, NEW e \in Employees, ToggleEmployee(e)
    PROVE  IInv'
<1>1. active' \subseteq Employees
  BY DEF ToggleEmployee, IInv, TypeOK
<1>2. edits' \in 0 .. MaxEdits
  BY ImportAssumption DEF ToggleEmployee, IInv, TypeOK
<1>3. TypeOK'
  BY <1>1, <1>2 DEF ToggleEmployee, IInv, TypeOK, gate, rows, progress
<1> QED
  BY <1>3, ImportWaits, AdjustmentsWait DEF ToggleEmployee, IInv, gate, rows, asked, progress

\* Locks, credentials and calibrations: what the import checks when it begins.
LEMMA GatesKeep ==
    ASSUME IInv,
           \/ LockMonth \/ UpdateCredential \/ StartCalibration \/ AbortCalibration
           \/ \E evidence \in Evidence : FinishCalibration(evidence)
    PROVE  IInv'
<1>1. /\ UNCHANGED <<platform, mapping, active, quiet, rows, asked, progress>>
      /\ locked' \in BOOLEAN
      /\ calibration' \in {"none", "pass", "mismatch"}
      /\ calibrating' \in BOOLEAN
  BY DEF LockMonth, UpdateCredential, StartCalibration, AbortCalibration, FinishCalibration,
         settings, gate, IInv, TypeOK
<1>2. edits' \in 0 .. MaxEdits
  BY ImportAssumption
  DEF LockMonth, UpdateCredential, StartCalibration, AbortCalibration, FinishCalibration,
      settings, IInv, TypeOK
<1>3. TypeOK'
  BY <1>1, <1>2 DEF IInv, TypeOK, rows, progress
<1> QED
  BY <1>1, <1>3, ImportWaits, AdjustmentsWait DEF IInv, rows, asked, progress

\* An event is settled from whatever status it has.
LEMMA UnmatchedEventsKeep ==
    ASSUME IInv, NEW k \in Keys, ignore(k) \/ resolve(k)
    PROVE  IInv'
<1>1. PICK status \in {"ignored", "resolved"} :
         /\ event[k] # "none"
         /\ event' = [event EXCEPT ![k] = status]
         /\ UNCHANGED <<settings, gate, income, adjustment, asked, progress>>
  BY DEF ignore, resolve
<1>2. event \in [Keys -> Statuses]
  BY DEF IInv, TypeOK
<1>3. event' \in [Keys -> Statuses]
  BY <1>1, <1>2 DEF Statuses
<1>4. TypeOK'
  BY <1>1, <1>3 DEF IInv, TypeOK, settings, gate, progress
<1> QED
  BY <1>1, <1>2, <1>4, ImportWaits, AdjustmentsWait DEF IInv, settings, asked, progress

-----------------------------------------------------------------------------
(* Adjustments.                                                            *)

LEMMA RequestsKeep ==
    ASSUME IInv, NEW s \in Subs,
           \/ \E target \in Revenues : saveDraft(s, target)
           \/ confirm(s)
    PROVE  IInv'
<1>1. PICK status \in {"draft", "confirmed"}, target \in Revenues :
         /\ resolveInput(s, target)
         /\ request' = Resolved(s, status, target)
         /\ UNCHANGED <<settings, gate, rows, overtaken, progress>>
  BY DEF saveDraft, confirm, IInv, TypeOK, Adjustments
<1>2. platform = "cake" /\ income[s] # None /\ income[s] \in IncomeRows
  BY <1>1 DEF resolveInput, IInv, TypeOK
<1>3. /\ income[s].employee \in Employees /\ income[s].revenue \in Revenues
      /\ target - income[s].revenue \in Int
  <2>1. income[s].employee \in Employees /\ income[s].revenue \in Revenues
    BY <1>2 DEF IncomeRows
  <2>2. income[s].revenue \in Int /\ target \in Int
    BY <2>1, ImportAssumption
  <2> QED
    BY <2>1, <2>2
<1>4. Resolved(s, status, target).to \in Adjustments
  BY <1>3 DEF Resolved, Adjustments
<1>5. RequestOK'
  BY <1>1, <1>2, <1>4 DEF RequestOK, Resolved, settings, rows
<1>6. TypeOK'
  BY <1>1 DEF IInv, TypeOK, settings, gate, rows, progress
<1>7. AdjustmentsOK' /\ ConfirmedReachesTarget'
  BY <1>1 DEF IInv, AdjustmentsOK, ConfirmedReachesTarget, settings, rows
<1> QED
  BY <1>1, <1>5, <1>6, <1>7, ImportWaits DEF IInv, settings, rows, progress

LEMMA DisableKeeps ==
    ASSUME IInv, NEW s \in Subs, disable(s)
    PROVE  IInv'
<1>1. /\ adjustment[s] # None
      /\ adjustment' = [adjustment EXCEPT ![s].status = "disabled"]
      /\ UNCHANGED <<settings, gate, income, event, asked, progress>>
  BY DEF disable
<1>2. /\ adjustment[s] \in Adjustments
      /\ adjustment[s].usd = adjustment[s].target - adjustment[s].base
      /\ adjustment = [t \in Subs |-> adjustment[t]]
      /\ platform # "everflow"
  BY <1>1 DEF IInv, TypeOK, AdjustmentsOK
<1>3. /\ adjustment'[s] \in Adjustments /\ adjustment'[s].status = "disabled"
      /\ adjustment'[s].usd = adjustment'[s].target - adjustment'[s].base
      /\ \A t \in Subs \ {s} : adjustment'[t] = adjustment[t]
      /\ adjustment' = [t \in Subs |-> adjustment'[t]]
  BY <1>1, <1>2 DEF Adjustments
<1>4. \A t \in Subs : adjustment'[t] # None =>
         /\ adjustment'[t] \in Adjustments
         /\ adjustment'[t].usd = adjustment'[t].target - adjustment'[t].base
  BY <1>3 DEF IInv, TypeOK
<1>5. TypeOK'
  BY <1>1, <1>4 DEF IInv, TypeOK, settings, gate, progress
<1>6. AdjustmentsOK' /\ RequestOK'
  BY <1>1, <1>2, <1>3 DEF IInv, AdjustmentsOK, RequestOK, settings, asked
<1>7. ConfirmedReachesTarget'
  BY <1>1, <1>3 DEF IInv, ConfirmedReachesTarget, asked
<1> QED
  BY <1>1, <1>5, <1>6, <1>7, ImportWaits DEF IInv, settings, progress

\* A request that was overtaken marks its SUB; another writes what adds up.
LEMMA WriteAdjustmentKeeps ==
    ASSUME IInv, WriteAdjustment
    PROVE  IInv'
<1> DEFINE s == request.sub
           to == request.to
<1>1. /\ request # None /\ request' = None
      /\ adjustment' = [adjustment EXCEPT ![s] = to]
      /\ overtaken' = IF request.late THEN overtaken \cup {s} ELSE overtaken \ {s}
      /\ UNCHANGED <<settings, gate, income, event, progress>>
  BY DEF WriteAdjustment
<1>2. /\ platform = "cake" /\ s \in Subs /\ to \in Adjustments
      /\ to.usd = to.target - to.base
      /\ ~request.late => income[s] # None /\ income[s].revenue = to.base
  BY <1>1 DEF IInv, RequestOK
<1>3. adjustment = [t \in Subs |-> adjustment[t]]
  BY DEF IInv, AdjustmentsOK
<1>4. /\ adjustment' = [t \in Subs |-> adjustment'[t]]
      /\ adjustment'[s] = to /\ \A t \in Subs \ {s} : adjustment'[t] = adjustment[t]
  BY <1>1, <1>2, <1>3
<1>5. TypeOK'
  <2>1. \A t \in Subs : adjustment'[t] # None =>
           /\ adjustment'[t] \in Adjustments
           /\ adjustment'[t].usd = adjustment'[t].target - adjustment'[t].base
    BY <1>2, <1>4 DEF IInv, TypeOK
  <2> QED
    BY <1>1, <2>1 DEF IInv, TypeOK, settings, gate, progress
<1>6. AdjustmentsOK' /\ RequestOK'
  BY <1>1, <1>2, <1>4 DEF AdjustmentsOK, RequestOK, settings
<1>7. ConfirmedReachesTarget'
  <2> SUFFICES ASSUME NEW t \in Subs, t \notin overtaken', adjustment'[t] # None,
                      adjustment'[t].status = "confirmed"
               PROVE  income[t] # None
                        /\ income[t].revenue + adjustment'[t].usd = adjustment'[t].target
    BY <1>1 DEF ConfirmedReachesTarget
  <2>1. CASE t # s
    BY <1>1, <1>4, <2>1 DEF IInv, ConfirmedReachesTarget
  <2>2. CASE t = s
    <3>1. ~request.late
      BY <1>1, <2>2
    <3>2. income[s].revenue = to.base /\ to.base \in Int /\ to.target \in Int
      BY <1>2, <3>1, ImportAssumption DEF Adjustments
    <3> QED
      BY <1>2, <1>4, <2>2, <3>1, <3>2
  <2> QED
    BY <2>1, <2>2
<1> QED
  BY <1>1, <1>5, <1>6, <1>7, ImportWaits DEF IInv, settings, progress

-----------------------------------------------------------------------------
(* The import.                                                             *)

\* What a row pays is what its SUB's mapping says.
LEMMA RowAsMapped ==
    ASSUME TypeOK, NEW s \in Subs, Judged(s), quiet
    PROVE  RowOf(s) = MappedRow(s)
<1> DEFINE v == resolveEffectiveSubIdMappings(s, ImportMonth)
<1> SUFFICES RowOf(s) = IF report[s] # 0 /\ Usable(v)
                        THEN [employee |-> v.employee, revenue |-> report[s]] ELSE None
  BY DEF MappedRow
<1>1. s # Blank
  BY ImportAssumption
<1>2. verdict[s] = IF report[s] = 0 THEN "zero" ELSE IF Usable(v) THEN v.employee ELSE "unmatched"
  BY <1>1 DEF Judged, Verdict
<1> HIDE DEF v
<1>3. CASE report[s] # 0 /\ Usable(v)
  <2>1. verdict[s] = v.employee
    BY <1>2, <1>3
  <2>2. v.employee \in Employees
    BY <1>3 DEF TypeOK, Usable
  <2> QED
    BY <1>3, <2>1, <2>2 DEF RowOf, Pays
<1>4. CASE ~(report[s] # 0 /\ Usable(v))
  BY <1>2, <1>4, NobodyIsCalledSo DEF RowOf, Pays
<1> QED
  BY <1>3, <1>4

\* Each row is decided as its report and its mapping say.
LEMMA VerdictIsJudged ==
    ASSUME TypeOK, NEW k
    PROVE  /\ Verdict(k) \in Employees \cup {"zero", "unmatched"}
           /\ Verdict(k) = "zero" <=> report[k] = 0
           /\ k = Blank => Verdict(k) \notin Employees
<1> DEFINE v == resolveEffectiveSubIdMappings(k, ImportMonth)
<1>1. Usable(v) => v.employee \in Employees
  BY DEF TypeOK, Usable
<1>2. Verdict(k) = IF report[k] = 0 THEN "zero"
                   ELSE IF k = Blank THEN "unmatched"
                   ELSE IF Usable(v) THEN v.employee ELSE "unmatched"
  BY DEF Verdict
<1> HIDE DEF v
<1> QED
  BY <1>1, <1>2, NobodyIsCalledSo

\* Before the first row: nothing is behind and nothing in hand.
LEMMA BeginningsKeep ==
    ASSUME IInv, Begin \/ hasCurrentCalibration \/ Fetch \/ Fail
    PROVE  IInv'
<1>1. /\ UNCHANGED <<platform, mapping, active, locked, edits, gate, rows, asked>>
      /\ phase' \in {"gate", "fetch", "failed", "rows"}
  BY DEF Begin, hasCurrentCalibration, Fetch, Fail, settings
<1>2. CASE phase' = "rows"
  <2>1. Fetch
    BY <1>2 DEF Begin, hasCurrentCalibration, Fail
  <2>2. PICK answer \in IF platform = "cake" THEN CakeAnswers ELSE EverflowAnswers :
           IF answer = None THEN phase' = "failed"
           ELSE phase' = "rows" /\ report' = answer /\ todo' = DOMAIN answer
    BY <2>1 DEF Fetch
  <2>3. answer # None /\ report' = answer /\ todo' = DOMAIN answer
    BY <1>2, <2>2
  <2>4. PICK K \in SUBSET Keys : answer \in [K -> Revenues]
    BY <2>2, <2>3 DEF CakeAnswers, EverflowAnswers
  <2>5. /\ report' \in [DOMAIN report' -> Revenues]
        /\ DOMAIN report' \subseteq Keys /\ todo' = DOMAIN report'
    BY <2>3, <2>4
  <2>6. UNCHANGED <<key, verdict, seen, imports, quiet>>
    BY <2>1 DEF Fetch, settings
  <2>7. TypeOK'
    BY <1>1, <1>2, <2>5, <2>6 DEF IInv, TypeOK, Phases, gate, rows
  <2>8. ReportOK' /\ RowsInHand' /\ RowsBehind'
    BY <1>2, <2>5 DEF ReportOK, RowsInHand, RowsBehind, InRow, WithReport
  <2> QED
    BY <1>1, <2>7, <2>8, AdjustmentsWait DEF IInv, rows, asked
<1>3. CASE phase' # "rows"
  <2>1. ReportOK' /\ RowsInHand' /\ RowsBehind'
    BY <1>1, <1>3 DEF ReportOK, RowsInHand, RowsBehind, InRow, WithReport
  <2>2. todo' \subseteq Keys /\ key' \in Keys /\ phase' \in Phases
    BY <1>1, <1>3
    DEF Begin, hasCurrentCalibration, Fetch, Fail, Forget, IInv, TypeOK, Keys, Phases
  <2>3. /\ verdict' \in [Keys -> Employees \cup {"zero", "unmatched", None}]
        /\ seen' \in [Keys -> Statuses]
    BY <1>3 DEF Begin, hasCurrentCalibration, Fetch, Fail, Forget, IInv, TypeOK, Statuses
  <2>4. imports' \in 0 .. MaxImports
    BY ImportAssumption DEF Begin, hasCurrentCalibration, Fetch, Fail, settings, IInv, TypeOK
  <2>5. quiet' \in BOOLEAN
    BY DEF Begin, hasCurrentCalibration, Fetch, Fail, settings, IInv, TypeOK
  <2>6. TypeOK'
    BY <1>1, <2>2, <2>3, <2>4, <2>5 DEF IInv, TypeOK, gate, rows
  <2> QED
    BY <1>1, <2>1, <2>6, AdjustmentsWait DEF IInv, rows, asked
<1> QED
  BY <1>2, <1>3

\* The import decides, reads or ends, and writes nothing: what is behind stays so.
LEMMA BehindStays ==
    ASSUME IInv, phase \in WithReport, phase' \in WithReport,
           UNCHANGED <<settings, rows, report, todo>>
    PROVE  RowsBehind' /\ \A k : Verdict(k)' = Verdict(k)
<1>1. \A k : Verdict(k)' = Verdict(k)
  BY DEF Verdict, resolveEffectiveSubIdMappings, Usable, settings
<1>2. \A k : Accounted(k) => Accounted(k)'
  BY DEF Accounted, rows
<1>3. \A k : AsMapped(k) => AsMapped(k)'
  BY DEF AsMapped, MappedRow, resolveEffectiveSubIdMappings, Usable, settings, rows
<1> QED
  BY <1>1, <1>2, <1>3 DEF IInv, RowsBehind, settings

LEMMA EverflowResolveKeeps ==
    ASSUME IInv, NEW k \in Keys, EverflowResolve(k)
    PROVE  IInv'
<1>1. /\ phase = "rows" /\ platform = "everflow" /\ k \in todo
      /\ phase' = "income" /\ key' = k
      /\ verdict' = [verdict EXCEPT ![k] = Verdict(k)]
      /\ UNCHANGED <<settings, gate, rows, asked, report, todo, seen, imports>>
  BY DEF EverflowResolve
<1>2. verdict \in [Keys -> Employees \cup {"zero", "unmatched", None}]
  BY DEF IInv, TypeOK
<1>3. verdict'[k] = Verdict(k) /\ Verdict(k) \in Employees \cup {"zero", "unmatched"}
  BY <1>1, <1>2, VerdictIsJudged DEF IInv
<1>4. TypeOK'
  <2>1. verdict' \in [Keys -> Employees \cup {"zero", "unmatched", None}]
    BY <1>1, <1>2, <1>3
  <2> QED
    BY <1>1, <2>1 DEF IInv, TypeOK, Phases, settings, gate, rows
<1>5. RowsBehind' /\ \A j : Verdict(j)' = Verdict(j)
  BY <1>1, BehindStays DEF WithReport, InRow
<1>6. ReportOK'
  BY <1>1 DEF IInv, ReportOK, WithReport, InRow, settings
<1>7. RowsInHand'
  <2>1. Judged(k)'
    BY <1>1, <1>3, <1>5, VerdictIsJudged DEF Judged, IInv
  <2> QED
    BY <1>1, <2>1 DEF RowsInHand, InRow
<1> QED
  BY <1>1, <1>4, <1>5, <1>6, <1>7, AdjustmentsWait DEF IInv, settings, rows, asked

LEMMA EverflowReadEventKeeps ==
    ASSUME IInv, EverflowReadEvent
    PROVE  IInv'
<1>1. /\ phase = "event" /\ phase' = "eventWrite"
      /\ seen' = [seen EXCEPT ![key] = event[key]]
      /\ UNCHANGED <<settings, gate, rows, asked, report, todo, key, verdict, imports>>
  BY DEF EverflowReadEvent
<1>2. seen \in [Keys -> Statuses] /\ event \in [Keys -> Statuses] /\ key \in Keys
  BY DEF IInv, TypeOK
<1>3. TypeOK'
  <2>1. seen' \in [Keys -> Statuses]
    BY <1>1, <1>2
  <2> QED
    BY <1>1, <2>1 DEF IInv, TypeOK, Phases, settings, gate, rows
<1>4. RowsBehind' /\ \A j : Verdict(j)' = Verdict(j)
  BY <1>1, BehindStays DEF WithReport, InRow
<1>5. ReportOK'
  BY <1>1 DEF IInv, ReportOK, WithReport, InRow, settings
<1>6. RowsInHand'
  <2>1. Judged(key)'
    BY <1>1, <1>4 DEF IInv, RowsInHand, InRow, Judged, settings
  <2>2. EventRead(key)'
    BY <1>1, <1>2 DEF EventRead, rows
  <2>3. verdict'[key'] # "zero" /\ (key' \in Subs => income'[key'] = RowOf(key)')
    BY <1>1 DEF IInv, RowsInHand, RowOf, Pays, rows
  <2> QED
    BY <1>1, <2>1, <2>2, <2>3 DEF RowsInHand, InRow
<1> QED
  BY <1>1, <1>3, <1>4, <1>5, <1>6, AdjustmentsWait DEF IInv, settings, rows, asked

LEMMA EverflowDoneKeeps ==
    ASSUME IInv, EverflowDone
    PROVE  IInv'
<1>1. /\ phase = "rows" /\ platform = "everflow" /\ todo = {} /\ phase' = "done"
      /\ UNCHANGED <<settings, gate, rows, asked, report, todo, key, verdict, seen, imports>>
  BY DEF EverflowDone
<1>2. TypeOK'
  BY <1>1 DEF IInv, TypeOK, Phases, settings, gate, rows
<1>3. RowsBehind'
  BY <1>1, BehindStays DEF WithReport, InRow
<1>4. ReportOK' /\ RowsInHand'
  BY <1>1 DEF IInv, ReportOK, RowsInHand, WithReport, InRow, settings
<1> QED
  BY <1>1, <1>2, <1>3, <1>4, AdjustmentsWait DEF IInv, settings, rows, asked

\* The transaction reads every row's mapping and event at once.
LEMMA CakeReadKeeps ==
    ASSUME IInv, CakeRead
    PROVE  IInv'
<1>1. /\ phase = "rows" /\ platform = "cake" /\ phase' = "commit"
      /\ verdict' = [k \in Keys |-> IF k \in todo THEN Verdict(k) ELSE None]
      /\ seen' = event
      /\ UNCHANGED <<settings, gate, rows, asked, report, todo, key, imports>>
  BY DEF CakeRead
<1>2. TypeOK'
  <2>1. verdict' \in [Keys -> Employees \cup {"zero", "unmatched", None}]
    BY <1>1, VerdictIsJudged DEF IInv
  <2> QED
    BY <1>1, <2>1 DEF IInv, TypeOK, Phases, settings, gate, rows
<1>3. RowsBehind' /\ \A j : Verdict(j)' = Verdict(j)
  BY <1>1, BehindStays DEF WithReport, InRow
<1>4. ReportOK'
  BY <1>1 DEF IInv, ReportOK, WithReport, InRow, settings
<1>5. RowsInHand'
  <2>1. ASSUME NEW k \in todo PROVE Judged(k)' /\ EventRead(k)'
    <3>1. k \in Keys /\ verdict'[k] = Verdict(k)
      BY <1>1, <2>1 DEF IInv, TypeOK
    <3>2. Judged(k)'
      BY <1>1, <1>3, <3>1, VerdictIsJudged DEF IInv, Judged
    <3>3. EventRead(k)'
      BY <1>1 DEF EventRead, rows
    <3> QED
      BY <3>2, <3>3
  <2> QED
    BY <1>1, <2>1 DEF RowsInHand, InRow
<1> QED
  BY <1>1, <1>2, <1>3, <1>4, <1>5, AdjustmentsWait DEF IInv, settings, rows, asked

\* The row of a report that pays somebody is a row of income, with the report's amount.
LEMMA RowWritten ==
    ASSUME TypeOK, ReportOK, phase \in WithReport, NEW k \in todo, Judged(k)
    PROVE  /\ RowOf(k) \in IncomeRows \cup {None}
           /\ RowOf(k) # None <=> Pays(k)
           /\ Pays(k) => RowOf(k).revenue = report[k] /\ report[k] # 0 /\ k \in Subs
<1>1. k \in Keys /\ report[k] \in Revenues
  BY DEF ReportOK
<1>2. Pays(k) => verdict[k] # "zero" /\ k # Blank
  BY NobodyIsCalledSo DEF Judged, Pays
<1>3. Pays(k) => report[k] # 0 /\ k \in Subs /\ RowOf(k) \in IncomeRows
  BY <1>1, <1>2 DEF Judged, Keys, RowOf, Pays, IncomeRows
<1> QED
  BY <1>3, NobodyIsCalledSo DEF RowOf

\* The event of a row that pays is not open, that of one that does not is there.
Noted(k) ==
    IF verdict[k] = "zero" THEN event[k]
    ELSE IF Pays(k) THEN resolveAfterSuccessfulImport(k, seen[k])
    ELSE recordUnmatchedEvent(k, seen[k])

LEMMA EventWritten ==
    ASSUME TypeOK, NEW k \in Keys, Judged(k), EventRead(k)
    PROVE  /\ Noted(k) \in Statuses
           /\ Pays(k) => Noted(k) # "open"
           /\ verdict[k] # "zero" /\ ~Pays(k) => Noted(k) # "none"
<1>1. event[k] \in Statuses /\ seen[k] \in Statuses
  BY DEF TypeOK
<1>2. Pays(k) => verdict[k] # "zero"
  BY NobodyIsCalledSo DEF Pays
<1> QED
  BY <1>1, <1>2
  DEF Noted, EventRead, Statuses, resolveAfterSuccessfulImport, recordUnmatchedEvent

\* Everflow revenue has no adjustments, so the import may write what it likes.
LEMMA EverflowHasNoAdjustments ==
    ASSUME IInv, platform = "everflow", UNCHANGED <<platform, adjustment, request, overtaken>>
    PROVE  AdjustmentsOK' /\ RequestOK' /\ ConfirmedReachesTarget'
BY DEF IInv, AdjustmentsOK, RequestOK, ConfirmedReachesTarget

LEMMA EverflowIncomeKeeps ==
    ASSUME IInv, EverflowIncome
    PROVE  IInv'
<1>1. /\ phase = "income"
      /\ income' = [s \in Subs |-> IF s # key THEN income[s] ELSE RowOf(key)]
      /\ phase' = IF verdict[key] = "zero" THEN "rows" ELSE "event"
      /\ IF verdict[key] = "zero"
         THEN todo' = todo \ {key} /\ Forget
         ELSE UNCHANGED <<todo, key, verdict, seen>>
      /\ UNCHANGED <<settings, gate, event, adjustment, asked, report, imports>>
  BY DEF EverflowIncome, WriteIncome, RowOf
<1>2. /\ key \in todo /\ platform = "everflow" /\ Judged(key)
      /\ todo \subseteq DOMAIN report /\ DOMAIN report \subseteq Keys
      /\ report \in [DOMAIN report -> Revenues]
  BY <1>1 DEF IInv, ReportOK, RowsInHand, InRow, WithReport
<1>3. TypeOK'
  <2>1. income' \in [Subs -> IncomeRows \cup {None}]
    BY <1>1, <1>2, RowWritten DEF IInv, TypeOK, WithReport, InRow
  <2>2. phase' \in Phases /\ todo' \subseteq Keys
    BY <1>1 DEF IInv, TypeOK, Phases
  <2>3. /\ key' \in Keys
        /\ verdict' \in [Keys -> Employees \cup {"zero", "unmatched", None}]
        /\ seen' \in [Keys -> Statuses]
    BY <1>1 DEF IInv, TypeOK, Forget, Keys, Statuses
  <2> QED
    BY <1>1, <2>1, <2>2, <2>3 DEF IInv, TypeOK, settings, gate
<1>4. ReportOK'
  BY <1>1, <1>2 DEF ReportOK, WithReport, InRow, settings
<1>5. ASSUME NEW k \in DOMAIN report \ todo
      PROVE  Accounted(k)' /\ (quiet' /\ k \in Subs => AsMapped(k)')
  <2>1. k # key /\ Accounted(k) /\ (quiet /\ k \in Subs => AsMapped(k))
    BY <1>1, <1>2 DEF IInv, RowsBehind, WithReport, InRow
  <2>2. k \in Subs => income'[k] = income[k]
    BY <1>1, <2>1
  <2> QED
    BY <1>1, <2>1, <2>2
    DEF Accounted, AsMapped, MappedRow, resolveEffectiveSubIdMappings, Usable, settings
<1>6. key \in Subs => income'[key] = RowOf(key)
  BY <1>1
<1>7. CASE verdict[key] = "zero"
  <2>1. phase' = "rows" /\ todo' = todo \ {key} /\ report[key] = 0
    BY <1>1, <1>2, <1>7 DEF Judged
  <2> PICK row \in Keys : row = key
    BY <1>2
  <2>2. Accounted(row)'
    BY <1>1, <2>1 DEF Accounted
  <2>3. quiet' /\ row \in Subs => AsMapped(row)'
    <3>1. quiet' /\ row \in Subs => RowOf(row) = MappedRow(row)
      BY <1>1, <1>2, RowAsMapped DEF IInv, settings
    <3>2. MappedRow(row)' = MappedRow(row)
      BY <1>1 DEF MappedRow, resolveEffectiveSubIdMappings, Usable, settings
    <3> QED
      BY <1>6, <3>1, <3>2 DEF AsMapped
  <2>4. RowsBehind'
    <3>1. \A k \in DOMAIN report \ todo' : k = row \/ k \in DOMAIN report \ todo
      BY <2>1
    <3>2. report' = report
      BY <1>1
    <3> QED
      BY <1>5, <2>2, <2>3, <3>1, <3>2 DEF RowsBehind
  <2> QED
    BY <1>1, <1>2, <1>3, <1>4, <2>1, <2>4, EverflowHasNoAdjustments
    DEF IInv, RowsInHand, InRow, settings, asked
<1>8. CASE verdict[key] # "zero"
  <2>1. phase' = "event" /\ UNCHANGED <<todo, key, verdict, seen, report>>
    BY <1>1, <1>8
  <2>2. RowsBehind'
    BY <1>5, <2>1 DEF RowsBehind
  <2>3. Judged(key)'
    BY <1>1, <1>2, <2>1
    DEF Judged, Verdict, resolveEffectiveSubIdMappings, Usable, settings
  <2>4. RowsInHand'
    BY <1>6, <1>8, <2>1, <2>3 DEF RowsInHand, InRow, RowOf, Pays
  <2> QED
    BY <1>1, <1>2, <1>3, <1>4, <2>2, <2>4, EverflowHasNoAdjustments
    DEF IInv, settings, asked
<1> QED
  BY <1>7, <1>8

LEMMA EverflowWriteEventKeeps ==
    ASSUME IInv, EverflowWriteEvent
    PROVE  IInv'
<1>1. /\ phase = "eventWrite" /\ phase' = "rows" /\ todo' = todo \ {key} /\ Forget
      /\ event' = [k \in Keys |-> IF k # key THEN event[k] ELSE Noted(key)]
      /\ UNCHANGED <<settings, gate, income, adjustment, asked, report, imports>>
  BY DEF EverflowWriteEvent, WriteEvent, Noted
<1>2. /\ key \in todo /\ platform = "everflow" /\ key \in Keys
      /\ Judged(key) /\ EventRead(key)
      /\ verdict[key] # "zero" /\ (key \in Subs => income[key] = RowOf(key))
      /\ todo \subseteq DOMAIN report /\ DOMAIN report \subseteq Keys
      /\ report \in [DOMAIN report -> Revenues]
  BY <1>1 DEF IInv, TypeOK, ReportOK, RowsInHand, InRow, WithReport
<1>3. event'[key] = Noted(key) /\ \A k \in Keys \ {key} : event'[k] = event[k]
  BY <1>1, <1>2
<1>4. /\ Noted(key) \in Statuses
      /\ IF Pays(key) THEN Noted(key) # "open" ELSE Noted(key) # "none"
  BY <1>2, EventWritten DEF IInv
<1>5. TypeOK'
  <2>1. event' \in [Keys -> Statuses]
    BY <1>1, <1>4 DEF IInv, TypeOK
  <2>2. /\ key' \in Keys
        /\ verdict' \in [Keys -> Employees \cup {"zero", "unmatched", None}]
        /\ seen' \in [Keys -> Statuses]
    BY <1>1 DEF Forget, Keys, Statuses
  <2> QED
    BY <1>1, <2>1, <2>2 DEF IInv, TypeOK, Phases, settings, gate
<1>6. ReportOK'
  BY <1>1, <1>2 DEF ReportOK, WithReport, InRow, settings
<1>7. ASSUME NEW k \in DOMAIN report \ todo
      PROVE  Accounted(k)' /\ (quiet' /\ k \in Subs => AsMapped(k)')
  <2>1. k # key /\ k \in Keys /\ Accounted(k) /\ (quiet /\ k \in Subs => AsMapped(k))
    BY <1>1, <1>2 DEF IInv, RowsBehind, WithReport, InRow
  <2> QED
    BY <1>1, <1>3, <2>1
    DEF Accounted, AsMapped, MappedRow, resolveEffectiveSubIdMappings, Usable, settings
<1> PICK row \in Keys : row = key
  BY <1>2
<1>8. Accounted(row)'
  <2>1. /\ RowOf(key) # None <=> Pays(key)
        /\ Pays(key) => RowOf(key).revenue = report[key] /\ key \in Subs
    BY <1>1, <1>2, RowWritten DEF IInv, WithReport, InRow
  <2> QED
    BY <1>1, <1>2, <1>3, <1>4, <2>1 DEF Accounted
<1>9. quiet' /\ row \in Subs => AsMapped(row)'
  <2>1. quiet' /\ row \in Subs => RowOf(row) = MappedRow(row)
    BY <1>1, <1>2, RowAsMapped DEF IInv, settings
  <2>2. MappedRow(row)' = MappedRow(row)
    BY <1>1 DEF MappedRow, resolveEffectiveSubIdMappings, Usable, settings
  <2> QED
    BY <1>1, <1>2, <2>1, <2>2 DEF AsMapped
<1>10. RowsBehind' /\ RowsInHand'
  <2>1. \A k \in DOMAIN report \ todo' : k = row \/ k \in DOMAIN report \ todo
    BY <1>1
  <2>2. report' = report /\ phase' = "rows"
    BY <1>1
  <2> QED
    BY <1>7, <1>8, <1>9, <2>1, <2>2 DEF RowsBehind, RowsInHand, InRow
<1> QED
  BY <1>1, <1>2, <1>5, <1>6, <1>10, EverflowHasNoAdjustments DEF IInv, settings, asked

\* The transaction writes every row's income and event, and takes the adjustments whose
\* base it replaces back.
LEMMA CakeCommitKeeps ==
    ASSUME IInv, CakeCommit
    PROVE  IInv'
<1>1. /\ phase = "commit" /\ phase' = "done" /\ todo' = {} /\ Forget
      /\ income' = [s \in Subs |-> IF s \notin todo THEN income[s] ELSE RowOf(s)]
      /\ event' = [k \in Keys |-> IF k \notin todo THEN event[k] ELSE Noted(k)]
      /\ adjustment' = [s \in Subs |->
           IF s \in todo THEN markAdjustmentStaleWhenBaseChanges(s, report[s], ~Pays(s))
           ELSE adjustment[s]]
      /\ overtaken' = overtaken \ todo
      /\ UNCHANGED <<settings, gate, report, imports>>
  BY DEF CakeCommit, WriteIncome, WriteEvent, RowOf, Noted
<1>2. /\ platform = "cake" /\ todo = DOMAIN report /\ DOMAIN report \subseteq Keys
      /\ report \in [DOMAIN report -> Revenues]
      /\ \A k \in todo : Judged(k) /\ EventRead(k)
  BY <1>1 DEF IInv, ReportOK, RowsInHand, InRow, WithReport
<1>3. \A k \in todo :
         /\ RowOf(k) \in IncomeRows \cup {None}
         /\ RowOf(k) # None <=> Pays(k)
         /\ Pays(k) => RowOf(k).revenue = report[k] /\ report[k] # 0 /\ k \in Subs
  BY <1>1, <1>2, RowWritten DEF IInv, WithReport
<1>4. \A k \in todo :
         /\ Noted(k) \in Statuses
         /\ Pays(k) => Noted(k) # "open"
         /\ verdict[k] # "zero" /\ ~Pays(k) => Noted(k) # "none"
  BY <1>2, EventWritten DEF IInv
<1>5. ASSUME NEW s \in Subs, adjustment'[s] # None
      PROVE  /\ adjustment'[s] \in Adjustments
             /\ adjustment'[s].usd = adjustment'[s].target - adjustment'[s].base
             /\ adjustment'[s].status = "confirmed" =>
                    /\ adjustment'[s] = adjustment[s]
                    /\ s \in todo => Pays(s) /\ adjustment[s].base = report[s]
  <2>1. adjustment[s] # None =>
           /\ adjustment[s] \in Adjustments
           /\ adjustment[s].usd = adjustment[s].target - adjustment[s].base
    BY DEF IInv, TypeOK
  <2>2. CASE adjustment'[s] = adjustment[s]
             /\ (s \in todo /\ adjustment[s].status = "confirmed"
                    => Pays(s) /\ adjustment[s].base = report[s])
    BY <1>5, <2>1, <2>2
  <2>3. CASE /\ s \in todo /\ adjustment[s] # None
             /\ adjustment'[s] = [adjustment[s] EXCEPT
                    !.status = "draft", !.base = report[s],
                    !.usd = adjustment[s].target - report[s]]
    <3>1. report[s] \in Revenues /\ report[s] \in Int /\ adjustment[s].target \in Int
      BY <1>2, <2>1, <2>3, ImportAssumption DEF Adjustments
    <3>2. adjustment[s].target - report[s] \in Int
      BY <3>1
    <3> QED
      BY <2>1, <2>3, <3>1, <3>2 DEF Adjustments
  <2> QED
    BY <1>1, <1>5, <2>2, <2>3 DEF markAdjustmentStaleWhenBaseChanges
<1>6. TypeOK'
  <2>1. income' \in [Subs -> IncomeRows \cup {None}]
    BY <1>1, <1>3 DEF IInv, TypeOK
  <2>2. event' \in [Keys -> Statuses]
    BY <1>1, <1>4 DEF IInv, TypeOK
  <2>3. /\ key' \in Keys /\ todo' \subseteq Keys /\ phase' \in Phases
        /\ verdict' \in [Keys -> Employees \cup {"zero", "unmatched", None}]
        /\ seen' \in [Keys -> Statuses]
    BY <1>1 DEF Forget, Keys, Statuses, Phases
  <2> QED
    BY <1>1, <1>5, <2>1, <2>2, <2>3 DEF IInv, TypeOK, settings, gate
<1>7. ReportOK' /\ RowsInHand'
  BY <1>1, <1>2 DEF ReportOK, RowsInHand, WithReport, InRow, settings
<1>8. RowsBehind'
  <2> SUFFICES ASSUME NEW k \in todo
               PROVE  Accounted(k)' /\ (quiet' /\ k \in Subs => AsMapped(k)')
    BY <1>1, <1>2 DEF RowsBehind
  <2>1. k \in Keys /\ event'[k] = Noted(k) /\ (k \in Subs => income'[k] = RowOf(k))
    BY <1>1, <1>2
  <2>2. Judged(k)
    BY <1>2
  <2>3. Accounted(k)'
    BY <1>1, <1>3, <1>4, <2>1, <2>2 DEF Accounted, Judged
  <2>4. quiet' /\ k \in Subs => AsMapped(k)'
    <3>1. quiet' /\ k \in Subs => RowOf(k) = MappedRow(k)
      BY <1>1, <2>2, RowAsMapped DEF IInv, settings
    <3>2. MappedRow(k)' = MappedRow(k)
      BY <1>1 DEF MappedRow, resolveEffectiveSubIdMappings, Usable, settings
    <3> QED
      BY <2>1, <3>1, <3>2 DEF AsMapped
  <2> QED
    BY <2>3, <2>4
<1>9. AdjustmentsOK'
  BY <1>1, <1>2 DEF AdjustmentsOK, settings
<1>10. RequestOK'
  <2>1. request' = IF request = None THEN None
                   ELSE [request EXCEPT !.late = request.late \/ request.sub \in todo]
    BY DEF CakeCommit
  <2>2. CASE request = None
    BY <2>1, <2>2 DEF RequestOK
  <2>3. CASE request # None
    <3> DEFINE late == request.late \/ request.sub \in todo
    <3>1. request \in [sub : Subs, late : BOOLEAN, to : Adjustments]
      BY <2>3 DEF IInv, RequestOK
    <3>2. late \in BOOLEAN /\ request' = [request EXCEPT !.late = late]
      BY <2>1, <2>3
    <3>3. ~late => ~request.late /\ request.sub \notin todo
      OBVIOUS
    <3> HIDE DEF late
    <3>4. /\ request' \in [sub : Subs, late : BOOLEAN, to : Adjustments]
          /\ request'.sub = request.sub /\ request'.to = request.to /\ request'.late = late
      BY <3>1, <3>2
    <3>5. request.sub \notin todo /\ income[request.sub] # None
             => income'[request.sub] = income[request.sub]
      BY <1>1, <3>1
    <3> QED
      BY <1>2, <1>1, <2>3, <3>3, <3>4, <3>5 DEF IInv, RequestOK, settings
  <2> QED
    BY <2>2, <2>3
<1>11. ConfirmedReachesTarget'
  <2> SUFFICES ASSUME NEW s \in Subs, s \notin overtaken', adjustment'[s] # None,
                      adjustment'[s].status = "confirmed"
               PROVE  /\ income'[s] # None
                      /\ income'[s].revenue + adjustment'[s].usd = adjustment'[s].target
    BY DEF ConfirmedReachesTarget
  <2>1. /\ adjustment'[s] = adjustment[s] /\ adjustment[s] \in Adjustments
        /\ adjustment[s].usd = adjustment[s].target - adjustment[s].base
        /\ s \in todo => Pays(s) /\ adjustment[s].base = report[s]
    BY <1>5
  <2>2. CASE s \in todo
    <3>1. /\ income'[s] = RowOf(s) /\ RowOf(s) # None /\ RowOf(s).revenue = report[s]
          /\ adjustment[s].base = report[s]
      BY <1>1, <1>3, <2>1, <2>2
    <3>2. report[s] \in Int /\ adjustment[s].target \in Int
      BY <1>2, <2>1, <2>2, ImportAssumption DEF Adjustments
    <3> QED
      BY <2>1, <3>1, <3>2
  <2>3. CASE s \notin todo
    BY <1>1, <2>1, <2>3 DEF IInv, ConfirmedReachesTarget
  <2> QED
    BY <2>2, <2>3
<1> QED
  BY <1>6, <1>7, <1>8, <1>9, <1>10, <1>11 DEF IInv

LEMMA ImportStep == IInv /\ [Next]_vars => IInv'
<1> SUFFICES ASSUME IInv, [Next]_vars PROVE IInv'
  OBVIOUS
<1>1. CASE UNCHANGED vars
  <2>1. TypeOK'
    BY <1>1 DEF vars, settings, gate, rows, progress, IInv, TypeOK
  <2> QED
    BY <1>1, <2>1, ImportWaits, AdjustmentsWait DEF vars, settings, rows, asked, IInv
<1>2. CASE Import
  BY <1>2, BeginningsKeep, EverflowResolveKeeps, EverflowIncomeKeeps, EverflowReadEventKeeps,
     EverflowWriteEventKeeps, EverflowDoneKeeps, CakeReadKeeps, CakeCommitKeeps
  DEF Import
<1>3. CASE Administrate
  BY <1>3, SubIdMappingsKeep, UnmatchedEventsKeep, EmployeesKeep, GatesKeep
  DEF Administrate, SubIdMappings, UnmatchedEvents
<1>4. CASE Adjust
  BY <1>4, RequestsKeep, DisableKeeps, WriteAdjustmentKeeps DEF Adjust
<1> QED
  BY <1>1, <1>2, <1>3, <1>4 DEF Next

LEMMA ImportInvariant == Spec => []IInv
  BY ImportInit, ImportStep, PTL DEF Spec

-----------------------------------------------------------------------------
(* The theorems.                                                           *)

\* Whatever administrators edit or settle meanwhile and wherever earlier imports failed: no
\* revenue of a completed import is lost or counted twice, and if no mapping or employee was
\* edited since it began, the income of the month is what the report and the mappings say.
THEOREM ImportedRevenueIsKept == Spec => []IncomeInv
<1>1. ASSUME IInv PROVE CompletedImportMatchesMapping
  <2> SUFFICES ASSUME phase = "done", quiet, NEW s \in Subs \cap DOMAIN report
               PROVE  AsMapped(s)
    BY DEF CompletedImportMatchesMapping, Settled, AsMapped, MappedRow
  <2> QED
    BY <1>1 DEF IInv, ReportOK, RowsBehind, WithReport
<1>2. ASSUME IInv PROVE RevenueIsAccounted
  BY <1>2 DEF IInv, ReportOK, RowsBehind, WithReport, Accounted, RevenueIsAccounted
<1>3. IInv => IncomeInv
  BY <1>1, <1>2 DEF IInv, IncomeInv
<1> QED
  BY <1>3, ImportInvariant, PTL

\* However imports, drafts and confirmations overlap: but for the SUBs whose request was
\* overtaken, confirmed income adds up to its target, and what is offered is accepted.
THEOREM AdjustmentsReachTheirTargets == Spec => []AdjustmentInv
<1>1. ASSUME IInv, NEW s \in Subs
      PROVE  editable(s) <=> \E target \in Revenues : resolveInput(s, target)
  <2>1. ASSUME editable(s) PROVE resolveInput(s, 0)
    <3>1. income[s] # None /\ income[s].revenue # 0
      BY <1>1, <2>1 DEF editable, IInv, TypeOK, IncomeRows
    <3> QED
      BY <2>1, <3>1 DEF editable, resolveInput, Usable
  <2>2. ASSUME NEW target \in Revenues, resolveInput(s, target) PROVE editable(s)
    BY <2>2 DEF editable, resolveInput, Usable
  <2> QED
    BY <2>1, <2>2, ImportAssumption
<1>2. IInv => AdjustmentInv
  BY <1>1 DEF IInv, AdjustmentInv, ListOffersWhatIsAccepted
<1> QED
  BY <1>2, ImportInvariant, PTL
=============================================================================
