----------------------- MODULE SettlementLifecycleProofs -----------------------
(***************************************************************************)
(* What the month lock guarantees for any number of months, employees,     *)
(* rows and requests in flight, and any profits.                           *)
(***************************************************************************)
EXTENDS SettlementLifecycle, TLAPS, FiniteSetTheorems, WellFoundedInduction

(* The tables and the request memory are functions; what they map to is     *)
(* left open, because no handler's guard depends on it.                    *)
ShapeOK ==
    /\ details = [m \in Months |-> details[m]]
    /\ rows = [i \in Ids |-> rows[i]]
    /\ work = [r \in Requests |-> work[r]]

\* A request that works by id holds the id of a row it has seen.  Only imported
\* rows are ever deleted, and only movable ones are given another month.
ByIdOK ==
    \A r \in Requests : ById(r) =>
        /\ work[r].id \in Ids
        /\ work[r].next \in 0 .. LastMonth
        /\ work[r].next # 0 => work[r].id \in Movable
        /\ work[r].id \in Rolled => monthOf[work[r].id] # 0

\* A lock under way was asked for a confirmed month...
LockAfterConfirm ==
    \A r \in Requests :
        pc[r] \in {"lockMonth", "lock"} => status[month[r]] \in {"confirmed", "locked"}

\* ...and rolls only after it has locked it.
RollAfterLock == \A r \in Requests : pc[r] = "roll" => lockedAt[month[r]]

IInv ==
    /\ ControlOK
    /\ ShapeOK
    /\ ByIdOK
    /\ LockAfterConfirm
    /\ RollAfterLock
    /\ CarryOnlyAfterLock

\* The identity of a row names one of the months and employees.
LEMMA IdKinds ==
  ASSUME NEW i \in Ids
  PROVE  /\ i.kind \in {"entered", "imported", "rolled"}
         /\ i.month \in Months
         /\ i.employee \in Employees
  BY LifecycleAssumption DEF Id

\* The empty tables and idle requests satisfy the strengthened invariant.
LEMMA InitIInv == Init => IInv
<1> SUFFICES ASSUME Init PROVE IInv
  OBVIOUS
<1> USE DEF Init
<1>1. ControlOK
  BY LifecycleAssumption DEF ControlOK, Months, Statuses, Pcs
<1>2. ShapeOK
  BY DEF ShapeOK
<1>3. ByIdOK /\ LockAfterConfirm /\ RollAfterLock
  BY DEF ByIdOK, ById, LockAfterConfirm, RollAfterLock
<1>4. CarryOnlyAfterLock
  BY DEF CarryOnlyAfterLock, Rolled
<1> QED
  BY <1>1, <1>2, <1>3, <1>4 DEF IInv

\* An import puts a row into the month it works on, or deletes it.
LEMMA ImportRowMonths ==
  ASSUME NEW r \in Requests, ImportRow(r)
  PROVE  /\ pc[r] = "import"
         /\ \E i \in Inputs : \E m \in {0, month[r]} :
                /\ i.kind = "imported" /\ i.month = month[r]
                /\ monthOf' = [monthOf EXCEPT ![i] = m]
                /\ \E row : rows' = [rows EXCEPT ![i] = row]
         /\ Finish(r) \/ (UNCHANGED pc /\ \E w : work' = [work EXCEPT ![r] = w])
         /\ UNCHANGED <<status, lockedAt, details, month>>
<1>1. PICK i \in Ids : /\ i.kind = "imported" /\ i.month = month[r]
                       /\ \E m \in {0, month[r]} : monthOf' = [monthOf EXCEPT ![i] = m]
                       /\ \E row : rows' = [rows EXCEPT ![i] = row]
  BY DEF ImportRow
<1>2. Finish(r) \/ (UNCHANGED pc /\ \E w : work' = [work EXCEPT ![r] = w])
  BY DEF ImportRow
<1> QED
  BY <1>1, <1>2 DEF ImportRow, Inputs

(* One step of a request, and what it does to each part of IInv. *)

Step(r) == (\E m \in Months : Start(r, m)) \/ Continue(r) \/ Abort(r)

\* Every handler leaves each settlement in one of its statuses, each row in a
\* month and each request at a call of its handler.
LEMMA ControlStep ==
  ASSUME IInv, NEW r \in Requests, Step(r)
  PROVE  ControlOK'
<1> USE LifecycleAssumption DEF IInv, ControlOK, ByIdOK, ById, Months, Pcs, Statuses,
    nextSettlementMonth, Begin, Idle, Finish, Goto, assertWritable, isLocked, books
<1>1. ASSUME NEW m \in Months, Start(r, m) PROVE ControlOK'
  <2>1. CASE CreateCheck(r, m) BY <2>1 DEF CreateCheck
  <2>2. CASE ImportCheck(r, m) BY <2>2 DEF ImportCheck
  <2>3. CASE GetRow(r, m) BY <2>3 DEF GetRow
  <2>4. CASE GenerateStart(r, m) BY <2>4 DEF GenerateStart
  <2>5. CASE ConfirmRead(r, m) BY <2>5 DEF ConfirmRead
  <2>6. CASE LockRead(r, m) BY <2>6 DEF LockRead
  <2> QED BY <1>1, <2>1, <2>2, <2>3, <2>4, <2>5, <2>6 DEF Start
<1>2. CASE InsertRow(r) BY <1>2 DEF InsertRow
<1>3. CASE ImportRow(r)
  <2>1. PICK i \in Inputs, m \in {0, month[r]} :
             i.kind = "imported" /\ monthOf' = [monthOf EXCEPT ![i] = m]
    BY <1>3, ImportRowMonths
  <2>2. month[r] \in Months /\ i \in Ids
    BY DEF Inputs
  <2>3. monthOf' \in [Ids -> 0 .. LastMonth + 1]
    BY <2>1, <2>2
  <2> QED BY <1>3, <2>3, ImportRowMonths
<1>4. CASE CheckMonth(r) BY <1>4 DEF CheckMonth
<1>5. CASE CheckNextMonth(r) BY <1>5 DEF CheckNextMonth
<1>6. CASE UpdateRow(r) BY <1>6 DEF UpdateRow
<1>7. CASE ReadInputs(r) BY <1>7 DEF ReadInputs
<1>8. CASE ReadCarry(r) BY <1>8 DEF ReadCarry
<1>9. CASE CalculateSettlement(r) BY <1>9 DEF CalculateSettlement
<1>10. CASE GenerateRecheck(r) BY <1>10 DEF GenerateRecheck
<1>11. CASE GenerateWrite(r) BY <1>11 DEF GenerateWrite
<1>12. CASE ConfirmWrite(r) BY <1>12 DEF ConfirmWrite
<1>13. CASE LockMonthRead(r) BY <1>13 DEF LockMonthRead
<1>14. CASE LockMonthWrite(r) BY <1>14 DEF LockMonthWrite
<1>15. CASE RollForwardWrite(r) BY <1>15 DEF RollForwardWrite
<1>16. CASE \E e \in Employees : RollForwardFind(r, e) BY <1>16 DEF RollForwardFind
<1>17. CASE Abort(r) BY <1>17 DEF Abort
<1> QED
  BY <1>1, <1>2, <1>3, <1>4, <1>5, <1>6, <1>7, <1>8, <1>9, <1>10, <1>11, <1>12, <1>13, <1>14,
      <1>15, <1>16, <1>17 DEF Step, Continue

\* No handler replaces a table.
LEMMA ShapeStep ==
  ASSUME IInv, NEW r \in Requests, Step(r)
  PROVE  ShapeOK'
<1> USE DEF IInv, ControlOK, ShapeOK, Begin, Idle, Finish, Goto, assertWritable, isLocked, books
<1>1. ASSUME NEW m \in Months, Start(r, m) PROVE ShapeOK'
  <2>1. CASE CreateCheck(r, m) BY <2>1 DEF CreateCheck
  <2>2. CASE ImportCheck(r, m) BY <2>2 DEF ImportCheck
  <2>3. CASE GetRow(r, m) BY <2>3 DEF GetRow
  <2>4. CASE GenerateStart(r, m) BY <2>4 DEF GenerateStart
  <2>5. CASE ConfirmRead(r, m) BY <2>5 DEF ConfirmRead
  <2>6. CASE LockRead(r, m) BY <2>6 DEF LockRead
  <2> QED BY <1>1, <2>1, <2>2, <2>3, <2>4, <2>5, <2>6 DEF Start
<1>2. CASE InsertRow(r) BY <1>2 DEF InsertRow
<1>3. CASE ImportRow(r) BY <1>3, ImportRowMonths
<1>4. CASE CheckMonth(r) BY <1>4 DEF CheckMonth
<1>5. CASE CheckNextMonth(r) BY <1>5 DEF CheckNextMonth
<1>6. CASE UpdateRow(r) BY <1>6 DEF UpdateRow
<1>7. CASE ReadInputs(r) BY <1>7 DEF ReadInputs
<1>8. CASE ReadCarry(r) BY <1>8 DEF ReadCarry
<1>9. CASE CalculateSettlement(r) BY <1>9 DEF CalculateSettlement
<1>10. CASE GenerateRecheck(r) BY <1>10 DEF GenerateRecheck
<1>11. CASE GenerateWrite(r) BY <1>11 DEF GenerateWrite
<1>12. CASE ConfirmWrite(r) BY <1>12 DEF ConfirmWrite
<1>13. CASE LockMonthRead(r) BY <1>13 DEF LockMonthRead
<1>14. CASE LockMonthWrite(r) BY <1>14 DEF LockMonthWrite
<1>15. CASE RollForwardWrite(r) BY <1>15 DEF RollForwardWrite
<1>16. CASE \E e \in Employees : RollForwardFind(r, e) BY <1>16 DEF RollForwardFind
<1>17. CASE Abort(r) BY <1>17 DEF Abort
<1> QED
  BY <1>1, <1>2, <1>3, <1>4, <1>5, <1>6, <1>7, <1>8, <1>9, <1>10, <1>11, <1>12, <1>13, <1>14,
      <1>15, <1>16, <1>17 DEF Step, Continue

\* A row once read stays where an update by id finds it, unless it is imported.
LEMMA ByIdStep ==
  ASSUME IInv, NEW r \in Requests, Step(r)
  PROVE  ByIdOK'
<1> USE LifecycleAssumption, IdKinds DEF IInv, ControlOK, ShapeOK, ByIdOK, ById, Rolled,
    Months, nextSettlementMonth, Begin, Idle, Finish, Goto, assertWritable, isLocked, books
<1>1. ASSUME NEW m \in Months, Start(r, m) PROVE ByIdOK'
  <2>1. CASE CreateCheck(r, m) BY <2>1 DEF CreateCheck
  <2>2. CASE ImportCheck(r, m) BY <2>2 DEF ImportCheck
  <2>3. CASE GetRow(r, m) BY <2>3 DEF GetRow
  <2>4. CASE GenerateStart(r, m) BY <2>4 DEF GenerateStart
  <2>5. CASE ConfirmRead(r, m) BY <2>5 DEF ConfirmRead
  <2>6. CASE LockRead(r, m) BY <2>6 DEF LockRead
  <2> QED BY <1>1, <2>1, <2>2, <2>3, <2>4, <2>5, <2>6 DEF Start
<1>2. CASE InsertRow(r) BY <1>2 DEF InsertRow
<1>3. CASE ImportRow(r)
  <2>1. PICK i \in Inputs, m \in {0, month[r]} :
             i.kind = "imported" /\ monthOf' = [monthOf EXCEPT ![i] = m]
    BY <1>3, ImportRowMonths
  <2>2. \A j \in Rolled : monthOf'[j] = monthOf[j]
    BY <2>1
  <2>3. \A q \in Requests \ {r} : pc'[q] = pc[q] /\ work'[q] = work[q]
    BY <1>3, ImportRowMonths
  <2>4. pc'[r] \in {"idle", "import"}
    BY <1>3, ImportRowMonths
  <2> QED BY <2>2, <2>3, <2>4
<1>4. CASE CheckMonth(r) BY <1>4 DEF CheckMonth
<1>5. CASE CheckNextMonth(r) BY <1>5 DEF CheckNextMonth
<1>6. CASE UpdateRow(r) BY <1>6 DEF UpdateRow
<1>7. CASE ReadInputs(r) BY <1>7 DEF ReadInputs
<1>8. CASE ReadCarry(r) BY <1>8 DEF ReadCarry
<1>9. CASE CalculateSettlement(r) BY <1>9 DEF CalculateSettlement
<1>10. CASE GenerateRecheck(r) BY <1>10 DEF GenerateRecheck
<1>11. CASE GenerateWrite(r) BY <1>11 DEF GenerateWrite
<1>12. CASE ConfirmWrite(r) BY <1>12 DEF ConfirmWrite
<1>13. CASE LockMonthRead(r) BY <1>13 DEF LockMonthRead
<1>14. CASE LockMonthWrite(r) BY <1>14 DEF LockMonthWrite
<1>15. CASE RollForwardWrite(r) BY <1>15 DEF RollForwardWrite
<1>16. CASE \E e \in Employees : RollForwardFind(r, e) BY <1>16 DEF RollForwardFind
<1>17. CASE Abort(r) BY <1>17 DEF Abort
<1> QED
  BY <1>1, <1>2, <1>3, <1>4, <1>5, <1>6, <1>7, <1>8, <1>9, <1>10, <1>11, <1>12, <1>13, <1>14,
      <1>15, <1>16, <1>17 DEF Step, Continue

\* The lock is taken in order: confirmed, locked, rolled.
LEMMA LockStep ==
  ASSUME IInv, NEW r \in Requests, Step(r)
  PROVE  LockAfterConfirm' /\ RollAfterLock'
<1> USE DEF IInv, ControlOK, ShapeOK, LockAfterConfirm, RollAfterLock, Months, Begin, Idle,
    Finish, Goto, assertWritable, isLocked, books
<1>1. ASSUME NEW m \in Months, Start(r, m) PROVE LockAfterConfirm' /\ RollAfterLock'
  <2>1. CASE CreateCheck(r, m) BY <2>1 DEF CreateCheck
  <2>2. CASE ImportCheck(r, m) BY <2>2 DEF ImportCheck
  <2>3. CASE GetRow(r, m) BY <2>3 DEF GetRow
  <2>4. CASE GenerateStart(r, m) BY <2>4 DEF GenerateStart
  <2>5. CASE ConfirmRead(r, m) BY <2>5 DEF ConfirmRead
  <2>6. CASE LockRead(r, m) BY <2>6 DEF LockRead
  <2> QED BY <1>1, <2>1, <2>2, <2>3, <2>4, <2>5, <2>6 DEF Start
<1>2. CASE InsertRow(r) BY <1>2 DEF InsertRow
<1>3. CASE ImportRow(r) BY <1>3 DEF ImportRow
<1>4. CASE CheckMonth(r) BY <1>4 DEF CheckMonth
<1>5. CASE CheckNextMonth(r) BY <1>5 DEF CheckNextMonth
<1>6. CASE UpdateRow(r) BY <1>6 DEF UpdateRow
<1>7. CASE ReadInputs(r) BY <1>7 DEF ReadInputs
<1>8. CASE ReadCarry(r) BY <1>8 DEF ReadCarry
<1>9. CASE CalculateSettlement(r) BY <1>9 DEF CalculateSettlement
<1>10. CASE GenerateRecheck(r) BY <1>10 DEF GenerateRecheck
<1>11. CASE GenerateWrite(r) BY <1>11 DEF GenerateWrite
<1>12. CASE ConfirmWrite(r) BY <1>12 DEF ConfirmWrite
<1>13. CASE LockMonthRead(r) BY <1>13 DEF LockMonthRead
<1>14. CASE LockMonthWrite(r) BY <1>14 DEF LockMonthWrite
<1>15. CASE RollForwardWrite(r) BY <1>15 DEF RollForwardWrite
<1>16. CASE \E e \in Employees : RollForwardFind(r, e) BY <1>16 DEF RollForwardFind
<1>17. CASE Abort(r) BY <1>17 DEF Abort
<1> QED
  BY <1>1, <1>2, <1>3, <1>4, <1>5, <1>6, <1>7, <1>8, <1>9, <1>10, <1>11, <1>12, <1>13, <1>14,
      <1>15, <1>16, <1>17 DEF Step, Continue

\* Only the roll-forward of a locked month creates its rolled rows.
LEMMA CarryStep ==
  ASSUME IInv, NEW r \in Requests, Step(r)
  PROVE  CarryOnlyAfterLock'
<1> USE LifecycleAssumption, IdKinds DEF IInv, ControlOK, RollAfterLock, CarryOnlyAfterLock,
    Rolled, NewRolled, Months, nextSettlementMonth, Begin, Idle, Finish, Goto,
    assertWritable, isLocked, books
<1>1. ASSUME NEW m \in Months, Start(r, m) PROVE CarryOnlyAfterLock'
  <2>1. CASE CreateCheck(r, m) BY <2>1 DEF CreateCheck
  <2>2. CASE ImportCheck(r, m) BY <2>2 DEF ImportCheck
  <2>3. CASE GetRow(r, m) BY <2>3 DEF GetRow
  <2>4. CASE GenerateStart(r, m) BY <2>4 DEF GenerateStart
  <2>5. CASE ConfirmRead(r, m) BY <2>5 DEF ConfirmRead
  <2>6. CASE LockRead(r, m) BY <2>6 DEF LockRead
  <2> QED BY <1>1, <2>1, <2>2, <2>3, <2>4, <2>5, <2>6 DEF Start
<1>2. CASE InsertRow(r) BY <1>2 DEF InsertRow
<1>3. CASE ImportRow(r)
  <2>1. PICK i \in Inputs, m \in {0, month[r]} :
             i.kind = "imported" /\ monthOf' = [monthOf EXCEPT ![i] = m]
    BY <1>3, ImportRowMonths
  <2>2. \A j \in Rolled : monthOf'[j] = monthOf[j]
    BY <2>1
  <2> QED BY <1>3, <2>2, ImportRowMonths
<1>4. CASE CheckMonth(r) BY <1>4 DEF CheckMonth
<1>5. CASE CheckNextMonth(r) BY <1>5 DEF CheckNextMonth
<1>6. CASE UpdateRow(r) BY <1>6 DEF UpdateRow
<1>7. CASE ReadInputs(r) BY <1>7 DEF ReadInputs
<1>8. CASE ReadCarry(r) BY <1>8 DEF ReadCarry
<1>9. CASE CalculateSettlement(r) BY <1>9 DEF CalculateSettlement
<1>10. CASE GenerateRecheck(r) BY <1>10 DEF GenerateRecheck
<1>11. CASE GenerateWrite(r) BY <1>11 DEF GenerateWrite
<1>12. CASE ConfirmWrite(r) BY <1>12 DEF ConfirmWrite
<1>13. CASE LockMonthRead(r) BY <1>13 DEF LockMonthRead
<1>14. CASE LockMonthWrite(r) BY <1>14 DEF LockMonthWrite
<1>15. CASE RollForwardWrite(r) BY <1>15 DEF RollForwardWrite
<1>16. CASE \E e \in Employees : RollForwardFind(r, e) BY <1>16 DEF RollForwardFind
<1>17. CASE Abort(r) BY <1>17 DEF Abort
<1> QED
  BY <1>1, <1>2, <1>3, <1>4, <1>5, <1>6, <1>7, <1>8, <1>9, <1>10, <1>11, <1>12, <1>13, <1>14,
      <1>15, <1>16, <1>17 DEF Step, Continue

\* IInv is inductive.
LEMMA NextIInv ==
  ASSUME IInv, [Next]_vars
  PROVE  IInv'
<1>1. CASE UNCHANGED vars
  BY <1>1 DEF vars, IInv, ControlOK, ShapeOK, ByIdOK, ById, LockAfterConfirm, RollAfterLock,
              CarryOnlyAfterLock, Rolled
<1>2. ASSUME NEW r \in Requests, Step(r) PROVE IInv'
  BY <1>2, ControlStep, ShapeStep, ByIdStep, LockStep, CarryStep DEF IInv
<1> QED
  BY <1>1, <1>2 DEF Next, Step

\* The strengthened invariant holds of every reachable state.
THEOREM Invariance == Spec => []IInv
<1>1. IInv /\ [Next]_vars => IInv'
  BY NextIInv
<1> QED
  BY <1>1, InitIInv, PTL DEF Spec

\* The control state keeps its types: every handler leaves each settlement in
\* one of its statuses and each request at a call of its handler.
THEOREM ControlTypeCorrect == Spec => []ControlOK
<1>1. IInv => ControlOK
  BY DEF IInv
<1> QED
  BY <1>1, Invariance, PTL

\* No loss leaves a month that was never locked, whatever is in flight.
THEOREM CarryFollowsLock == Spec => []CarryOnlyAfterLock
<1>1. IInv => CarryOnlyAfterLock
  BY DEF IInv
<1> QED
  BY <1>1, Invariance, PTL

\* A lock takes a month from confirmed, or finds it locked already.
LEMMA LockStepFromConfirmed ==
  ASSUME IInv, [Next]_vars, NEW m \in Months, status'[m] = "locked"
  PROVE  status[m] \in {"confirmed", "locked"}
<1> USE DEF IInv, ControlOK, LockAfterConfirm, Begin, Finish, Goto, assertWritable, books
<1>1. CASE UNCHANGED vars
  BY <1>1 DEF vars
<1>2. ASSUME NEW r \in Requests, NEW n \in Months, Start(r, n)
      PROVE  status[m] \in {"confirmed", "locked"}
  BY <1>2 DEF Start, CreateCheck, ImportCheck, GetRow, GenerateStart, ConfirmRead, LockRead
<1>3. ASSUME NEW r \in Requests, Continue(r) \/ Abort(r)
      PROVE  status[m] \in {"confirmed", "locked"}
  <2>1. CASE GenerateWrite(r) BY <2>1 DEF GenerateWrite
  <2>2. CASE ConfirmWrite(r) BY <2>2 DEF ConfirmWrite
  <2>3. CASE LockMonthWrite(r) BY <2>3 DEF LockMonthWrite
  <2>4. CASE UNCHANGED status BY <2>4
  <2> QED
    BY <1>3, <2>1, <2>2, <2>3, <2>4
    DEF Continue, Abort, InsertRow, ImportRow, CheckMonth, CheckNextMonth, UpdateRow,
        ReadInputs,
        ReadCarry, CalculateSettlement, GenerateRecheck, LockMonthRead, RollForwardFind,
        RollForwardWrite
<1> QED
  BY <1>1, <1>2, <1>3 DEF Next

\* However generation, confirmation and lock interleave, a month is only ever
\* locked while it is confirmed.
THEOREM OnlyConfirmedIsLocked == Spec => LockedOnlyFromConfirmed
<1>1. IInv /\ [Next]_vars
        => [\A m \in Months : status'[m] = "locked" => status[m] \in {"confirmed", "locked"}]_vars
  BY LockStepFromConfirmed
<1> QED
  BY <1>1, Invariance, PTL DEF Spec, LockedOnlyFromConfirmed

-----------------------------------------------------------------------------
(* The lock as a ledger.  What a step of request r leaves of month m when m *)
(* is sealed: its page, and the right to come back only through a check.    *)

Frame(r, m) ==
    /\ \A q \in Requests \ {r} : pc'[q] = pc[q] /\ month'[q] = month[q] /\ work'[q] = work[q]
    /\ status'[m] = status[m] /\ details'[m] = details[m]
    /\ \A i \in Inputs : /\ monthOf'[i] = m <=> monthOf[i] = m
                         /\ monthOf[i] = m => rows'[i] = rows[i]
    /\ \A i \in Ids : monthOf'[i] = m => monthOf[i] = m \/ (i \in Rolled /\ monthOf[i] = 0)
    /\ m \in Touches(r)' => m \in Checks(r)'

\* Administrators leave imported rows in the month of their external key...
StayPut == \A i \in Movable : i.kind # "imported"

\* ...and so does everything else.
InPlace == \A i \in Ids : i.kind = "imported" => monthOf[i] \in {0, i.month}

\* A request that begins checks every month it may touch.
LEMMA StartFrame ==
  ASSUME IInv, NEW r \in Requests, NEW n \in Months, Start(r, n), NEW m \in Months, Sealed(m)
  PROVE  Frame(r, m)
<1> USE DEF IInv, ControlOK, ShapeOK, ByIdOK, ById, Months, Frame, Sealed, Touches, Checks,
    Begin, Idle, Finish, Goto, assertWritable, isLocked, books
<1>1. CASE CreateCheck(r, n) BY <1>1 DEF CreateCheck
<1>2. CASE ImportCheck(r, n) BY <1>2 DEF ImportCheck
<1>3. CASE GetRow(r, n) BY <1>3 DEF GetRow
<1>4. CASE GenerateStart(r, n) BY <1>4 DEF GenerateStart
<1>5. CASE ConfirmRead(r, n) BY <1>5 DEF ConfirmRead
<1>6. CASE LockRead(r, n) BY <1>6 DEF LockRead
<1> QED BY <1>1, <1>2, <1>3, <1>4, <1>5, <1>6 DEF Start

\* A request under way writes only months that its last check found unlocked,
\* or found unlocked before they were sealed.
LEMMA ContinueFrame ==
  ASSUME IInv, StayPut, InPlace, NEW r \in Requests, Continue(r) \/ Abort(r),
         NEW m \in Months, Sealed(m)
  PROVE  Frame(r, m)
<1> USE LifecycleAssumption, IdKinds
    DEF IInv, ControlOK, ShapeOK, ByIdOK, ById, Months, Frame, Sealed, Touches, Checks,
        StayPut, InPlace,
        Inputs, Rolled, nextSettlementMonth, Begin, Idle, Finish, Goto, assertWritable, isLocked, books
<1>1. CASE InsertRow(r)
  <2>1. PICK i \in Ids : /\ i.kind = "entered" /\ monthOf[i] = 0
                         /\ monthOf' = [monthOf EXCEPT ![i] = month[r]]
                         /\ \E row : rows' = [rows EXCEPT ![i] = row]
    BY <1>1 DEF InsertRow
  <2>2. month[r] # m
    BY <1>1 DEF InsertRow
  <2>3. \A j \in Ids : monthOf'[j] = m <=> monthOf[j] = m
    BY <2>1, <2>2
  <2>4. \A j \in Ids : monthOf[j] = m => rows'[j] = rows[j]
    BY <2>1, <2>2
  <2>5. /\ \A q \in Requests \ {r} : pc'[q] = pc[q] /\ month'[q] = month[q] /\ work'[q] = work[q]
        /\ status' = status /\ details' = details /\ pc'[r] = "idle"
    BY <1>1 DEF InsertRow
  <2> QED
    BY <2>3, <2>4, <2>5
<1>2. CASE ImportRow(r) BY <1>2 DEF ImportRow
<1>3. CASE CheckMonth(r) BY <1>3 DEF CheckMonth
<1>4. CASE CheckNextMonth(r) BY <1>4 DEF CheckNextMonth
<1>5. CASE UpdateRow(r) BY <1>5 DEF UpdateRow
<1>6. CASE ReadInputs(r) BY <1>6 DEF ReadInputs
<1>7. CASE ReadCarry(r) BY <1>7 DEF ReadCarry
<1>8. CASE CalculateSettlement(r) BY <1>8 DEF CalculateSettlement
<1>9. CASE GenerateRecheck(r) BY <1>9 DEF GenerateRecheck
<1>10. CASE GenerateWrite(r) BY <1>10 DEF GenerateWrite
<1>11. CASE ConfirmWrite(r) BY <1>11 DEF ConfirmWrite
<1>12. CASE LockMonthRead(r) BY <1>12 DEF LockMonthRead
<1>13. CASE LockMonthWrite(r) BY <1>13 DEF LockMonthWrite
<1>14. CASE RollForwardWrite(r)
  <2>1. \A i \in Ids \ Rolled : monthOf'[i] = monthOf[i] /\ rows'[i] = rows[i]
    BY <1>14 DEF RollForwardWrite
  <2>2. \A i \in Rolled : monthOf'[i] = monthOf[i] \/ monthOf[i] = 0
    BY <1>14 DEF RollForwardWrite, NewRolled
  <2>3. /\ \A q \in Requests \ {r} : pc'[q] = pc[q] /\ month'[q] = month[q] /\ work'[q] = work[q]
        /\ status' = status /\ details' = details /\ pc'[r] = "idle"
    BY <1>14 DEF RollForwardWrite
  <2> QED
    BY <2>1, <2>2, <2>3
<1>15. CASE \E e \in Employees : RollForwardFind(r, e) BY <1>15 DEF RollForwardFind
<1>16. CASE Abort(r) BY <1>16 DEF Abort
<1> QED
  BY <1>1, <1>2, <1>3, <1>4, <1>5, <1>6, <1>7, <1>8, <1>9, <1>10, <1>11, <1>12, <1>13, <1>14,
      <1>15, <1>16 DEF Continue

\* A sealed month keeps its seal and its page when every request does.
LEMMA FrameKeepsSeal ==
  ASSUME IInv, NEW r \in Requests, NEW m \in Months, Sealed(m), Frame(r, m)
  PROVE  Sealed(m)' /\ book'[m] = book[m]
<1>1. status'[m] = "locked"
  BY DEF Frame, Sealed, isLocked
<1>2. ASSUME NEW q \in Requests \ {r}, m \in Touches(q)' PROVE m \in Checks(q)'
  <2>1. pc'[q] = pc[q] /\ month'[q] = month[q] /\ work'[q] = work[q]
    BY DEF Frame
  <2>2. m \in Touches(q) => m \in Checks(q)
    BY DEF Sealed
  <2>3. CASE ~ById(q)
    BY <1>2, <2>1, <2>2, <2>3 DEF Touches, Checks, ById
  <2>4. CASE ById(q)
    <3>1. work[q].id \in Ids /\ (work[q].id \in Rolled => monthOf[work[q].id] # 0)
      BY <2>4 DEF IInv, ByIdOK
    <3>2. monthOf'[work[q].id] = m => monthOf[work[q].id] = m
      BY <3>1 DEF Frame
    <3>3. m \in Touches(q)
      BY <1>2, <2>1, <2>4, <3>2 DEF Touches, ById
    <3> QED
      BY <2>1, <2>2, <3>3 DEF Checks
  <2> QED
    BY <2>3, <2>4
<1>3. m \in Touches(r)' => m \in Checks(r)'
  BY DEF Frame
<1>4. book'[m] = book[m]
  <2>1. \A i \in Inputs : (IF monthOf'[i] = m THEN rows'[i] ELSE NoRow)
                          = (IF monthOf[i] = m THEN rows[i] ELSE NoRow)
    BY DEF Frame
  <2> QED
    BY <2>1 DEF Frame, book, Inputs
<1> QED
  BY <1>1, <1>2, <1>3, <1>4 DEF Sealed, isLocked

\* What an update by id does to the months of the rows.
LEMMA UpdateRowMonths ==
  ASSUME NEW r \in Requests, UpdateRow(r)
  PROVE  \/ monthOf' = monthOf
         \/ monthOf' = [monthOf EXCEPT ![work[r].id] = monthOf[work[r].id]]
         \/ work[r].next # 0 /\ monthOf' = [monthOf EXCEPT ![work[r].id] = work[r].next]
  BY DEF UpdateRow

\* Imported rows stay where they are when nobody moves them.
LEMMA InPlaceStep ==
  ASSUME IInv, StayPut, InPlace, [Next]_vars
  PROVE  InPlace'
<1> USE LifecycleAssumption, IdKinds DEF IInv, ControlOK, InPlace, books
<1>1. CASE UNCHANGED vars
  BY <1>1 DEF vars
<1>2. ASSUME NEW r \in Requests, NEW n \in Months, Start(r, n) PROVE InPlace'
  BY <1>2 DEF Start, CreateCheck, ImportCheck, GetRow, GenerateStart, ConfirmRead, LockRead
<1>3. ASSUME NEW r \in Requests, Continue(r) \/ Abort(r) PROVE InPlace'
  <2>1. CASE UNCHANGED monthOf BY <2>1
  <2>2. CASE InsertRow(r) BY <2>2 DEF InsertRow
  <2>3. CASE ImportRow(r)
    <3>1. PICK i \in Inputs, n \in {0, month[r]} :
            i.month = month[r] /\ monthOf' = [monthOf EXCEPT ![i] = n]
      BY <2>3, ImportRowMonths
    <3> QED
      BY <3>1
  <2>4. CASE UpdateRow(r)
    <3>1. work[r].next # 0 => work[r].id.kind # "imported"
      BY <2>4 DEF UpdateRow, ByIdOK, ById, StayPut
    <3> QED
      BY <2>4, <3>1, UpdateRowMonths
  <2>5. CASE RollForwardWrite(r)
    BY <2>5 DEF RollForwardWrite, NewRolled, Rolled
  <2> QED
    BY <1>3, <2>1, <2>2, <2>3, <2>4, <2>5
    DEF Continue, Abort, CheckMonth, CheckNextMonth, ReadInputs, ReadCarry, CalculateSettlement,
        GenerateRecheck, GenerateWrite, ConfirmWrite, LockMonthRead, LockMonthWrite, RollForwardFind
<1> QED
  BY <1>1, <1>2, <1>3 DEF Next

\* Every behaviour of the handlers is a behaviour of the ledger, as long as no
\* imported row is given another month: once a month is locked and the requests
\* that overlapped the lock are over, its status, its details and the input rows
\* in it are final.
THEOREM SealedMonthsAreFinal ==
  ASSUME StayPut
  PROVE  Spec => SealedIsFinal
<1>1. Init => InPlace
  BY DEF Init, InPlace
<1>2. IInv /\ InPlace /\ [Next]_vars => InPlace'
  BY InPlaceStep
<1>3. Init => Ledger!Init
  BY DEF Init, Ledger!Init, sealedMonths, Sealed, isLocked
<1>4. IInv /\ InPlace /\ [Next]_vars => [Ledger!Next]_<<book, sealedMonths>>
  <2> SUFFICES ASSUME IInv, InPlace, [Next]_vars
               PROVE  [Ledger!Next]_<<book, sealedMonths>>
    OBVIOUS
  <2>1. CASE UNCHANGED vars
    BY <2>1 DEF vars, book, sealedMonths, Sealed, isLocked, Touches, Checks, ById
  <2>2. ASSUME NEW r \in Requests, Step(r) PROVE Ledger!Next
    <3>1. ASSUME NEW m \in Months, Sealed(m) PROVE Sealed(m)' /\ book'[m] = book[m]
      BY <2>2, <3>1, StartFrame, ContinueFrame, FrameKeepsSeal DEF Step
    <3> QED
      BY <3>1 DEF Ledger!Next, sealedMonths
  <2> QED
    BY <2>1, <2>2 DEF Next, Step
<1> QED
  BY <1>1, <1>2, <1>3, <1>4, Invariance, PTL DEF Spec, SealedIsFinal, Ledger!Spec

-----------------------------------------------------------------------------
(* One request at a time.  What an interleaving may break holds as long as *)
(* requests do not overlap: the lock sees what it locks, the roll-forward  *)
(* finds nothing rolled before, and no write passes its own check.         *)

OneAtATime == MaxActive = 1 /\ IsFiniteSet(Requests)

Alone == \A r, q \in Requests : ~Idle(r) /\ ~Idle(q) => r = q

\* Losses lie only beyond months that are locked, by the request that locked them.
CarryOfLocked == \A i \in Rolled : monthOf[i] # 0 => isLocked(i.month)

\* What the request has checked is still so when it writes...
WritesOpen(r) ==
    pc[r] \in {"read", "recheck", "upsert", "confirm", "insert", "import", "checkNext", "update"}
        => ~isLocked(month[r])

\* ...the row it read is still where it was...
MovesOpen(r) ==
    /\ ById(r) => monthOf[work[r].id] = month[r]
    /\ pc[r] = "checkNext" => work[r].next # 0
    /\ pc[r] = "update" => work[r].next = 0 \/ ~isLocked(work[r].next)

\* ...and a lock holds the details of the month it locks, of which nothing was rolled yet.
LocksAsRead(r) ==
    /\ pc[r] \in {"lockMonth", "lock"} => status[month[r]] = "confirmed"
    /\ pc[r] = "roll" => isLocked(month[r])
    /\ pc[r] \in {"lockMonth", "lock", "roll"} =>
        /\ work[r].details = details[month[r]]
        /\ HasDetails(details[month[r]])
        /\ work[r] = [details |-> work[r].details, found |-> work[r].found]
        /\ work[r].found = [e \in Employees |-> work[r].found[e]]
        /\ \A e \in Employees : work[r].found[e] \in {Unread, NoRow}
        /\ \A i \in Rolled : i.month = month[r] => monthOf[i] = 0

Held(r) == WritesOpen(r) /\ MovesOpen(r) /\ LocksAsRead(r)

Serial == Alone /\ CarryOfLocked /\ LockedHasDetails /\ \A r \in Requests : Held(r)

\* A request begins only when no other is in flight.
LEMMA BeginAlone ==
  ASSUME OneAtATime, NEW r, NEW o, NEW m, NEW next, NEW w, Begin(r, o, m, next, w)
  PROVE  \A q \in Requests : Idle(q)
<1>1. IsFiniteSet(Active) /\ Cardinality(Active) < 1
  <2>1. Active \subseteq Requests
    BY DEF Active
  <2> QED
    BY <2>1, FS_Subset DEF OneAtATime, Begin
<1>2. Cardinality(Active) = 0
  BY <1>1, FS_CardinalityType
<1>3. Active = {}
  BY <1>1, <1>2, FS_EmptySet
<1> QED
  BY <1>3 DEF Active

\* A step moves one request.
LEMMA OneMoves ==
  ASSUME IInv, NEW r \in Requests, Step(r)
  PROVE  \A q \in Requests \ {r} : pc'[q] = pc[q]
<1> USE DEF IInv, ControlOK, Begin, Finish, Goto, assertWritable
<1>1. ASSUME NEW m \in Months, Start(r, m) PROVE \A q \in Requests \ {r} : pc'[q] = pc[q]
  BY <1>1 DEF Start, CreateCheck, ImportCheck, GetRow, GenerateStart, ConfirmRead, LockRead
<1>2. CASE Continue(r) \/ Abort(r)
  BY <1>2 DEF Continue, Abort, InsertRow, ImportRow, CheckMonth, CheckNextMonth, UpdateRow,
       ReadInputs, ReadCarry, CalculateSettlement, GenerateRecheck, GenerateWrite, ConfirmWrite,
       LockMonthRead, LockMonthWrite, RollForwardFind, RollForwardWrite
<1> QED
  BY <1>1, <1>2 DEF Step

\* Whoever moves is alone.
LEMMA OthersIdle ==
  ASSUME OneAtATime, IInv, Alone, NEW r \in Requests, Step(r)
  PROVE  \A q \in Requests \ {r} : Idle(q) /\ Idle(q)'
<1>1. ASSUME NEW m \in Months, Start(r, m) PROVE \A q \in Requests \ {r} : Idle(q)
  BY <1>1, BeginAlone
  DEF Start, CreateCheck, ImportCheck, GetRow, GenerateStart, ConfirmRead, LockRead
<1>2. ASSUME Continue(r) \/ Abort(r) PROVE \A q \in Requests \ {r} : Idle(q)
  <2>1. ~Idle(r)
    BY <1>2 DEF Continue, Abort, Idle, InsertRow, ImportRow, CheckMonth, CheckNextMonth,
         UpdateRow, ReadInputs, ReadCarry, CalculateSettlement, GenerateRecheck, GenerateWrite,
         ConfirmWrite, LockMonthRead, LockMonthWrite, RollForwardFind, RollForwardWrite
  <2> QED
    BY <2>1 DEF Alone
<1> QED
  BY <1>1, <1>2, OneMoves DEF Step, Idle

\* Only the roll-forward creates rolled rows, with the month it works on.
LEMMA OnlyRollCarries ==
  ASSUME IInv, NEW r \in Requests, Step(r), NEW i \in Rolled, monthOf[i] = 0, monthOf'[i] # 0
  PROVE  RollForwardWrite(r) /\ i.month = month[r]
<1> USE IdKinds DEF IInv, ControlOK, Rolled, books
<1>1. ASSUME NEW m \in Months, Start(r, m) PROVE FALSE
  BY <1>1 DEF Start, CreateCheck, ImportCheck, GetRow, GenerateStart, ConfirmRead, LockRead
<1>2. CASE InsertRow(r) BY <1>2 DEF InsertRow
<1>3. CASE ImportRow(r) BY <1>3, ImportRowMonths
<1>4. CASE UpdateRow(r)
  <2>1. \/ UNCHANGED monthOf
        \/ monthOf[work[r].id] # 0 /\ \E m : monthOf' = [monthOf EXCEPT ![work[r].id] = m]
    BY <1>4 DEF UpdateRow
  <2> QED
    BY <2>1
<1>5. CASE RollForwardWrite(r)
  <2> DEFINE owing == Owing(work[r].details)
             fresh == {e \in owing : work[r].found[e] = NoRow}
  <2>1. PICK at \in [owing -> Rolled] :
           /\ \A e \in owing :
                at[e] \in IF e \in fresh THEN NewRolled(month[r], e) ELSE {work[r].found[e]}
           /\ monthOf' = [j \in Ids |-> IF j \in {at[e] : e \in fresh}
                                        THEN nextSettlementMonth(month[r]) ELSE monthOf[j]]
    BY <1>5 DEF RollForwardWrite
  <2>2. PICK e \in fresh : i = at[e]
    BY <2>1
  <2>3. i \in NewRolled(month[r], e)
    BY <2>1, <2>2
  <2> QED
    BY <1>5, <2>3 DEF NewRolled
<1>6. CASE UNCHANGED monthOf BY <1>6
<1> QED
  BY <1>1, <1>2, <1>3, <1>4, <1>5, <1>6
  DEF Step, Continue, Abort, CheckMonth, CheckNextMonth, ReadInputs, ReadCarry,
      CalculateSettlement, GenerateRecheck, GenerateWrite, ConfirmWrite, LockMonthRead,
      LockMonthWrite, RollForwardFind

\* A locked month keeps its status and its details, and a lock that is taken keeps the
\* details it was asked with.
LEMMA LocksStay ==
  ASSUME IInv, NEW r \in Requests, Held(r), Step(r), NEW m \in Months
  PROVE  /\ isLocked(m) => isLocked(m)' /\ details'[m] = details[m]
         /\ ~isLocked(m) /\ isLocked(m)' =>
              LockMonthWrite(r) /\ m = month[r] /\ details'[m] = details[m] /\ HasDetails(details[m])
<1> USE DEF IInv, ControlOK, ShapeOK, isLocked, Held, WritesOpen, LocksAsRead, books
<1>1. CASE GenerateWrite(r) BY <1>1 DEF GenerateWrite
<1>2. CASE ConfirmWrite(r) BY <1>2 DEF ConfirmWrite
<1>3. CASE LockMonthWrite(r) BY <1>3 DEF LockMonthWrite
<1>4. CASE UNCHANGED <<status, details>> BY <1>4
<1> QED
  BY <1>1, <1>2, <1>3, <1>4
  DEF Step, Start, CreateCheck, ImportCheck, GetRow, GenerateStart, ConfirmRead, LockRead,
      Continue, Abort, InsertRow, ImportRow, CheckMonth, CheckNextMonth, UpdateRow, ReadInputs,
      ReadCarry, CalculateSettlement, GenerateRecheck, LockMonthRead, RollForwardFind,
      RollForwardWrite

\* What a request that begins has read is so.
LEMMA StartHeld ==
  ASSUME IInv, Serial, NEW r \in Requests, NEW m \in Months, Start(r, m)
  PROVE  Held(r)'
<1> USE LifecycleAssumption, IdKinds
    DEF IInv, ControlOK, ShapeOK, Serial, CarryOfLocked, Held, WritesOpen, MovesOpen, LocksAsRead,
        ById, isLocked, Begin, books, Months
<1>1. CASE CreateCheck(r, m) BY <1>1 DEF CreateCheck
<1>2. CASE ImportCheck(r, m) BY <1>2 DEF ImportCheck
<1>3. CASE GetRow(r, m) BY <1>3 DEF GetRow
<1>4. CASE GenerateStart(r, m) BY <1>4 DEF GenerateStart
<1>5. CASE ConfirmRead(r, m) BY <1>5 DEF ConfirmRead
<1>6. CASE LockRead(r, m)
  <2>1. /\ pc'[r] = "lockMonth" /\ month'[r] = m
        /\ work'[r] = [details |-> details[m], found |-> [e \in Employees |-> Unread]]
        /\ status[m] = "confirmed" /\ HasDetails(details[m])
        /\ UNCHANGED <<status, details, monthOf>>
    BY <1>6 DEF LockRead
  <2>2. \A i \in Rolled : i.month = m => monthOf[i] = 0
    BY <2>1
  <2>3. WritesOpen(r)' /\ MovesOpen(r)'
    BY <2>1
  <2>4. LocksAsRead(r)'
    BY <2>1, <2>2 DEF HasDetails
  <2> QED
    BY <2>3, <2>4
<1> QED
  BY <1>1, <1>2, <1>3, <1>4, <1>5, <1>6 DEF Start

\* What it has read stays so until it writes.
LEMMA ContinueHeld ==
  ASSUME IInv, Serial, NEW r \in Requests, Continue(r) \/ Abort(r)
  PROVE  Held(r)'
<1> USE LifecycleAssumption, IdKinds
    DEF IInv, ControlOK, ShapeOK, ByIdOK, Serial, Held, WritesOpen, MovesOpen, LocksAsRead,
        ById, isLocked, Finish, Goto, assertWritable, books, Months
<1>1. CASE InsertRow(r) BY <1>1 DEF InsertRow
<1>2. CASE ImportRow(r)
  <2>1. pc[r] = "import" /\ pc'[r] \in {"idle", "import"} /\ UNCHANGED <<status, month>>
    BY <1>2, ImportRowMonths
  <2> QED
    BY <2>1
<1>3. CASE CheckMonth(r)
  <2>1. /\ pc[r] = "check" /\ UNCHANGED <<status, details, monthOf, month>>
        /\ \/ pc'[r] = "idle"
           \/ /\ ~isLocked(month[r]) /\ work' = work
              /\ pc'[r] = IF work[r].next \in {0, month[r]} THEN "update" ELSE "checkNext"
    BY <1>3 DEF CheckMonth
  <2> QED
    BY <2>1
<1>4. CASE CheckNextMonth(r) BY <1>4 DEF CheckNextMonth
<1>5. CASE UpdateRow(r) BY <1>5 DEF UpdateRow
<1>6. CASE ReadInputs(r) BY <1>6 DEF ReadInputs
<1>7. CASE ReadCarry(r) BY <1>7 DEF ReadCarry
<1>8. CASE CalculateSettlement(r) BY <1>8 DEF CalculateSettlement
<1>9. CASE GenerateRecheck(r) BY <1>9 DEF GenerateRecheck
<1>10. CASE GenerateWrite(r) BY <1>10 DEF GenerateWrite
<1>11. CASE ConfirmWrite(r) BY <1>11 DEF ConfirmWrite
<1>12. CASE LockMonthRead(r)
  <2>1. /\ pc[r] = "lockMonth" /\ ~isLocked(month[r])
    BY <1>12 DEF LockMonthRead
  <2>2. /\ pc'[r] = "lock" /\ work' = work /\ UNCHANGED <<status, details, monthOf, month>>
    BY <1>12, <2>1 DEF LockMonthRead
  <2> QED
    BY <2>1, <2>2 DEF HasDetails
<1>13. CASE LockMonthWrite(r) BY <1>13 DEF LockMonthWrite, HasDetails
<1>14. ASSUME NEW e \in Employees, RollForwardFind(r, e) PROVE Held(r)'
  <2>1. RolledTo(month[r], e) = {}
    <3>1. pc[r] = "roll" /\ month[r] \in Months
      BY <1>14 DEF RollForwardFind
    <3>2. \A i \in Rolled : i.month = month[r] => monthOf[i] = 0
      BY <3>1
    <3>3. month[r] + 1 # 0
      BY <3>1
    <3> QED
      BY <3>2, <3>3 DEF RolledTo, Counted, nextSettlementMonth, Rolled
  <2>2. work' = [work EXCEPT ![r].found[e] = NoRow]
    BY <1>14, <2>1 DEF RollForwardFind
  <2>3. /\ work'[r] = [work[r] EXCEPT !.found[e] = NoRow]
        /\ pc[r] = "roll" /\ UNCHANGED <<status, details, monthOf, pc, month>>
    BY <1>14, <2>2 DEF RollForwardFind
  <2>4. /\ work'[r] = [details |-> work[r].details, found |-> [work[r].found EXCEPT ![e] = NoRow]]
    BY <2>3
  <2>5. work[r].found = [d \in Employees |-> work[r].found[d]]
    BY <2>3
  <2> DEFINE found == [work[r].found EXCEPT ![e] = NoRow]
  <2>6. found = [d \in Employees |-> found[d]] /\ \A d \in Employees : found[d] \in {Unread, NoRow}
    BY <2>3, <2>5
  <2>7. work'[r].details = work[r].details /\ work'[r].found = found
    BY <2>4
  <2>8. /\ work'[r] = [details |-> work'[r].details, found |-> work'[r].found]
        /\ work'[r].found = [d \in Employees |-> work'[r].found[d]]
        /\ \A d \in Employees : work'[r].found[d] \in {Unread, NoRow}
    BY <2>4, <2>6, <2>7
  <2>9. HasDetails(details[month[r]])' /\ work'[r].details = details'[month'[r]]
    <3>1. pc[r] = "roll" => HasDetails(details[month[r]]) /\ work[r].details = details[month[r]]
      BY DEF HasDetails
    <3> QED
      BY <2>3, <2>7, <3>1 DEF HasDetails
  <2>10. LocksAsRead(r)'
    BY <2>3, <2>8, <2>9
  <2> QED
    BY <2>3, <2>10
<1>15. CASE RollForwardWrite(r) BY <1>15 DEF RollForwardWrite
<1>16. CASE Abort(r) BY <1>16 DEF Abort
<1> QED
  BY <1>1, <1>2, <1>3, <1>4, <1>5, <1>6, <1>7, <1>8, <1>9, <1>10, <1>11, <1>12, <1>13, <1>14,
      <1>15, <1>16 DEF Continue

\* Serial is inductive while one request at a time is admitted.
LEMMA SerialStep ==
  ASSUME OneAtATime, IInv, Serial, NEW r \in Requests, Step(r)
  PROVE  Serial'
<1>1. \A q \in Requests \ {r} : Idle(q) /\ Idle(q)'
  BY OthersIdle DEF Serial
<1>2. Alone'
  BY <1>1 DEF Alone
<1>3. Held(r)'
  BY StartHeld, ContinueHeld DEF Step
<1>4. \A q \in Requests : Held(q)'
  BY <1>1, <1>3 DEF Held, WritesOpen, MovesOpen, LocksAsRead, ById, Idle
<1>5. Held(r)
  BY DEF Serial
<1>6. CarryOfLocked'
  <2> SUFFICES ASSUME NEW i \in Rolled, monthOf'[i] # 0 PROVE isLocked(i.month)'
    BY DEF CarryOfLocked, Rolled
  <2>1. i.month \in Months
    BY IdKinds DEF Rolled
  <2>2. CASE monthOf[i] # 0
    BY <1>5, <2>1, <2>2, LocksStay DEF Serial, CarryOfLocked
  <2>3. CASE monthOf[i] = 0
    <3>1. RollForwardWrite(r) /\ i.month = month[r]
      BY <2>3, OnlyRollCarries
    <3>2. isLocked(month[r])
      BY <1>5, <3>1 DEF RollForwardWrite, Held, LocksAsRead
    <3> QED
      BY <1>5, <2>1, <3>1, <3>2, LocksStay
  <2> QED
    BY <2>2, <2>3
<1>7. LockedHasDetails'
  <2> SUFFICES ASSUME NEW m \in Months, isLocked(m)' PROVE HasDetails(details'[m])
    BY DEF LockedHasDetails, Months, HasDetails
  <2> QED
    BY <1>5, LocksStay DEF Serial, LockedHasDetails
<1> QED
  BY <1>2, <1>4, <1>6, <1>7 DEF Serial

LEMMA SerialInvariance ==
  ASSUME OneAtATime
  PROVE  Spec => []Serial
<1>1. Init => Serial
  BY DEF Init, Serial, Alone, Idle, CarryOfLocked, LockedHasDetails, Held, WritesOpen, MovesOpen,
         LocksAsRead, ById, isLocked, Rolled
<1>2. IInv /\ Serial /\ [Next]_vars => Serial'
  <2> SUFFICES ASSUME IInv, Serial, [Next]_vars PROVE Serial'
    OBVIOUS
  <2>1. CASE UNCHANGED vars
    BY <2>1 DEF vars, Serial, Alone, Idle, CarryOfLocked, LockedHasDetails, Held, WritesOpen,
                MovesOpen, LocksAsRead, ById, isLocked, Rolled, HasDetails
  <2> QED
    BY <2>1, SerialStep DEF Next, Step
<1> QED
  BY <1>1, <1>2, Invariance, PTL DEF Spec

-----------------------------------------------------------------------------
(* What the roll-forward and the handlers of a month do, one at a time.    *)

\* Rows at[e] of month m become the losses of the employees e that owe.
Rolls(m, at) ==
  /\ \A e \in Owing(details[m]) : at[e] \in NewRolled(m, e)
  /\ \A i \in Ids :
       IF \E e \in Owing(details[m]) : at[e] = i
       THEN /\ monthOf'[i] = m + 1
            /\ rows'[i] = [employee |-> i.employee, net |-> -details[m][i.employee],
                           counted |-> TRUE]
       ELSE monthOf'[i] = monthOf[i] /\ rows'[i] = rows[i]

\* A roll-forward that found nothing rolled before creates one row for each remaining
\* loss, in the month after, of that amount.
LEMMA RollForwardRows ==
  ASSUME IInv, Serial, NEW r \in Requests, RollForwardWrite(r), NEW m, m = month[r]
  PROVE  /\ m \in Months /\ isLocked(m) /\ details' = details /\ status' = status
         /\ \E at \in [Owing(details[m]) -> Rolled] : Rolls(m, at)
<1> DEFINE d == work[r].details
           owing == Owing(d)
           fresh == {e \in owing : work[r].found[e] = NoRow}
           for(at, i) == CHOOSE e \in owing : at[e] = i
<1>1. /\ m \in Months /\ isLocked(m) /\ details' = details /\ status' = status
      /\ d = details[m]
      /\ \A e \in Employees : work[r].found[e] \in {Unread, NoRow}
      /\ \A e \in owing : work[r].found[e] # Unread
  BY DEF IInv, ControlOK, Serial, Held, LocksAsRead, RollForwardWrite
<1>2. fresh = owing
  BY <1>1 DEF Owing
<1>3. PICK at \in [owing -> Rolled] :
         /\ \A e \in owing : at[e] \in IF e \in fresh THEN NewRolled(m, e) ELSE {work[r].found[e]}
         /\ monthOf' = [i \in Ids |-> IF i \in {at[e] : e \in fresh} THEN nextSettlementMonth(m)
                                                                    ELSE monthOf[i]]
         /\ rows' = [i \in Ids |->
                IF i \in {at[e] : e \in fresh}
                THEN [employee |-> for(at, i), net |-> -d[for(at, i)], counted |-> TRUE]
                ELSE IF i \in {at[e] : e \in owing}
                THEN [rows[i] EXCEPT !.net = -d[for(at, i)]]
                ELSE rows[i]]
  BY DEF RollForwardWrite
<1> HIDE DEF owing, d, fresh
<1>4. \A e \in owing : at[e] \in NewRolled(m, e)
  BY <1>2, <1>3
<1>5. \A e \in owing : for(at, at[e]) = e
  <2> SUFFICES ASSUME NEW e \in owing, NEW c \in owing, at[c] = at[e] PROVE c = e
    OBVIOUS
  <2>1. at[c].employee = c /\ at[e].employee = e
    BY <1>4 DEF NewRolled
  <2> QED
    BY <2>1
<1> HIDE DEF for
<1>6. ASSUME NEW i \in Ids
      PROVE  IF \E e \in owing : at[e] = i
             THEN /\ monthOf'[i] = m + 1
                  /\ rows'[i] = [employee |-> i.employee, net |-> -d[i.employee], counted |-> TRUE]
             ELSE monthOf'[i] = monthOf[i] /\ rows'[i] = rows[i]
  <2>1. CASE \E e \in owing : at[e] = i
    <3>1. PICK e \in owing : at[e] = i
      BY <2>1
    <3>2. i.employee = e /\ for(at, i) = e
      BY <1>4, <1>5, <3>1 DEF NewRolled
    <3>3. i \in {at[c] : c \in fresh}
      BY <1>2, <3>1
    <3> QED
      BY <1>3, <2>1, <3>2, <3>3 DEF nextSettlementMonth
  <2>2. CASE ~ \E e \in owing : at[e] = i
    BY <1>2, <1>3, <2>2
  <2> QED
    BY <2>1, <2>2
<1>7. owing = Owing(details[m])
  BY <1>1 DEF owing
<1>8. at \in [Owing(details[m]) -> Rolled] /\ Rolls(m, at)
  BY <1>1, <1>3, <1>4, <1>6, <1>7 DEF Rolls
<1> QED
  BY <1>1, <1>8

\* A step that creates rolled rows of a month creates what the locked month owes.
LEMMA RolledStep ==
  ASSUME OneAtATime, IInv, Serial, [Next]_vars, NEW m \in Months,
         NEW new, new = {i \in Rolled : i.month = m /\ monthOf[i] = 0 /\ monthOf'[i] # 0}, new # {}
  PROVE  /\ isLocked(m)
         /\ {i.employee : i \in new} = Owing(details[m])
         /\ \A i \in new :
              /\ monthOf'[i] = m + 1
              /\ rows'[i] = [employee |-> i.employee, net |-> -details[m][i.employee],
                             counted |-> TRUE]
<1>1. PICK j \in Rolled : j.month = m /\ monthOf[j] = 0 /\ monthOf'[j] # 0
  OBVIOUS
<1>2. PICK r \in Requests : Step(r)
  BY <1>1 DEF Next, Step, vars
<1>3. RollForwardWrite(r) /\ m = month[r]
  BY <1>1, <1>2, OnlyRollCarries
<1>4. isLocked(m)
  BY <1>3, RollForwardRows
<1> DEFINE owing == Owing(details[m])
<1>5. PICK at \in [owing -> Rolled] : Rolls(m, at)
  BY <1>3, RollForwardRows
<1> HIDE DEF owing
<1>6. ASSUME NEW i \in new PROVE \E e \in owing : at[e] = i
  BY <1>5 DEF Rolled, Rolls, owing
<1>7. ASSUME NEW e \in owing PROVE at[e] \in new /\ at[e].employee = e
  <2>1. at[e] \in Rolled /\ at[e] \in Ids /\ at[e].month = m /\ at[e].employee = e /\ monthOf[at[e]] = 0
    BY <1>5 DEF NewRolled, Rolled, Rolls, owing
  <2>2. \E d \in Owing(details[m]) : at[d] = at[e]
    BY DEF owing
  <2>3. monthOf'[at[e]] = m + 1
    BY <1>5, <2>1, <2>2 DEF Rolls
  <2>4. m + 1 # 0
    BY LifecycleAssumption DEF Months
  <2> QED
    BY <2>1, <2>3, <2>4
<1>8. {i.employee : i \in new} = owing
  BY <1>6, <1>7
<1>9. \A i \in new : i \in Ids
  BY DEF Rolled
<1> QED
  BY <1>4, <1>5, <1>6, <1>8, <1>9 DEF owing, Rolls

\* One request at a time, what is rolled is what the locked settlement owes, and all of it.
THEOREM WhatIsRolledWasLocked ==
  ASSUME OneAtATime
  PROVE  Spec => RolledAsLocked
<1>1. IInv /\ Serial /\ [Next]_vars =>
        [\A m \in Months :
            LET new == {i \in Rolled : i.month = m /\ monthOf[i] = 0 /\ monthOf'[i] # 0} IN
            new # {} =>
                /\ isLocked(m)
                /\ {i.employee : i \in new} = Owing(details[m])
                /\ \A i \in new :
                    /\ monthOf'[i] = m + 1
                    /\ rows'[i] = [employee |-> i.employee, net |-> -details[m][i.employee],
                                   counted |-> TRUE]]_vars
  BY RolledStep
<1> QED
  BY <1>1, Invariance, SerialInvariance, PTL DEF Spec, RolledAsLocked

\* One request at a time, no handler writes to a locked month: its status and details stay,
\* its input rows stay in it as they are, and its rolled rows change only by the
\* roll-forward of the month before.
LEMMA FrozenStep ==
  ASSUME OneAtATime, IInv, Serial, StayPut, InPlace, [Next]_vars, NEW m \in Months, isLocked(m)
  PROVE  /\ status'[m] = "locked"
         /\ details'[m] = details[m]
         /\ InputsOf(m)' = InputsOf(m)
         /\ CarryOnlyRolled(m)
<1> DEFINE Rest == InputsOf(m)' = InputsOf(m) /\ CarryOnlyRolled(m)
<1> USE LifecycleAssumption, IdKinds
<1>0. m # 0
  BY DEF Months
<1>1. ASSUME UNCHANGED <<monthOf, rows>> PROVE Rest
  BY <1>1 DEF InputsOf, CarryOnlyRolled, Inputs
<1>2. ASSUME NEW i \in Inputs, NEW x, NEW row, monthOf[i] # m, x # m,
             monthOf' = [monthOf EXCEPT ![i] = x], rows' = [rows EXCEPT ![i] = row]
      PROVE  Rest
  <2>1. \A j \in Ids : /\ monthOf'[j] = m <=> monthOf[j] = m
                       /\ monthOf[j] = m => rows'[j] = rows[j]
    BY <1>2 DEF IInv, ControlOK, ShapeOK
  <2>2. \A j \in Rolled : monthOf'[j] = monthOf[j] /\ rows'[j] = rows[j]
    BY <1>2 DEF IInv, ControlOK, ShapeOK, Inputs, Rolled
  <2>3. {j \in Inputs : monthOf'[j] = m} = {j \in Inputs : monthOf[j] = m}
    BY <2>1 DEF Inputs
  <2>4. InputsOf(m)' = InputsOf(m)
    BY <2>1, <2>3 DEF InputsOf, Inputs
  <2> QED
    BY <2>2, <2>4 DEF CarryOnlyRolled
<1>3. ASSUME NEW r \in Requests, InsertRow(r) PROVE Rest
  <2>1. month[r] # m
    BY <1>3 DEF InsertRow, Serial, Held, WritesOpen
  <2>2. PICK i \in Inputs : /\ monthOf[i] = 0 /\ monthOf' = [monthOf EXCEPT ![i] = month[r]]
                            /\ \E row : rows' = [rows EXCEPT ![i] = row]
    BY <1>3 DEF InsertRow, Inputs
  <2>3. PICK row : rows' = [rows EXCEPT ![i] = row]
    BY <2>2
  <2> HIDE DEF Rest
  <2> QED
    BY <1>0, <1>2, <2>1, <2>2, <2>3
<1>4. ASSUME NEW r \in Requests, ImportRow(r) PROVE Rest
  <2>1. month[r] # m
    BY <1>4 DEF ImportRow, Serial, Held, WritesOpen
  <2>2. PICK i \in Inputs, x \in {0, month[r]} :
           /\ i.kind = "imported" /\ i.month = month[r]
           /\ monthOf' = [monthOf EXCEPT ![i] = x]
           /\ \E row : rows' = [rows EXCEPT ![i] = row]
    BY <1>4, ImportRowMonths
  <2>3. monthOf[i] # m
    BY <1>0, <2>1, <2>2 DEF InPlace, Inputs
  <2>4. PICK row : rows' = [rows EXCEPT ![i] = row]
    BY <2>2
  <2> HIDE DEF Rest
  <2> QED
    BY <1>0, <1>2, <2>1, <2>2, <2>3, <2>4
<1>5. ASSUME NEW r \in Requests, UpdateRow(r) PROVE Rest
  <2> DEFINE i == work[r].id
             x == IF work[r].next = 0 THEN monthOf[i] ELSE work[r].next
  <2>1. /\ pc[r] = "update" /\ month[r] # m /\ monthOf[i] = month[r]
        /\ i \in Ids /\ (work[r].next = 0 \/ work[r].next # m)
    BY <1>5 DEF UpdateRow, IInv, ByIdOK, ById, Serial, Held, WritesOpen, MovesOpen
  <2>2. \/ UNCHANGED <<monthOf, rows>>
        \/ monthOf' = [monthOf EXCEPT ![i] = x] /\ \E row : rows' = [rows EXCEPT ![i] = row]
    BY <1>5 DEF UpdateRow
  <2>3. monthOf[i] # m /\ x # m
    BY <2>1
  <2> HIDE DEF i, x
  <2>4. CASE i \in Inputs
    BY <1>1, <1>2, <2>2, <2>3, <2>4
  <2>5. CASE i \notin Inputs
    <3>1. \A j \in Ids \ {i} : UNCHANGED <<monthOf[j], rows[j]>>
      BY <2>2 DEF IInv, ControlOK, ShapeOK
    <3>2. InputsOf(m)' = InputsOf(m)
      BY <2>5, <3>1 DEF InputsOf, Inputs
    <3>3. monthOf'[i] # m
      BY <2>1, <2>2, <2>3 DEF IInv, ControlOK
    <3> QED
      BY <2>3, <3>1, <3>2, <3>3 DEF CarryOnlyRolled, Rolled
  <2> QED
    BY <2>4, <2>5
<1>6. ASSUME NEW r \in Requests, RollForwardWrite(r) PROVE Rest
  <2>1. PICK n \in Months : n = month[r]
    BY DEF IInv, ControlOK
  <2>2. PICK at \in [Owing(details[n]) -> Rolled] : Rolls(n, at)
    BY <1>6, <2>1, RollForwardRows
  <2>3. ASSUME NEW i \in Ids, <<monthOf'[i], rows'[i]>> # <<monthOf[i], rows[i]>>
        PROVE  i \in Rolled /\ i.month = n
    <3>1. PICK e \in Owing(details[n]) : at[e] = i
      BY <2>2, <2>3 DEF Rolls
    <3> QED
      BY <2>2, <3>1 DEF Rolls, NewRolled
  <2>4. InputsOf(m)' = InputsOf(m)
    <3>1. \A i \in Inputs : monthOf'[i] = monthOf[i] /\ rows'[i] = rows[i]
      BY <2>3 DEF Inputs, Rolled
    <3> QED
      BY <3>1 DEF InputsOf
  <2>5. pc[r] = "roll" /\ pc'[r] = "idle"
    BY <1>6 DEF RollForwardWrite, Finish, Goto, IInv, ControlOK
  <2>6. CarryOnlyRolled(m)
    BY <2>1, <2>3, <2>5 DEF CarryOnlyRolled, Rolled
  <2> QED
    BY <2>4, <2>6
<1>7. Rest
  <2> HIDE DEF Rest
  <2>1. CASE UNCHANGED <<monthOf, rows>> BY <1>1, <2>1 DEF Rest
  <2> QED
    BY <1>3, <1>4, <1>5, <1>6, <2>1
    DEF Next, vars, books, Start, CreateCheck, ImportCheck, GetRow, GenerateStart, ConfirmRead,
        LockRead, Continue, Abort, CheckMonth, CheckNextMonth, ReadInputs, ReadCarry,
        CalculateSettlement, GenerateRecheck, GenerateWrite, ConfirmWrite, LockMonthRead,
        LockMonthWrite, RollForwardFind
<1>8. status'[m] = "locked" /\ details'[m] = details[m]
  <2>1. CASE UNCHANGED vars
    BY <2>1 DEF vars, isLocked
  <2>2. ASSUME NEW r \in Requests, Step(r) PROVE status'[m] = "locked" /\ details'[m] = details[m]
    BY <2>2, LocksStay DEF Serial, isLocked
  <2> QED
    BY <2>1, <2>2 DEF Next, Step
<1> QED
  BY <1>7, <1>8

\* One request at a time, a locked month stays locked, with its details and its inputs.
THEOREM LockedMonthsAreFrozen ==
  ASSUME OneAtATime, StayPut
  PROVE  Spec => LockedMonthIsFrozen
<1>1. Init => InPlace
  BY DEF Init, InPlace
<1>2. IInv /\ InPlace /\ [Next]_vars => InPlace'
  BY InPlaceStep
<1>3. IInv /\ Serial /\ InPlace /\ [Next]_vars =>
        [\A m \in Months : isLocked(m) =>
            /\ status'[m] = "locked"
            /\ details'[m] = details[m]
            /\ InputsOf(m)' = InputsOf(m)
            /\ CarryOnlyRolled(m)]_vars
  BY FrozenStep
<1> QED
  BY <1>1, <1>2, <1>3, Invariance, SerialInvariance, PTL DEF Spec, LockedMonthIsFrozen

-----------------------------------------------------------------------------
(* The types of the tables.  What a settlement owes is computed from sums  *)
(* of rows, which are integers because the rows of a month are finite in   *)
(* number.  Induction is over that number: among the numbers at which a    *)
(* claim fails there would be a least one.                                 *)

Less == {p \in Nat \X Nat : p[1] < p[2]}

\* A set of natural numbers has a least element.
LEMMA Least ==
  ASSUME NEW T, T \subseteq Nat, T # {}
  PROVE  \E n \in T : \A m \in T : n <= m
<1>1. IsWellFoundedOn(Less, Nat)
  BY NatLessThanWellFounded DEF OpToRel, Less
<1>2. PICK n \in T : \A m \in T : ~(<<m, n>> \in Less)
  BY <1>1, WFMin, Zenon
<1>3. ASSUME NEW m \in T PROVE n <= m
  <2>1. m \in Nat /\ n \in Nat
    OBVIOUS
  <2>2. m < n => <<m, n>> \in Less
    BY <2>1 DEF Less
  <2> QED
    BY <1>2, <2>1, <2>2
<1> QED
  BY <1>3

\* A function that gives the sum of each set of rows in S.
Adds(iter, S, s) ==
  iter[s] = IF s = {} THEN 0
            ELSE rows[CHOOSE i \in s : TRUE].net + iter[s \ {CHOOSE i \in s : TRUE}]

\* What is left of a finite set without one element is smaller.
LEMMA Smaller ==
  ASSUME NEW S, IsFiniteSet(S), NEW s \in SUBSET S, s # {}
  PROVE  LET rest == s \ {CHOOSE i \in s : TRUE} IN
         /\ rest \in SUBSET S
         /\ Cardinality(s) \in Nat /\ Cardinality(rest) \in Nat
         /\ Cardinality(rest) = Cardinality(s) - 1
  BY FS_Subset, FS_RemoveElement, FS_CardinalityType

\* There is such a function for every finite set: each of its values rests on a smaller set.
LEMMA AddsExists ==
  ASSUME NEW S, IsFiniteSet(S)
  PROVE  \E iter : iter = [s \in SUBSET S |-> iter[s]] /\ \A s \in SUBSET S : Adds(iter, S, s)
<1> DEFINE Upto(n, g) == \A s \in SUBSET S : Cardinality(s) <= n => Adds(g, S, s)
           Bad == {n \in Nat : ~ \E g : Upto(n, g)}
<1>1. \A s \in SUBSET S : IsFiniteSet(s) /\ Cardinality(s) \in Nat
  BY FS_Subset, FS_CardinalityType
<1>2. Bad = {}
  <2> SUFFICES ASSUME Bad # {} PROVE FALSE
    OBVIOUS
  <2>1. PICK n \in Bad : \A m \in Bad : n <= m
    BY Least
  <2>2. CASE n = 0
    <3> DEFINE g == [s \in SUBSET S |-> 0]
    <3>1. ASSUME NEW s \in SUBSET S, Cardinality(s) <= 0 PROVE Adds(g, S, s)
      <4>1. s = {}
        BY <1>1, <3>1, FS_EmptySet
      <4> QED
        BY <4>1 DEF Adds
    <3> QED
      BY <2>2, <3>1
  <2>3. CASE n # 0
    <3>1. n - 1 \in Nat /\ n - 1 \notin Bad
      BY <2>1, <2>3
    <3>2. PICK g : Upto(n - 1, g)
      BY <3>1
    <3> DEFINE h == [s \in SUBSET S |->
                        IF Cardinality(s) < n THEN g[s]
                        ELSE IF s = {} THEN 0
                        ELSE rows[CHOOSE i \in s : TRUE].net + g[s \ {CHOOSE i \in s : TRUE}]]
    <3>3. ASSUME NEW s \in SUBSET S, Cardinality(s) <= n PROVE Adds(h, S, s)
      <4> DEFINE rest == s \ {CHOOSE i \in s : TRUE}
      <4>1. h[s] = IF s = {} THEN 0 ELSE rows[CHOOSE i \in s : TRUE].net + g[rest]
        <5>1. CASE Cardinality(s) < n
          <6>1. Cardinality(s) <= n - 1
            BY <1>1, <2>1, <5>1
          <6>2. Adds(g, S, s)
            BY <3>2, <6>1
          <6>3. h[s] = g[s]
            BY <5>1
          <6> HIDE DEF h
          <6> QED
            BY <6>2, <6>3 DEF Adds
        <5>2. CASE ~(Cardinality(s) < n)
          BY <5>2
        <5> QED
          BY <5>1, <5>2
      <4>2. CASE s = {}
        BY <4>1, <4>2 DEF Adds
      <4>3. CASE s # {}
        <5>1. rest \in SUBSET S /\ Cardinality(rest) < n
          BY <1>1, <3>3, <4>3, Smaller
        <5>2. h[rest] = g[rest]
          BY <5>1
        <5> HIDE DEF h, rest
        <5> QED
          BY <4>1, <4>3, <5>2 DEF Adds, rest
      <4> QED
        BY <4>2, <4>3
    <3> QED
      BY <2>1, <3>3
  <2> QED
    BY <2>2, <2>3
<1>3. PICK g : Upto(Cardinality(S), g)
  BY <1>1, <1>2
<1>4. \A s \in SUBSET S : Adds(g, S, s)
  BY <1>1, <1>3, FS_Subset
<1> DEFINE iter == [s \in SUBSET S |-> g[s]]
<1>5. ASSUME NEW s \in SUBSET S PROVE Adds(iter, S, s)
  <2>1. s \ {CHOOSE i \in s : TRUE} \in SUBSET S
    OBVIOUS
  <2> QED
    BY <1>4, <2>1 DEF Adds
<1> QED
  BY <1>5

\* The net of finitely many rows is an integer.
LEMMA NetIsInteger ==
  ASSUME NEW S, IsFiniteSet(S), \A i \in S : rows[i].net \in Int
  PROVE  MapThenSumSet(LAMBDA i : rows[i].net, S) \in Int
<1> DEFINE Sums(iter) == iter = [s \in SUBSET S |->
              IF s = {} THEN 0
              ELSE rows[CHOOSE i \in s : TRUE].net + iter[s \ {CHOOSE i \in s : TRUE}]]
           made == CHOOSE iter : Sums(iter)
<1>1. MapThenSumSet(LAMBDA i : rows[i].net, S) = made[S]
  BY DEF MapThenSumSet, MapThenFoldSet
<1>2. \E iter : Sums(iter)
  <2>1. PICK iter : iter = [s \in SUBSET S |-> iter[s]] /\ \A s \in SUBSET S : Adds(iter, S, s)
    BY AddsExists
  <2>2. \A s \in SUBSET S :
          iter[s] = IF s = {} THEN 0
                    ELSE rows[CHOOSE i \in s : TRUE].net + iter[s \ {CHOOSE i \in s : TRUE}]
    BY <2>1 DEF Adds
  <2>3. Sums(iter)
    BY <2>1, <2>2
  <2> QED
    BY <2>3
<1>3. Sums(made)
  <2> HIDE DEF Sums
  <2> QED
    BY <1>2, Zenon
<1>4. \A s \in SUBSET S : Adds(made, S, s)
  BY <1>3 DEF Adds
<1> HIDE DEF made
<1> DEFINE Bad == {n \in Nat : \E s \in SUBSET S : Cardinality(s) = n /\ made[s] \notin Int}
<1>5. Bad = {}
  <2> SUFFICES ASSUME Bad # {} PROVE FALSE
    OBVIOUS
  <2>1. PICK n \in Bad : \A m \in Bad : n <= m
    BY Least
  <2>2. PICK s \in SUBSET S : Cardinality(s) = n /\ made[s] \notin Int
    BY <2>1
  <2> DEFINE rest == s \ {CHOOSE i \in s : TRUE}
  <2>3. made[s] = IF s = {} THEN 0 ELSE rows[CHOOSE i \in s : TRUE].net + made[rest]
    BY <1>4 DEF Adds
  <2>4. s # {}
    BY <2>2, <2>3
  <2>5. /\ rest \in SUBSET S /\ Cardinality(rest) \in Nat /\ n \in Nat
        /\ Cardinality(rest) = n - 1
    BY <2>2, <2>4, Smaller
  <2>6. rows[CHOOSE i \in s : TRUE].net \in Int
    BY <2>4
  <2> HIDE DEF rest
  <2>7. made[rest] \notin Int
    BY <2>2, <2>3, <2>4, <2>6
  <2>8. Cardinality(rest) \in Bad
    BY <2>5, <2>7
  <2> HIDE DEF Bad
  <2> QED
    BY <2>1, <2>5, <2>8
<1>6. S \in SUBSET S /\ Cardinality(S) \in Nat
  BY FS_CardinalityType
<1>7. made[S] \in Int
  BY <1>5, <1>6
<1> QED
  BY <1>1, <1>7

Nets == [Employees -> Int \cup {NoRow}]
Owed == [Employees -> Nat \cup {NoRow}]

\* What a request has read or calculated has its type.
ReadOK(r) ==
  /\ pc[r] = "read" => /\ work[r] = [profit |-> work[r].profit, carried |-> work[r].carried]
                       /\ work[r].profit \in Nets \cup {Unread}
                       /\ work[r].carried \in Nets \cup {Unread}
  /\ pc[r] \in {"recheck", "upsert"} => work[r].details \in Owed
  /\ pc[r] \in {"lockMonth", "lock", "roll"} =>
        /\ work[r].details \in Owed
        /\ work[r] = [details |-> work[r].details, found |-> work[r].found]

TablesOK == details \in [Months -> Owed] /\ rows \in [Ids -> Row]

DataOK == TablesOK /\ \A r \in Requests : ReadOK(r)

\* Every input of the calculation is an integer for the employees that have rows.
LEMMA NetOfType ==
  ASSUME IsFiniteSet(Ids), TablesOK, NEW ids \in SUBSET Ids, NEW m
  PROVE  NetOf(ids, m) \in Nets
<1> SUFFICES ASSUME NEW e \in Employees, Counted(ids, m, e) # {}
             PROVE  MapThenSumSet(LAMBDA i : rows[i].net, Counted(ids, m, e)) \in Int
  BY DEF NetOf, Nets
<1>1. IsFiniteSet(Counted(ids, m, e))
  <2>1. Counted(ids, m, e) \subseteq Ids
    BY DEF Counted
  <2> QED
    BY <2>1, FS_Subset
<1>2. \A i \in Counted(ids, m, e) : rows[i].net \in Int
  BY DEF TablesOK, Row, Counted
<1> QED
  BY <1>1, <1>2, NetIsInteger

\* What remains of a loss is never negative.
LEMMA CalculateType ==
  ASSUME NEW profit \in Nets, NEW carried \in Nets
  PROVE  Calculate(profit, carried) \in Owed
<1> SUFFICES ASSUME NEW e \in Employees, ~(profit[e] = NoRow /\ carried[e] = NoRow)
             PROVE  Remaining(IF profit[e] = NoRow THEN 0 ELSE profit[e],
                              -(IF carried[e] = NoRow THEN 0 ELSE carried[e])) \in Nat
  BY DEF Calculate, Owed
<1>1. /\ (IF profit[e] = NoRow THEN 0 ELSE profit[e]) \in Int
      /\ (IF carried[e] = NoRow THEN 0 ELSE carried[e]) \in Int
  BY DEF Nets
<1>2. \A a, b \in Int : Remaining(a, -b) \in Nat
  BY DEF Remaining
<1> QED
  BY <1>1, <1>2

\* A handler leaves what the other requests hold alone.
LEMMA OthersKeepData ==
  ASSUME IInv, DataOK, NEW r \in Requests, Step(r), ReadOK(r)'
  PROVE  \A q \in Requests : ReadOK(q)'
<1> SUFFICES ASSUME NEW q \in Requests \ {r} PROVE ReadOK(q)'
  OBVIOUS
<1>1. pc'[q] = pc[q] /\ work'[q] = work[q]
  <2> USE DEF IInv, ControlOK, ShapeOK, Begin, Finish, Goto, assertWritable
  <2>1. ASSUME NEW m \in Months, Start(r, m) PROVE pc'[q] = pc[q] /\ work'[q] = work[q]
    BY <2>1 DEF Start, CreateCheck, ImportCheck, GetRow, GenerateStart, ConfirmRead, LockRead
  <2>2. ASSUME Continue(r) PROVE pc'[q] = pc[q] /\ work'[q] = work[q]
    BY <2>2 DEF Continue, InsertRow, ImportRow, CheckMonth, CheckNextMonth, UpdateRow, ReadInputs,
                ReadCarry, CalculateSettlement, GenerateRecheck, GenerateWrite, ConfirmWrite,
                LockMonthRead, LockMonthWrite, RollForwardFind, RollForwardWrite
  <2>3. CASE Abort(r)
    BY <2>3 DEF Abort
  <2> QED
    BY <2>1, <2>2, <2>3 DEF Step
<1> QED
  BY <1>1 DEF DataOK, ReadOK

\* A handler starts with what it has read from the tables.
LEMMA StartData ==
  ASSUME IInv, DataOK, NEW r \in Requests, NEW m \in Months, Start(r, m)
  PROVE  TablesOK' /\ ReadOK(r)'
<1> USE DEF IInv, ControlOK, ShapeOK, DataOK, TablesOK, ReadOK, Begin, books, Owed, Nets
<1>1. CASE CreateCheck(r, m) BY <1>1 DEF CreateCheck
<1>2. CASE ImportCheck(r, m) BY <1>2 DEF ImportCheck
<1>3. CASE GetRow(r, m) BY <1>3 DEF GetRow
<1>4. CASE GenerateStart(r, m) BY <1>4 DEF GenerateStart
<1>5. CASE ConfirmRead(r, m) BY <1>5 DEF ConfirmRead
<1>6. CASE LockRead(r, m) BY <1>6 DEF LockRead
<1> QED
  BY <1>1, <1>2, <1>3, <1>4, <1>5, <1>6 DEF Start

\* The rows a handler writes have the type of rows.
LEMMA RowsStep ==
  ASSUME IInv, DataOK, NEW r \in Requests, Continue(r)
  PROVE  rows' \in [Ids -> Row]
<1> USE DEF DataOK, TablesOK
<1>1. CASE UNCHANGED rows
  BY <1>1
<1>2. CASE InsertRow(r)
  <2>1. PICK i \in Ids, p \in Profits, c \in BOOLEAN :
           rows' = [rows EXCEPT ![i] = [employee |-> i.employee, net |-> p, counted |-> c]]
    BY <1>2 DEF InsertRow
  <2>2. [employee |-> i.employee, net |-> p, counted |-> c] \in Row
    BY IdKinds, LifecycleAssumption DEF Row
  <2> QED
    BY <2>1, <2>2
<1>3. CASE ImportRow(r)
  <2>1. PICK i \in Ids :
           \/ \E e \in Employees, p \in Profits :
                rows' = [rows EXCEPT ![i] = [employee |-> e, net |-> p, counted |-> TRUE]]
           \/ rows' = [rows EXCEPT ![i] = Blank(i)]
    BY <1>3 DEF ImportRow
  <2>2. \A e \in Employees, p \in Profits : [employee |-> e, net |-> p, counted |-> TRUE] \in Row
    BY LifecycleAssumption DEF Row
  <2>3. Blank(i) \in Row
    BY IdKinds DEF Blank, Row
  <2>4. PICK row \in Row : rows' = [rows EXCEPT ![i] = row]
    BY <2>1, <2>2, <2>3
  <2> QED
    BY <2>4
<1>4. CASE UpdateRow(r)
  <2> DEFINE i == work[r].id
  <2>1. i \in Ids
    BY <1>4 DEF UpdateRow, IInv, ByIdOK, ById
  <2>2. ASSUME rows' # rows
        PROVE  \E row \in [employee : Employees, net : Profits \cup {rows[i].net}, counted : BOOLEAN] :
                  rows' = [rows EXCEPT ![i] = row]
    BY <1>4, <2>2 DEF UpdateRow
  <2> HIDE DEF i
  <2>3. rows[i].net \in Int
    BY <2>1 DEF Row
  <2>4. [employee : Employees, net : Profits \cup {rows[i].net}, counted : BOOLEAN] \subseteq Row
    BY <2>3, LifecycleAssumption DEF Row
  <2> QED
    BY <2>1, <2>2, <2>4
<1>5. CASE RollForwardWrite(r)
  <2> DEFINE d == work[r].details
             owing == Owing(d)
             for(at, i) == CHOOSE e \in owing : at[e] = i
  <2>1. PICK at \in [owing -> Rolled] :
           rows' = [i \in Ids |->
                IF i \in {at[e] : e \in {c \in owing : work[r].found[c] = NoRow}}
                THEN [employee |-> for(at, i), net |-> -d[for(at, i)], counted |-> TRUE]
                ELSE IF i \in {at[e] : e \in owing}
                THEN [rows[i] EXCEPT !.net = -d[for(at, i)]]
                ELSE rows[i]]
    BY <1>5 DEF RollForwardWrite
  <2>2. d \in Owed
    BY <1>5 DEF RollForwardWrite, ReadOK
  <2>3. \A e \in owing : e \in Employees /\ -d[e] \in Int
    BY <2>2 DEF Owing, Owed
  <2> HIDE DEF d, owing
  <2>4. \A i \in {at[e] : e \in owing} : for(at, i) \in owing
    OBVIOUS
  <2> HIDE DEF for
  <2>5. ASSUME NEW i \in Ids PROVE rows'[i] \in Row
    <3>1. CASE i \in {at[e] : e \in owing}
      <4>1. for(at, i) \in Employees /\ -d[for(at, i)] \in Int
        BY <2>3, <2>4, <3>1
      <4>2. rows[i] \in Row
        OBVIOUS
      <4> QED
        BY <2>1, <3>1, <4>1, <4>2 DEF Row
    <3>2. CASE i \notin {at[e] : e \in owing}
      BY <2>1, <3>2
    <3> QED
      BY <3>1, <3>2
  <2>6. rows' = [i \in Ids |-> rows'[i]]
    BY <2>1
  <2> QED
    BY <2>5, <2>6
<1> QED
  BY <1>1, <1>2, <1>3, <1>4, <1>5
  DEF Continue, books, CheckMonth, CheckNextMonth, ReadInputs, ReadCarry, CalculateSettlement,
      GenerateRecheck, GenerateWrite, ConfirmWrite, LockMonthRead, LockMonthWrite, RollForwardFind

\* What a handler reads, calculates and writes to a settlement has its type.
LEMMA ContinueData ==
  ASSUME IsFiniteSet(Ids), IInv, DataOK, NEW r \in Requests, Continue(r)
  PROVE  details' \in [Months -> Owed] /\ ReadOK(r)'
<1> USE DEF IInv, ControlOK, ShapeOK, DataOK, TablesOK, ReadOK, Finish, Goto, assertWritable, books
<1>1. CASE InsertRow(r) BY <1>1 DEF InsertRow
<1>2. CASE ImportRow(r)
  <2>1. /\ pc[r] = "import" /\ pc'[r] \in {"idle", "import"} /\ UNCHANGED details
    BY <1>2 DEF ImportRow
  <2> QED
    BY <2>1
<1>3. CASE CheckMonth(r) BY <1>3 DEF CheckMonth
<1>4. CASE CheckNextMonth(r) BY <1>4 DEF CheckNextMonth
<1>5. CASE UpdateRow(r) BY <1>5 DEF UpdateRow
<1>6. CASE ReadInputs(r)
  <2>1. PICK net \in Nets : net = NetOf(Inputs, month[r])
    BY NetOfType DEF Inputs
  <2> QED
    BY <1>6, <2>1 DEF ReadInputs
<1>7. CASE ReadCarry(r)
  <2>1. PICK net \in Nets : net = NetOf(Rolled, month[r])
    BY NetOfType DEF Rolled
  <2> QED
    BY <1>7, <2>1 DEF ReadCarry
<1>8. CASE CalculateSettlement(r)
  <2>1. work[r].profit \in Nets /\ work[r].carried \in Nets
    BY <1>8 DEF CalculateSettlement
  <2>2. PICK owed \in Owed : owed = Calculate(work[r].profit, work[r].carried)
    BY <2>1, CalculateType
  <2> QED
    BY <1>8, <2>2 DEF CalculateSettlement
<1>9. CASE GenerateRecheck(r) BY <1>9 DEF GenerateRecheck
<1>10. CASE GenerateWrite(r) BY <1>10 DEF GenerateWrite
<1>11. CASE ConfirmWrite(r) BY <1>11 DEF ConfirmWrite
<1>12. CASE LockMonthRead(r) BY <1>12 DEF LockMonthRead
<1>13. CASE LockMonthWrite(r) BY <1>13 DEF LockMonthWrite
<1>14. ASSUME NEW e \in Employees, RollForwardFind(r, e)
       PROVE  details' \in [Months -> Owed] /\ ReadOK(r)'
  BY <1>14 DEF RollForwardFind
<1>15. CASE RollForwardWrite(r) BY <1>15 DEF RollForwardWrite
<1> QED
  BY <1>1, <1>2, <1>3, <1>4, <1>5, <1>6, <1>7, <1>8, <1>9, <1>10, <1>11, <1>12, <1>13, <1>14,
      <1>15 DEF Continue

LEMMA DataInvariance ==
  ASSUME IsFiniteSet(Ids)
  PROVE  Spec => []DataOK
<1>1. Init => DataOK
  <2> SUFFICES ASSUME Init PROVE DataOK
    OBVIOUS
  <2>1. details \in [Months -> Owed]
    BY DEF Init, Owed
  <2>2. \A i \in Ids : Blank(i) \in Row
    BY IdKinds DEF Blank, Row
  <2> QED
    BY <2>1, <2>2 DEF Init, DataOK, TablesOK, ReadOK
<1>2. IInv /\ DataOK /\ [Next]_vars => DataOK'
  <2> SUFFICES ASSUME IInv, DataOK, [Next]_vars PROVE DataOK'
    OBVIOUS
  <2>1. CASE UNCHANGED vars
    BY <2>1 DEF vars, DataOK, TablesOK, ReadOK
  <2>2. ASSUME NEW r \in Requests, Step(r) PROVE DataOK'
    <3>1. TablesOK' /\ ReadOK(r)'
      <4>1. ASSUME NEW m \in Months, Start(r, m) PROVE TablesOK' /\ ReadOK(r)'
        BY <4>1, StartData
      <4>2. CASE Continue(r)
        BY <4>2, RowsStep, ContinueData DEF TablesOK
      <4>3. CASE Abort(r)
        BY <4>3 DEF Abort, Finish, Goto, books, IInv, ControlOK, DataOK, TablesOK, ReadOK
      <4> QED
        BY <2>2, <4>1, <4>2, <4>3 DEF Step
    <3>2. \A q \in Requests : ReadOK(q)'
      BY <2>2, <3>1, OthersKeepData
    <3> QED
      BY <3>1, <3>2 DEF DataOK
  <2> QED
    BY <2>1, <2>2 DEF Next, Step
<1> QED
  BY <1>1, <1>2, Invariance, PTL DEF Spec

\* Whatever requests overlap, the tables hold rows of their types: what a settlement owes
\* is a natural number for every employee it has a detail for.
THEOREM TypeCorrect ==
  ASSUME IsFiniteSet(Ids)
  PROVE  Spec => []TypeOK
<1>1. ControlOK /\ DataOK => TypeOK
  BY DEF TypeOK, DataOK, TablesOK, Owed
<1> QED
  BY <1>1, ControlTypeCorrect, DataInvariance, PTL

\* One request at a time, no settlement is locked without details, and the tables hold
\* rows of their types.
THEOREM LockedSettlementsHaveDetails ==
  ASSUME OneAtATime, IsFiniteSet(Ids)
  PROVE  Spec => []SettlementInv
<1>1. Serial /\ TypeOK => SettlementInv
  BY DEF Serial, SettlementInv
<1> QED
  BY <1>1, TypeCorrect, SerialInvariance, PTL
=============================================================================
