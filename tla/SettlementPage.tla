--------------------------- MODULE SettlementPage ---------------------------
(***************************************************************************)
(* The salary settlement page of the web application, in one browser tab,  *)
(* against a server whose months change under it.                          *)
(*                                                                         *)
(* Answers arrive in any order; a request that writes is carried out at    *)
(* one moment and its answer reaches the page at a later one.  What a      *)
(* handler does after an await it does with the month it was created with, *)
(* while the page may show another one by then.  A dialog covers the page: *)
(* what lies under it cannot be clicked, but it can be dismissed while the *)
(* request it started is still under way.                                  *)
(***************************************************************************)
EXTENDS Naturals, FiniteSets

CONSTANTS
    Months,
    Codes,       \* warning codes a preflight may report
    CurrentMonth, \* the month the page opens on
    Nothing,
    MaxClicks,   \* bound: clicks, the one that agrees to a dialog not counted
    MaxChanges   \* bound: changes made by anybody else, and failures

ASSUME PageAssumption == CurrentMonth \in Months

VARIABLES
    book,      \* the server: per month its status, warnings and blocking checks
    page,      \* the state of the component
    canView,   \* the administrator may read the preflight (salary.view_all)
    requests,  \* requests under way, and answers not yet delivered
    agreed,    \* the warnings agreed to since the preflight was last asked for
    count,     \* requests sent so far
    clicks,
    changes

pageVars == <<book, page, canView, requests, agreed, count, clicks, changes>>

Statuses == {"none", "draft", "confirmed", "locked"}

Month == [status : Statuses, warnings : SUBSET Codes, blocking : BOOLEAN]

(* A request: its number, what it asks of which month, the codes it sends, *)
(* and the handler that awaits it (0: none; the number of the request that *)
(* handler sent) with what that handler learnt.                            *)
Ask(n, kind, m, codes, flow, refused) ==
    [id |-> n, kind |-> kind, month |-> m, codes |-> codes, flow |-> flow,
     refused |-> refused, answer |-> "none"]

---------------------------------------------------------------------------
(* Loading.  The preflight is guarded by the number of its latest request, *)
(* the summary is not.                                                     *)

(* What loadPreflight sets before it asks, and all it does for those who   *)
(* may not read the preflight.                                             *)
Checking(p, n, m) ==
    [p EXCEPT !.acknowledged = Nothing, !.preflight = Nothing, !.checking = canView,
              !.latest = n, !.latestMonth = m]

loadPreflight(p, rest, m, flow) ==
    /\ page' = Checking(p, count + 1, m)
    /\ requests' = rest \cup
         {Ask(count + 1, "preflight", m, {}, flow, TRUE) : v \in {TRUE} \cap {canView}}
    /\ count' = count + 1
    /\ agreed' = Nothing

reloadPage(p, rest, m, flow) ==
    /\ page' = Checking([p EXCEPT !.loading = TRUE], count + 2, m)
    /\ requests' = rest \cup {Ask(count + 1, "summary", m, {}, flow, FALSE)} \cup
         {Ask(count + 2, "preflight", m, {}, flow, FALSE) : v \in {TRUE} \cap {canView}}
    /\ count' = count + 2
    /\ agreed' = Nothing

\* variant: an answer counts as current when it is for the month shown
ForThisMonth(r) == r.month = page.month

isCurrent(r) == r.id = page.latest /\ r.month = page.month

---------------------------------------------------------------------------
(* What the page shows.                                                    *)

currentPreflight ==
    IF page.preflight = Nothing THEN Nothing
    ELSE IF page.preflight.month = page.month THEN page.preflight ELSE Nothing

currentWarningCodes ==
    IF currentPreflight = Nothing THEN {} ELSE currentPreflight.warnings

isWarningAcknowledgementCurrent ==
    /\ page.acknowledged /= Nothing
    /\ page.acknowledged.month = page.month
    /\ page.acknowledged.codes = currentWarningCodes

SummaryIs(s) == page.summary /= Nothing => page.summary.status = s

isGenerateDisabled ==
    \/ page.summary /= Nothing /\ SummaryIs("locked")
    \/ currentPreflight = Nothing
    \/ currentPreflight /= Nothing /\ ~currentPreflight.canGenerate

\* variant: every warning shown is sent as acknowledged
AcknowledgeShown == currentWarningCodes

buildSettlementGenerateBody ==
    IF isWarningAcknowledgementCurrent THEN page.acknowledged.codes ELSE {}

Covered == page.generateOpen \/ page.dialog /= Nothing

Click == clicks < MaxClicks /\ clicks' = clicks + 1

---------------------------------------------------------------------------
(* The administrator.                                                      *)

ChangeMonth(m) ==
    /\ Click /\ ~Covered /\ m /= page.month
    /\ reloadPage([page EXCEPT !.month = m, !.generateOpen = FALSE], requests, m, 0)
    /\ UNCHANGED <<book, canView, changes>>

Refresh ==
    /\ Click /\ ~Covered /\ ~page.loading /\ ~page.checking
    /\ reloadPage(page, requests, page.month, 0)
    /\ UNCHANGED <<book, canView, changes>>

Query ==
    /\ Click /\ ~Covered
    /\ page' = [page EXCEPT !.loading = TRUE]
    /\ requests' = requests \cup {Ask(count + 1, "summary", page.month, {}, 0, FALSE)}
    /\ count' = count + 1
    /\ UNCHANGED <<book, canView, agreed, changes>>

OpenGenerate(p) == [p EXCEPT !.generateOpen = TRUE, !.dialog = Nothing]

runGenerate ==
    /\ Click /\ ~Covered /\ page.acting /= "generate" /\ ~isGenerateDisabled
    /\ page' = IF currentWarningCodes /= {}
               THEN [page EXCEPT !.dialog = [kind |-> "warnings", month |-> page.month,
                                             codes |-> currentWarningCodes, flow |-> 0]]
               ELSE OpenGenerate([page EXCEPT !.acknowledged = Nothing])
    /\ UNCHANGED <<book, canView, requests, agreed, count, changes>>

ConfirmWarnings ==
    /\ page.dialog /= Nothing
    /\ page.dialog /= Nothing => page.dialog.kind = "warnings"
    /\ agreed' = [month |-> page.dialog.month, codes |-> page.dialog.codes]
    /\ page' = OpenGenerate([page EXCEPT !.acknowledged =
                  [month |-> page.dialog.month, codes |-> page.dialog.codes]])
    /\ UNCHANGED <<book, canView, requests, count, clicks, changes>>

submitGenerate ==
    /\ Click /\ page.generateOpen /\ page.dialog = Nothing
    /\ ~page.checking /\ page.acting /= "generate"
    /\ page' = [page EXCEPT !.acting = "generate"]
    /\ requests' = requests \cup {Ask(count + 1, "generate", page.month,
                                      buildSettlementGenerateBody, count + 1, FALSE)}
    /\ count' = count + 1
    /\ UNCHANGED <<book, canView, agreed, changes>>

cancelGenerate ==
    /\ Click /\ page.generateOpen /\ page.dialog = Nothing
    /\ page' = [page EXCEPT !.generateOpen = FALSE, !.acknowledged = Nothing]
    /\ UNCHANGED <<book, canView, requests, agreed, count, changes>>

(* The buttons of runConfirm and runLock look at the summary that is shown.*)
AskTo(kind, status) ==
    /\ Click /\ ~Covered /\ page.acting /= kind
    /\ page.summary /= Nothing /\ SummaryIs(status)
    /\ page' = [page EXCEPT !.dialog = [kind |-> kind, month |-> page.month,
                                        codes |-> {}, flow |-> 0]]
    /\ UNCHANGED <<book, canView, requests, agreed, count, changes>>

runConfirm == AskTo("confirm", "draft")

runLock == AskTo("lock", "confirmed")

onOk ==
    /\ page.dialog /= Nothing
    /\ page.dialog /= Nothing => page.dialog.kind /= "warnings" /\ page.dialog.flow = 0
    /\ page' = [page EXCEPT !.acting = page.dialog.kind, !.dialog.flow = count + 1]
    /\ requests' = requests \cup {Ask(count + 1, page.dialog.kind, page.dialog.month,
                                      {}, count + 1, FALSE)}
    /\ count' = count + 1
    /\ UNCHANGED <<book, canView, agreed, clicks, changes>>

CancelDialog ==
    /\ Click /\ page.dialog /= Nothing
    /\ page' = [page EXCEPT !.dialog = Nothing]
    /\ UNCHANGED <<book, canView, requests, agreed, count, changes>>

---------------------------------------------------------------------------
(* The server, which carries out what was asked or refuses it, and the     *)
(* changes other administrators and imports make to the months.            *)

Preflight(m) ==
    [month |-> m, warnings |-> book[m].warnings,
     canGenerate |-> ~book[m].blocking /\ book[m].status /= "locked"]

Answered(r, outcome) ==
    requests' = (requests \ {r}) \cup {[r EXCEPT !.answer = outcome]}

ServeGenerate(r) ==
    /\ r.answer = "none" /\ r.kind = "generate"
    /\ \/ /\ Preflight(r.month).canGenerate => book[r.month].warnings /= r.codes
          /\ Answered(r, "rejected") /\ UNCHANGED book
       \/ /\ Preflight(r.month).canGenerate /\ book[r.month].warnings = r.codes
          /\ Answered(r, "done")
          /\ book' = [book EXCEPT ![r.month].status = "draft"]
    /\ UNCHANGED <<page, canView, agreed, count, clicks, changes>>

ServeStep(r, from, to) ==
    /\ \/ /\ book[r.month].status = from
          /\ Answered(r, "done") /\ book' = [book EXCEPT ![r.month].status = to]
       \/ /\ book[r.month].status /= from
          /\ Answered(r, "failed") /\ UNCHANGED book
    /\ UNCHANGED <<page, canView, agreed, count, clicks, changes>>

ServeConfirm(r) ==
    r.answer = "none" /\ r.kind = "confirm" /\ ServeStep(r, "draft", "confirmed")

ServeLock(r) ==
    r.answer = "none" /\ r.kind = "lock" /\ ServeStep(r, "confirmed", "locked")

(* A request that fails for any other reason changes nothing.              *)
ServeFailure(r) ==
    /\ r.answer = "none" /\ changes < MaxChanges /\ changes' = changes + 1
    /\ Answered(r, "failed")
    /\ UNCHANGED <<book, page, canView, agreed, count, clicks>>

Serve(r) == ServeGenerate(r) \/ ServeConfirm(r) \/ ServeLock(r)

Moves == {<<"none", "draft">>, <<"draft", "confirmed">>,
          <<"confirmed", "draft">>, <<"confirmed", "locked">>}

ChangeBook(m) ==
    /\ changes < MaxChanges /\ changes' = changes + 1
    /\ \/ \E b \in Month : /\ b.status = book[m].status /\ b /= book[m]
                           /\ book' = [book EXCEPT ![m] = b]
       \/ \E v \in Moves : /\ v[1] = book[m].status
                           /\ book' = [book EXCEPT ![m].status = v[2]]
    /\ UNCHANGED <<page, canView, requests, agreed, count, clicks>>

---------------------------------------------------------------------------
(* What the page does with an answer.                                      *)

(* The finally of the handler that awaited the request: its dialog closes, *)
(* and an acknowledgement the server refused is dropped.                   *)
Finished(p, flow, refused) ==
    [p EXCEPT !.acting = Nothing,
              !.acknowledged = IF refused THEN Nothing ELSE @,
              !.dialog = IF @ = Nothing THEN Nothing
                         ELSE IF @.flow = flow THEN Nothing ELSE @]

(* A handler awaits both of its reloads and then finishes.                 *)
Settle(p, r) ==
    IF r.flow /= 0 /\ \A q \in requests \ {r} : q.flow /= r.flow
    THEN Finished(p, r.flow, r.refused) ELSE p

TakeSummary(r) ==
    /\ r.kind = "summary"
    /\ page' = Settle([page EXCEPT !.loading = FALSE,
                          !.summary = IF r.answer = "failed" THEN Nothing
                             ELSE [month |-> r.month, status |-> book[r.month].status]], r)
    /\ requests' = requests \ {r}
    /\ UNCHANGED <<book, canView, agreed, count, clicks, changes>>

Adopt(p, r) ==
    [p EXCEPT !.preflight = IF r.answer = "failed" THEN Nothing ELSE Preflight(r.month),
              !.shown = r.id, !.checking = FALSE]

TakePreflight(r) ==
    /\ r.kind = "preflight"
    /\ page' = Settle(IF isCurrent(r) THEN Adopt(page, r) ELSE page, r)
    /\ requests' = requests \ {r}
    /\ UNCHANGED <<book, canView, agreed, count, clicks, changes>>

TakeDone(r) ==
    /\ r.kind \in {"generate", "confirm", "lock"} /\ r.answer = "done"
    /\ reloadPage(IF r.kind = "generate"
                  THEN [page EXCEPT !.generateOpen = FALSE, !.acknowledged = Nothing]
                  ELSE page, requests \ {r}, r.month, r.flow)
    /\ UNCHANGED <<book, canView, clicks, changes>>

(* handleSettlementPrecheckFailure: the preflight is read again before the *)
(* acknowledgement is dropped.                                             *)
TakeRejection(r) ==
    /\ r.kind = "generate" /\ r.answer = "rejected"
    /\ loadPreflight(page, requests \ {r}, r.month, r.flow)
    /\ UNCHANGED <<book, canView, clicks, changes>>

\* variant: only a generation that succeeds ends its action
StillActing(p, r) == p

AfterFailure(p, r) == Finished(p, r.flow, FALSE)

TakeFailure(r) ==
    /\ r.kind \in {"generate", "confirm", "lock"} /\ r.answer = "failed"
    /\ page' = AfterFailure(page, r)
    /\ requests' = requests \ {r}
    /\ UNCHANGED <<book, canView, agreed, count, clicks, changes>>

Take(r) ==
    TakeSummary(r) \/ TakePreflight(r) \/ TakeDone(r) \/ TakeRejection(r) \/ TakeFailure(r)

---------------------------------------------------------------------------

(* The page is opened on a month and asks for both.                        *)
PageInit ==
    /\ book \in [Months -> {b \in Month : ~b.blocking /\ b.status = "draft"}]
    /\ canView \in BOOLEAN
    /\ page = [month |-> CurrentMonth, summary |-> Nothing, preflight |-> Nothing,
               shown |-> 0, latest |-> 2, latestMonth |-> CurrentMonth,
               loading |-> TRUE, checking |-> canView, acknowledged |-> Nothing,
               generateOpen |-> FALSE, dialog |-> Nothing, acting |-> Nothing]
    /\ requests = {Ask(1, "summary", CurrentMonth, {}, 0, FALSE)} \cup
         {Ask(2, "preflight", CurrentMonth, {}, 0, FALSE) : v \in {TRUE} \cap {canView}}
    /\ agreed = Nothing
    /\ count = 2 /\ clicks = 0 /\ changes = 0

Administrator ==
    \/ \E m \in Months : ChangeMonth(m)
    \/ Refresh \/ Query \/ runGenerate \/ ConfirmWarnings
    \/ submitGenerate \/ cancelGenerate \/ runConfirm \/ runLock
    \/ onOk \/ CancelDialog

PageNext ==
    \/ Administrator
    \/ \E r \in requests : Serve(r) \/ ServeFailure(r) \/ Take(r)
    \/ \E m \in Months : ChangeBook(m)

(* The network and the server answer; nobody has to click.                 *)
Fairness ==
    /\ WF_pageVars(\E r \in requests : Serve(r) \/ ServeFailure(r))
    /\ WF_pageVars(\E r \in requests : Take(r))

PageSpec == PageInit /\ [][PageNext]_pageVars /\ Fairness

---------------------------------------------------------------------------

(* The page, the requests and the server's months have their types.        *)
PageTypeOK ==
    /\ book \in [Months -> Month]
    /\ page.month \in Months /\ page.latestMonth \in Months
    /\ page.summary = Nothing \/ page.summary \in [month : Months, status : Statuses]
    /\ page.preflight = Nothing \/ page.preflight \in
         [month : Months, warnings : SUBSET Codes, canGenerate : BOOLEAN]
    /\ page.acknowledged = Nothing \/
         page.acknowledged \in [month : Months, codes : SUBSET Codes]
    /\ page.acting \in {Nothing, "generate", "confirm", "lock"}
    /\ page.loading \in BOOLEAN /\ page.checking \in BOOLEAN
    /\ page.generateOpen \in BOOLEAN
    /\ page.latest <= count /\ page.shown <= page.latest
    /\ \A r \in requests : r.id <= count /\ r.month \in Months

(* Clicking through a page whose months change, the administrator never    *)
(* has warnings sent in his name that he did not agree to: the codes in a  *)
(* generate request that is sent are those of the last confirmation        *)
(* dialog, for that month, and the preflight was not asked for again since.*)
OnlyAgreedWarningsAreSent ==
    [][\A r \in requests' \ requests :
         r.kind = "generate" /\ r.answer = "none" /\ r.codes /= {} =>
           agreed = [month |-> r.month, codes |-> r.codes]]_pageVars

(* Whatever order the answers arrive in, the preflight on the page is the  *)
(* answer to the last request for one, and of the month selected.          *)
LatestPreflightIsShown ==
    page.preflight /= Nothing =>
        page.shown = page.latest /\ page.preflight.month = page.month

(* The page says it is checking only while the answer is on its way.  The  *)
(* one exception is a check begun for a month that is not the one selected *)
(* any more: its answer is ignored and the mark stays until the month is   *)
(* changed again.                                                          *)
CheckingMeansAsked ==
    page.checking => \/ \E r \in requests : r.id = page.latest
                     \/ page.latestMonth /= page.month

(* Buttons do not stay busy: an action that was started ends, whether its  *)
(* request succeeds, is rejected or fails and whatever was clicked then.   *)
ActionsEnd == page.acting /= Nothing ~> page.acting = Nothing

(* What the page shows belongs together.                                   *)
PageInv == PageTypeOK /\ LatestPreflightIsShown /\ CheckingMeansAsked
=============================================================================
