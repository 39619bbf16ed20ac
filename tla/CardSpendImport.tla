--------------------------- MODULE CardSpendImport ---------------------------
(***************************************************************************)
(* The monthly import of card spend from Airwallex or PhotonPay, next to   *)
(* the inventory and the governance of the cards.                          *)
(*                                                                         *)
(* An import refreshes the inventory and then handles one transaction      *)
(* after another: it asks who owns the card, writes the spend event or an  *)
(* unmatched event, and settles an open event of an imported transaction.  *)
(* Each of these is a statement of its own, and the process may stop       *)
(* between any two.  The marks of a card's last transaction sync are left  *)
(* out.                                                                    *)
(***************************************************************************)
EXTENDS ProviderCards

CONSTANTS
    Transactions,       \* records: card and date of a transaction
    Amounts,
    TargetCount,        \* HISTORICAL_BACKFILL_EXPECTED_CARD_COUNT
    Crashes             \* processes may stop in the middle of an import

VARIABLES
    event,              \* status of a transaction's unmatched event
    job,                \* per worker, its import
    ended               \* what the import that ended last had to do

SpendRows == [card : Cards, date : Dates, employee : Employees, amount : Amounts]

ASSUME ImportAssumption ==
    /\ Transactions \subseteq [card : Cards, date : Dates]
    /\ TargetCount \in Nat /\ Crashes \in BOOLEAN

ASSUME NoneIsNoSpend == None \notin SpendRows

importVars == <<event, job, ended>>
vars == <<cardVars, importVars>>

Modes == {"standard", "backfill", "preview"}

Init ==
    /\ InitCards
    /\ spend = [t \in Transactions |-> None]
    /\ event = [t \in Transactions |-> "none"]
    /\ job = [w \in Workers |-> None]
    /\ ended = None

\* What a provider says of a transaction: nothing that counts (absent, repeated, not
\* settled, no spending, out of the window), no date, no usable USD amount, or an amount.
Entries == {"none", "undated", "invalid"} \cup Amounts

TouchCards == UNCHANGED <<provider, date, holder, employee, alias, exclusion, request>>
KeepCards == TouchCards /\ UNCHANGED <<card, plan, outdated, overwritten, operations>>

\* The import is one of PhotonPay's previews or backfills only when its task says so.
StartImport(w, mode) ==
    /\ job[w] = None
    /\ plan[w] = NoPlan
    /\ operations < MaxOperations
    /\ operations' = operations + 1
    /\ provider = "airwallex" => mode = "standard"
    /\ job' = [job EXCEPT ![w] =
          [mode |-> mode, step |-> IF mode = "preview" THEN "fetch" ELSE "inventory",
           report |-> None, todo |-> {}, targets |-> Cards, at |-> None, owner |-> None,
           left |-> {}, failed |-> FALSE]]
    /\ ended' = None
    /\ TouchCards
    /\ UNCHANGED <<card, plan, outdated, overwritten>>
    /\ UNCHANGED <<spend, event>>

Working(w, step) == job[w] # None /\ job[w].step = step

ImportInventory(w, lost) ==
    /\ Working(w, "inventory")
    /\ PlanInventory(w, lost)
    /\ job' = [job EXCEPT ![w].step = "fetch"]
    /\ UNCHANGED <<event, ended, operations>>

\* The cards a backfill or a preview is confined to.
loadHistoricalBackfillCardSets ==
    {c \in Cards : card[c] # None /\ card[c].status = "matched" /\ card[c].source = "alias"}

\* A backfill reads its target cards before it asks the provider.  The pages arrive one
\* by one, and the transactions of a page are handled before the next page is asked for.
Fetch(w, report) ==
    LET confined == job[w].mode # "standard"
    IN  /\ Working(w, "fetch")
        /\ plan[w] = NoPlan
        /\ confined => Cardinality(loadHistoricalBackfillCardSets) = TargetCount
        /\ job' = [job EXCEPT ![w] = [job[w] EXCEPT
              !.step = "next", !.report = report,
              !.todo = {t \in Transactions : report[t] # "none"},
              !.targets = IF confined THEN loadHistoricalBackfillCardSets ELSE Cards]]
        /\ KeepCards
        /\ UNCHANGED <<spend, event, ended>>

\* Who a transaction is booked on: an employee, "excluded", or nobody.  Airwallex
\* asks for the present, PhotonPay for the date of the transaction.
resolveSpendOwner(t) ==
    LET at == IF provider = "photonpay" THEN t.date ELSE date
        c == t.card
    IN  IF card[c] # None /\ IsExcluded(c, exclusion, at) THEN "excluded"
        ELSE IF card[c] = None THEN None
        ELSE IF card[c].status # "matched" THEN None
        ELSE IF employee[card[c].employee].active THEN card[c].employee
        ELSE None

\* A backfill leaves out the cards it is not about, once it knows the date.
Handled(w, t) == t.card \in job[w].targets \/ job[w].report[t] = "undated"

Take(w, t) ==
    /\ Working(w, "next")
    /\ t \in job[w].todo
    /\ job' = [job EXCEPT ![w] = [job[w] EXCEPT
          !.todo = @ \ {t},
          !.at = IF Handled(w, t) THEN t ELSE None,
          !.left = IF Handled(w, t) THEN @ ELSE @ \cup {t},
          !.owner = IF Handled(w, t) THEN resolveSpendOwner(t) ELSE None,
          !.step = IF Handled(w, t) THEN "write" ELSE "next"]]
    /\ KeepCards
    /\ UNCHANGED <<spend, event, ended>>

\* An event that was ignored or resolved is left as it is.
recordUnmatchedEvent(t) == event' = [event EXCEPT ![t] = IF @ = "none" THEN "open" ELSE @]

\* Transactions nobody can be charged for, or whose amount cannot be used.
Unusable(w) ==
    LET t == job[w].at
    IN  \/ job[w].report[t] = "undated"
        \/ job[w].owner = None
        \/ job[w].report[t] = "invalid" /\ job[w].owner # "excluded"

\* An event PhotonPay has already: the same one is skipped, another amount or another
\* employee is reported and never written over.
Same(w) == spend[job[w].at].amount = job[w].report[job[w].at] /\ spend[job[w].at].employee = job[w].owner

NextTransaction(w) == job' = [job EXCEPT ![w] = [job[w] EXCEPT !.step = "next", !.at = None, !.owner = None]]
FailTransaction(w) ==
    job' = [job EXCEPT ![w] = [job[w] EXCEPT !.step = "next", !.at = None, !.owner = None, !.failed = TRUE]]

WriteSpendNothing(w) ==
    /\ Working(w, "write")
    /\ job[w].owner = "excluded" /\ job[w].report[job[w].at] # "undated"
    /\ job' = [job EXCEPT ![w] = [job[w] EXCEPT !.step = "next", !.at = None, !.owner = None,
                                           !.left = @ \cup {job[w].at}]]
    /\ KeepCards
    /\ UNCHANGED <<spend, event, ended>>

recordFailureUnlessPreview(w) ==
    /\ Working(w, "write")
    /\ Unusable(w)
    /\ IF job[w].mode = "preview" THEN UNCHANGED event ELSE recordUnmatchedEvent(job[w].at)
    /\ FailTransaction(w)
    /\ KeepCards
    /\ UNCHANGED <<spend, ended>>

Importable(w) == Working(w, "write") /\ ~Unusable(w) /\ job[w].owner # "excluded"

SpendRow(w) ==
    [card |-> job[w].at.card, date |-> job[w].at.date, employee |-> job[w].owner,
     amount |-> job[w].report[job[w].at]]

\* variant: PhotonPay events are written over as those of Airwallex are
UpsertAny(w) ==
    /\ Importable(w)
    /\ job[w].mode # "preview"
    /\ spend' = [spend EXCEPT ![job[w].at] = SpendRow(w)]
    /\ job' = [job EXCEPT ![w].step = "settle"]
    /\ KeepCards
    /\ UNCHANGED <<event, ended>>

\* Airwallex writes over what there is; PhotonPay creates, and the unique key of the
\* event makes two workers see each other.
upsertCardSpendEvent(w) ==
    LET t == job[w].at
    IN  /\ Importable(w)
        /\ \/ /\ provider = "airwallex" \/ spend[t] = None
              /\ job[w].mode # "preview"
              /\ spend' = [spend EXCEPT ![t] = SpendRow(w)]
              /\ job' = [job EXCEPT ![w].step = "settle"]
              /\ UNCHANGED event
           \/ /\ provider = "photonpay" /\ spend[t] = None /\ job[w].mode = "preview"
              /\ NextTransaction(w)
              /\ UNCHANGED <<spend, event>>
           \/ /\ provider = "photonpay" /\ spend[t] # None /\ Same(w)
              /\ NextTransaction(w)
              /\ UNCHANGED <<spend, event>>
           \/ /\ provider = "photonpay" /\ spend[t] # None /\ ~Same(w)
              /\ IF job[w].mode = "preview" THEN UNCHANGED event ELSE recordUnmatchedEvent(t)
              /\ FailTransaction(w)
              /\ UNCHANGED spend
        /\ KeepCards
        /\ UNCHANGED <<ended>>

\* resolveAfterSuccessfulImport
Settle(w) ==
    /\ Working(w, "settle")
    /\ event' = [event EXCEPT ![job[w].at] = IF @ = "open" THEN "imported" ELSE @]
    /\ NextTransaction(w)
    /\ KeepCards
    /\ UNCHANGED <<spend, ended>>

\* variant: what failed does not keep an import from completing
FinishAlways(w) ==
    /\ Working(w, "next")
    /\ job[w].todo = {}
    /\ ended' = [report |-> job[w].report, left |-> job[w].left,
                 mode |-> job[w].mode, completed |-> TRUE]
    /\ job' = [job EXCEPT ![w] = None]
    /\ KeepCards
    /\ UNCHANGED <<spend, event>>

Finish(w) ==
    /\ Working(w, "next")
    /\ job[w].todo = {}
    /\ ended' = [report |-> job[w].report, left |-> job[w].left,
                 mode |-> job[w].mode, completed |-> ~job[w].failed]
    /\ job' = [job EXCEPT ![w] = None]
    /\ KeepCards
    /\ UNCHANGED <<spend, event>>

\* A request to the provider or a statement fails, and the result is failed; a backfill
\* fails when its targets are not the expected number.  What was written stays written.
Fail(w) ==
    /\ job[w] # None
    /\ Crashes
    /\ job' = [job EXCEPT ![w] = None]
    /\ plan' = [plan EXCEPT ![w] = NoPlan]
    /\ TouchCards
    /\ UNCHANGED <<card, outdated, overwritten, operations, spend, event, ended>>

-----------------------------------------------------------------------------
(* An inventory an administrator asks for, and the events they settle.     *)

syncProvider(w, lost) ==
    /\ job[w] = None
    /\ operations < MaxOperations
    /\ operations' = operations + 1
    /\ PlanInventory(w, lost)
    /\ UNCHANGED importVars

UpsertCard(w, c) == WriteCard(w, c) /\ UNCHANGED <<importVars, operations>>

ignore(t) ==
    /\ event[t] \notin {"none", "ignored"}
    /\ event' = [event EXCEPT ![t] = "ignored"]
    /\ KeepCards
    /\ UNCHANGED <<spend, job, ended>>

resolve(t) ==
    /\ event[t] \notin {"none", "resolved"}
    /\ event' = [event EXCEPT ![t] = "resolved"]
    /\ KeepCards
    /\ UNCHANGED <<spend, job, ended>>

ImportNext ==
    \E w \in Workers :
        \/ \E mode \in Modes : StartImport(w, mode)
        \/ \E lost \in SUBSET Cards : ImportInventory(w, lost)
        \/ \E report \in [Transactions -> Entries] : Fetch(w, report)
        \/ \E t \in Transactions : Take(w, t)
        \/ WriteSpendNothing(w)
        \/ recordFailureUnlessPreview(w)
        \/ upsertCardSpendEvent(w)
        \/ Settle(w)
        \/ Finish(w)
        \/ Fail(w)
        \/ \E lost \in SUBSET Cards : syncProvider(w, lost)
        \/ \E c \in Cards : UpsertCard(w, c)

Next ==
    \/ ImportNext
    \/ \E t \in Transactions : ignore(t) \/ resolve(t)
    \/ (EnvironmentNext \/ GovernanceNext) /\ UNCHANGED importVars

Spec == Init /\ [][Next]_vars

-----------------------------------------------------------------------------
(* Properties.                                                             *)

TypeOK ==
    /\ CardsTypeOK
    /\ spend \in [Transactions -> SpendRows \cup {None}]
    /\ event \in [Transactions -> {"none", "open", "ignored", "resolved", "imported"}]

\* Nothing a report shows is lost when an import ends: a transaction that counts was
\* left out as excluded or out of target, or is spend, or has an unmatched event; and
\* an import that completed has booked every one of them, PhotonPay's at the amount
\* reported, whoever else imported meanwhile.
ImportedOrExplained ==
    ended # None =>
        \A t \in Transactions :
            (ended.mode # "preview" /\ ended.report[t] # "none" /\ t \notin ended.left) =>
                /\ spend[t] # None \/ event[t] # "none"
                /\ ended.completed =>
                       /\ spend[t] # None
                       /\ provider = "photonpay" => spend[t].amount = ended.report[t]

\* What an import settled has been imported: the event is closed only after the spend
\* was written, and no failure in between closes it.
SettledEventsAreSpend ==
    \A t \in Transactions : event[t] = "imported" => spend[t] # None

PhotonPayIsImmutable == \A t \in Transactions : (provider = "photonpay" /\ spend[t] # None) => spend'[t] = spend[t]

PreviewsWriteNothing ==
    \A w \in Workers : (job[w] # None /\ job'[w] # job[w]) =>
        (job[w].mode = "preview" => UNCHANGED <<card, spend, event>>)

\* PhotonPay spend once written never changes, although the card may have changed
\* hands, the provider may report another amount, and two imports may race; and a
\* preview, which runs the code of an import, writes no card, no spend and no event.
BookedSpendIsKept == [][PhotonPayIsImmutable /\ PreviewsWriteNothing]_vars

\* What imports leave behind, however they ended.
SpendInv == TypeOK /\ ImportedOrExplained /\ SettledEventsAreSpend
=============================================================================
