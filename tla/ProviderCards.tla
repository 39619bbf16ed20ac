---------------------------- MODULE ProviderCards ----------------------------
(***************************************************************************)
(* The cards one provider has issued, the employee each is matched to, and *)
(* what decides about the match: the employees' addresses, their SUB       *)
(* mappings, the email aliases and the accounting exclusions               *)
(* administrators keep for PhotonPay, and the inventory that reads all of  *)
(* them once and then writes card after card.                              *)
(*                                                                         *)
(* A governance request is checked by a preview before its serializable    *)
(* transaction begins.  Reason codes, statistics and the log of            *)
(* resolutions are left out.                                               *)
(***************************************************************************)
EXTENDS Integers, FiniteSets

CONSTANTS
    Cards, Emails, Employees,
    AliasIds, ExclusionIds, \* rows these tables may hold
    Admins, Workers,
    MaxDate,                \* bound on the clock
    MaxOperations,          \* bound on edits, requests, inventories, imports and ticks
    None

Dates == 1 .. MaxDate
Forever == MaxDate + 1

\* Half-open periods; an open end is Forever.
Periods == {p \in [from : Dates, to : Dates \cup {Forever}] : p.from < p.to}

\* The columns of each table.
EmployeeRows == [email : Emails \cup {None}, active : BOOLEAN, mapped : BOOLEAN]
AliasRows == [email : Emails, employee : Employees, from : Dates, to : Dates \cup {Forever},
              active : BOOLEAN]
ExclusionRows == [card : Cards, from : Dates, to : Dates \cup {Forever}, active : BOOLEAN]
CardRows == [email : Emails \cup {None}, status : {"matched", "unmatched", "conflict", "excluded"},
             source : {"primary", "alias", None}, employee : Employees \cup {None}]

ASSUME CardsAssumption ==
    /\ MaxDate \in Nat \ {0}
    /\ IsFiniteSet(Emails) /\ IsFiniteSet(Employees) /\ IsFiniteSet(AliasIds)

ASSUME NoneIsNoCard == None \notin CardRows

VARIABLES
    provider,               \* whose cards these are
    date,
    holder,                 \* what the provider says of a card: its holders' addresses
    employee,               \* address, status and whether a SUB mapping is usable
    alias,                  \* provider_email_aliases
    exclusion,              \* provider_card_accounting_exclusions
    card,                   \* provider_cards
    spend,                  \* card_spend_events, written by imports
    request,                \* per administrator, between preview and transaction
    plan,                   \* per worker, rows its inventory has yet to write
    outdated,               \* workers whose reads somebody changed since
    overwritten,            \* cards whose row comes from outdated reads
    operations              \* counter the bound is on

cardVars == <<provider, date, holder, employee, alias, exclusion, card, spend, request,
              plan, outdated, overwritten, operations>>

NoPlan == [c \in Cards |-> None]

InitCards ==
    /\ provider \in {"airwallex", "photonpay"}
    /\ date = 1
    /\ holder \in [Cards -> {{m} : m \in Emails}]
    /\ employee \in [Employees -> [email : Emails \cup {None}, active : {TRUE}, mapped : {TRUE}]]
    /\ alias = [a \in AliasIds |-> None]
    /\ exclusion = [x \in ExclusionIds |-> None]
    /\ card = [c \in Cards |-> None]
    /\ request = [d \in Admins |-> None]
    /\ plan = [w \in Workers |-> NoPlan]
    /\ outdated = {} /\ overwritten = {}
    /\ operations = 0

-----------------------------------------------------------------------------
(* Matching.                                                               *)

Covers(row, at) == row.from <= at /\ at < row.to
Overlap(p, q) == p.from < q.to /\ q.from < p.to
ActiveAliases(m) == {a \in AliasIds : alias[a] # None /\ alias[a].active /\ alias[a].email = m}
ActiveExclusions(c) ==
    {x \in ExclusionIds : exclusion[x] # None /\ exclusion[x].active /\ exclusion[x].card = c}

Row(email, status, source, owner) ==
    [email |-> email, status |-> status, source |-> source, employee |-> owner]

Primaries(m) == {e \in Employees : employee[e].email = m}

\* variant: the account of a matched employee need not have a SUB mapping
validateActiveOnly(m, source, e) ==
    IF employee[e].active THEN Row(m, "matched", source, e) ELSE Row(m, "unmatched", None, None)

validateEmployeeMatch(m, source, e) ==
    IF employee[e].active /\ (provider = "photonpay" => employee[e].mapped)
    THEN Row(m, "matched", source, e)
    ELSE Row(m, "unmatched", None, None)

\* The employee an address belongs to, through the aliases `rows` shows.
matchProviderCard(m, rows) ==
    LET primary == Primaries(m)
        named == {a \in AliasIds : /\ provider = "photonpay"
                                   /\ rows[a] # None
                                   /\ rows[a].active /\ rows[a].email = m
                                   /\ Covers(rows[a], date)}
        owners == {rows[a].employee : a \in named}
    IN  IF m = None THEN Row(m, "unmatched", None, None)
        ELSE IF Cardinality(primary) > 1 \/ Cardinality(named) > 1
                \/ Cardinality(primary \cup owners) > 1
             THEN Row(m, "conflict", None, None)
        ELSE IF primary # {} THEN validateEmployeeMatch(m, "primary", CHOOSE e \in primary : TRUE)
        ELSE IF owners # {} THEN validateEmployeeMatch(m, "alias", CHOOSE e \in owners : TRUE)
        ELSE Row(m, "unmatched", None, None)

Excluded(m) == Row(m, "excluded", None, None)

IsExcluded(c, rows, at) ==
    \E x \in ExclusionIds : /\ rows[x] # None
                            /\ rows[x].active /\ rows[x].card = c /\ Covers(rows[x], at)

\* Only unmatched cards are matched anew: a conflict waits for the inventory.
rematchUnmatched(rows, aliases, exclusions, selected) ==
    [c \in Cards |->
        IF c \in selected /\ rows[c] # None /\ rows[c].status = "unmatched"
        THEN IF IsExcluded(c, exclusions, date) THEN Excluded(rows[c].email)
             ELSE matchProviderCard(rows[c].email, aliases)
        ELSE rows[c]]

unmatchAliasCards(m) ==
    [c \in Cards |->
        IF card[c] # None /\ card[c].email = m /\ card[c].status = "matched" /\ card[c].source = "alias"
        THEN Row(m, "unmatched", None, None)
        ELSE card[c]]

WithEmail(m) == {c \in Cards : card[c] # None /\ card[c].email = m}

-----------------------------------------------------------------------------
(* What others do to the data matching depends on.                         *)

Outdate == outdated' = Workers

EditEmployee(e, row) ==
    /\ operations < MaxOperations
    /\ employee' = [employee EXCEPT ![e] = row]
    /\ operations' = operations + 1
    /\ Outdate
    /\ UNCHANGED <<provider, date, holder, alias, exclusion, card, spend, request, plan,
                   overwritten>>

\* PhotonPay names one holder; Airwallex may name more.
ChangeHolder(c, emails) ==
    /\ operations < MaxOperations
    /\ provider = "photonpay" => Cardinality(emails) <= 1
    /\ holder' = [holder EXCEPT ![c] = emails]
    /\ operations' = operations + 1
    /\ Outdate
    /\ UNCHANGED <<provider, date, employee, alias, exclusion, card, spend, request, plan,
                   overwritten>>

Tick ==
    /\ date < MaxDate
    /\ operations < MaxOperations
    /\ operations' = operations + 1
    /\ date' = date + 1
    /\ Outdate
    /\ UNCHANGED <<provider, holder, employee, alias, exclusion, card, spend, request, plan,
                   overwritten>>

-----------------------------------------------------------------------------
(* The inventory.                                                          *)

\* PhotonPay: an address once stored is kept, and no details are asked for.
StoredEmail(c, lost) ==
    IF provider = "photonpay" /\ card[c] # None /\ card[c].email # None THEN card[c].email
    ELSE IF c \in lost \/ holder[c] = {} THEN None
    ELSE CHOOSE m \in holder[c] : TRUE

\* `lost`: cards whose holder could not be looked up.  Two holders are a conflict.
PlannedRow(c, lost) ==
    LET m == StoredEmail(c, lost)
    IN  IF IsExcluded(c, exclusion, date) THEN Excluded(m)
        ELSE IF provider = "airwallex" /\ Cardinality(holder[c]) > 1 THEN Row(m, "conflict", None, None)
        ELSE IF m = None THEN Row(m, "unmatched", None, None)
        ELSE matchProviderCard(m, alias)

\* Reads the provider's cards, then employees, mappings, aliases and exclusions.
\* The lookup of Airwallex holders fails for all cards or for none.
PlanInventory(w, lost) ==
    /\ plan[w] = NoPlan
    /\ provider = "airwallex" => lost \in {{}, Cards}
    /\ plan' = [plan EXCEPT ![w] = [c \in Cards |-> PlannedRow(c, lost)]]
    /\ outdated' = outdated \ {w}
    /\ UNCHANGED <<provider, date, holder, employee, alias, exclusion, card, spend, request,
                   overwritten>>

\* One upsert, whatever became of the row since the inventory read it.
WriteCard(w, c) ==
    /\ plan[w][c] # None
    /\ card' = [card EXCEPT ![c] = plan[w][c]]
    /\ plan' = [plan EXCEPT ![w][c] = None]
    /\ overwritten' = IF w \in outdated THEN overwritten \cup {c} ELSE overwritten \ {c}
    /\ outdated' = IF card'[c] = card[c] THEN outdated ELSE outdated \cup (Workers \ {w})
    /\ UNCHANGED <<provider, date, holder, employee, alias, exclusion, spend, request, operations>>

-----------------------------------------------------------------------------
(* Governance of PhotonPay cards.                                          *)

Ask(d, r) ==
    /\ provider = "photonpay"
    /\ request[d] = None
    /\ operations < MaxOperations
    /\ request' = [request EXCEPT ![d] = r]
    /\ operations' = operations + 1
    /\ UNCHANGED <<provider, date, holder, employee, alias, exclusion, card, spend, plan,
                   outdated, overwritten>>

\* Who may be named by an alias of address m.
Nameable(m, e) ==
    /\ employee[e].active /\ employee[e].mapped
    /\ Primaries(m) \subseteq {e}

SamePeriod(row, p) == row.from = p.from /\ row.to = p.to

\* An alias that makes the request idempotent: one of that period, or, when the
\* request names no start, one in effect.
Repeats(row, p, defaulted) ==
    IF defaulted THEN Covers(row, date) ELSE SamePeriod(row, p)

previewAlias(d, m, e, p, defaulted) ==
    LET met == {a \in ActiveAliases(m) : Overlap(alias[a], p)}
    IN  /\ WithEmail(m) # {}
        /\ defaulted => p.from = date
        /\ Nameable(m, e)
        /\ Cardinality(met) <= 1
        /\ \A a \in met : alias[a].employee = e /\ Repeats(alias[a], p, defaulted)
        /\ Ask(d, [op |-> "alias", email |-> m, employee |-> e, period |-> p, defaulted |-> defaulted])

previewAliasCorrection(d, a, e, p) ==
    /\ alias[a] # None
    /\ Nameable(alias[a].email, e)
    /\ \A b \in ActiveAliases(alias[a].email) \ {a} : ~Overlap(alias[b], p)
    /\ Ask(d, [op |-> "correction", id |-> a, employee |-> e, period |-> p])

previewExclusion(d, c, p, defaulted) ==
    /\ card[c] # None
    /\ defaulted => p.from = date
    /\ \A t \in DOMAIN spend : spend[t] # None => spend[t].card # c
    /\ Ask(d, [op |-> "exclusion", card |-> c, period |-> p, defaulted |-> defaulted])

\* Commits what a transaction did and ends the request.
Commit(d, aliases, exclusions, rows) ==
    /\ alias' = aliases
    /\ exclusion' = exclusions
    /\ card' = rows
    /\ request' = [request EXCEPT ![d] = None]
    /\ overwritten' = {c \in overwritten : rows[c] = card[c]}
    /\ Outdate
    /\ UNCHANGED <<provider, date, holder, employee, spend, plan, operations>>

\* The triggers of both tables: no active row of the same subject may overlap.
enforcePeriod(row, rows, id) ==
    \A i \in DOMAIN rows \ {id} :
        (rows[i] # None /\ rows[i].active) => ~Overlap(rows[i], row)

AliasesOf(m) == [a \in AliasIds |-> IF alias[a] # None /\ alias[a].email = m THEN alias[a] ELSE None]
ExclusionsOf(c) == [x \in ExclusionIds |-> IF exclusion[x] # None /\ exclusion[x].card = c THEN exclusion[x] ELSE None]

createAlias(d) ==
    LET r == request[d]
        same == {a \in ActiveAliases(r.email) : /\ alias[a].employee = r.employee
                                                /\ Repeats(alias[a], r.period, r.defaulted)}
        new == [email |-> r.email, employee |-> r.employee,
                from |-> IF r.defaulted THEN date ELSE r.period.from,
                to |-> r.period.to, active |-> TRUE]
    IN  /\ r # None
        /\ r.op = "alias"
        /\ \/ /\ same # {}
              /\ Commit(d, alias, exclusion, rematchUnmatched(card, alias, exclusion, WithEmail(r.email)))
           \/ \E a \in AliasIds :
              /\ same = {}
              /\ alias[a] = None
              /\ new.from < new.to
              /\ enforcePeriod(new, AliasesOf(r.email), a)
              /\ LET aliases == [alias EXCEPT ![a] = new]
                 IN  Commit(d, aliases, exclusion,
                            rematchUnmatched(card, aliases, exclusion, WithEmail(r.email)))

correctAlias(d) ==
    LET r == request[d]
        m == alias[r.id].email
        new == [email |-> m, employee |-> r.employee, from |-> r.period.from,
                to |-> r.period.to, active |-> TRUE]
        aliases == [alias EXCEPT ![r.id] = new]
    IN  /\ r # None
        /\ r.op = "correction"
        /\ enforcePeriod(new, AliasesOf(m), r.id)
        /\ Commit(d, aliases, exclusion,
                  rematchUnmatched(unmatchAliasCards(m), aliases, exclusion, WithEmail(m)))

\* variant: the cards of a disabled alias keep their match
DisableKeepsCards(d, a) ==
    /\ request[d] = None
    /\ alias[a] # None
    /\ alias[a].active
    /\ Commit(d, [alias EXCEPT ![a].active = FALSE], exclusion, card)

disableAlias(d, a) ==
    /\ request[d] = None
    /\ alias[a] # None
    /\ alias[a].active
    /\ LET m == alias[a].email
           aliases == [alias EXCEPT ![a].active = FALSE]
       IN  Commit(d, aliases, exclusion,
                  rematchUnmatched(unmatchAliasCards(m), aliases, exclusion, WithEmail(m)))

executeRematch(d) ==
    /\ provider = "photonpay"
    /\ request[d] = None
    /\ Commit(d, alias, exclusion, rematchUnmatched(card, alias, exclusion, Cards))

createExclusion(d) ==
    LET r == request[d]
        same == {x \in ActiveExclusions(r.card) : Repeats(exclusion[x], r.period, r.defaulted)}
        new == [card |-> r.card, from |-> r.period.from, to |-> r.period.to, active |-> TRUE]
    IN  /\ r # None
        /\ r.op = "exclusion"
        /\ \/ same # {} /\ Commit(d, alias, exclusion, card)
           \/ \E x \in ExclusionIds :
              /\ same = {}
              /\ exclusion[x] = None
              /\ enforcePeriod(new, ExclusionsOf(r.card), x)
              /\ Commit(d, alias, [exclusion EXCEPT ![x] = new],
                        IF Covers(new, date)
                        THEN [card EXCEPT ![r.card] = Excluded(card[r.card].email)] ELSE card)

disableExclusion(d, x) ==
    /\ request[d] = None
    /\ exclusion[x] # None
    /\ exclusion[x].active
    /\ LET c == exclusion[x].card
           exclusions == [exclusion EXCEPT ![x].active = FALSE]
           freed == [card EXCEPT ![c] = Row(card[c].email, "unmatched", None, None)]
       IN  Commit(d, alias, exclusions,
                  IF card[c].status = "excluded"
                  THEN rematchUnmatched(freed, alias, exclusions, {c}) ELSE card)

\* The transaction is refused, or the administrator does not confirm.
DropRequest(d) ==
    /\ request[d] # None
    /\ request' = [request EXCEPT ![d] = None]
    /\ UNCHANGED <<provider, date, holder, employee, alias, exclusion, card, spend, plan,
                   outdated, overwritten, operations>>

EnvironmentNext ==
    \/ Tick
    \/ \E e \in Employees, row \in EmployeeRows : EditEmployee(e, row)
    \/ \E c \in Cards, emails \in SUBSET Emails : ChangeHolder(c, emails)

GovernanceNext ==
    \E d \in Admins :
        \/ \E m \in Emails, e \in Employees, p \in Periods, def \in BOOLEAN : previewAlias(d, m, e, p, def)
        \/ \E a \in AliasIds, e \in Employees, p \in Periods : previewAliasCorrection(d, a, e, p)
        \/ \E c \in Cards, p \in Periods, def \in BOOLEAN : previewExclusion(d, c, p, def)
        \/ createAlias(d) \/ correctAlias(d) \/ createExclusion(d)
        \/ executeRematch(d) \/ DropRequest(d)
        \/ \E a \in AliasIds : disableAlias(d, a)
        \/ \E x \in ExclusionIds : disableExclusion(d, x)

-----------------------------------------------------------------------------
(* Properties.                                                             *)

CardsTypeOK ==
    /\ provider \in {"airwallex", "photonpay"} /\ date \in Dates
    /\ holder \in [Cards -> SUBSET Emails] /\ employee \in [Employees -> EmployeeRows]
    /\ alias \in [AliasIds -> AliasRows \cup {None}]
    /\ exclusion \in [ExclusionIds -> ExclusionRows \cup {None}]
    /\ card \in [Cards -> CardRows \cup {None}]
    /\ outdated \subseteq Workers /\ overwritten \subseteq Cards

\* Two administrators whose previews each saw room never leave two active aliases of
\* one address, or two active exclusions of one card, with periods that overlap (the
\* triggers of both tables, which the previews only anticipate).
PeriodsNeverOverlap ==
    /\ \A a, b \in AliasIds :
          (a # b /\ alias[a] # None /\ alias[b] # None) =>
              ~(alias[a].active /\ alias[b].active /\ alias[a].email = alias[b].email
                /\ Overlap(alias[a], alias[b]))
    /\ \A x, y \in ExclusionIds :
          (x # y /\ exclusion[x] # None /\ exclusion[y] # None) =>
              ~(exclusion[x].active /\ exclusion[y].active /\ exclusion[x].card = exclusion[y].card
                /\ Overlap(exclusion[x], exclusion[y]))

\* Whom an address names: employees who have it, and owners of aliases in effect.
Claimants(m) ==
    Primaries(m) \cup {alias[a].employee : a \in {b \in ActiveAliases(m) :
                                                provider = "photonpay" /\ Covers(alias[b], date)}}

MayOwn(e) == employee[e].active /\ (provider = "photonpay" => employee[e].mapped)

\* A row of card c is matched exactly when its address names one employee who may own it.
RowIsJustified(c, row) ==
    LET m == row.email
        owned == /\ m # None /\ ~IsExcluded(c, exclusion, date)
                 /\ provider = "airwallex" => Cardinality(holder[c]) = 1
                 /\ Cardinality(Claimants(m)) = 1 /\ \A e \in Claimants(m) : MayOwn(e)
    IN  /\ (row.status = "matched") <=> owned
        /\ owned => Claimants(m) = {row.employee}

Justified(c) == RowIsJustified(c, card[c])

\* When an inventory ends and nothing it read was changed since, every card is matched
\* exactly when its stored address names one employee and that one may own cards: no
\* card is given to one of two claimants, and none is left out (matchProviderCard and
\* the writes that follow it, next to other inventories and governance).
UndisturbedInventoryFindsOwners ==
    [][\A w \in Workers :
          (/\ plan[w] # NoPlan /\ plan'[w] = NoPlan /\ w \notin outdated
           /\ \A c \in Cards : plan[w][c] # None => card'[c] = plan[w][c]) =>
              \A c \in Cards : Justified(c)']_cardVars

\* A row matched through an alias has an active alias of its address and employee.
Backed(row, aliases) ==
    (row.status = "matched" /\ row.source = "alias") =>
        \E a \in AliasIds : /\ aliases[a] # None
                            /\ aliases[a].active /\ aliases[a].email = row.email
                            /\ aliases[a].employee = row.employee

\* A card matched through an alias stays backed by one, whatever administrators
\* corrected or disabled since, unless an inventory wrote it from reads older than what
\* they did: the one way a withdrawn alias goes on owning a card.
AliasMatchesAreBacked ==
    \A c \in Cards \ overwritten : card[c] # None => Backed(card[c], alias)

\* Who owns a card: governance has one answer for each day, and matches rest on it.
CardsInv == CardsTypeOK /\ PeriodsNeverOverlap /\ AliasMatchesAreBacked
=============================================================================
