------------------------ MODULE CardSpendImportProofs ------------------------
(***************************************************************************)
(* What governance, inventories and imports keep for any number of cards,  *)
(* aliases, exclusions, transactions, workers and administrators.          *)
(***************************************************************************)
EXTENDS CardSpendImport, TLAPS, FiniteSetTheorems

-----------------------------------------------------------------------------
(* The inductive invariant.                                                *)

\* What an administrator asks for between preview and transaction.
Requests ==
    [op : {"alias"}, email : Emails, employee : Employees, period : Periods, defaulted : BOOLEAN]
        \cup [op : {"correction"}, id : AliasIds, employee : Employees, period : Periods]
        \cup [op : {"exclusion"}, card : Cards, period : Periods, defaulted : BOOLEAN]

\* What an import knows.
Jobs == [mode : Modes, step : {"inventory", "fetch", "next", "write", "settle"},
         report : [Transactions -> Entries] \cup {None}, todo : SUBSET Transactions,
         targets : SUBSET Cards, at : Transactions \cup {None},
         owner : Employees \cup {"excluded", None}, left : SUBSET Transactions,
         failed : BOOLEAN]

WorkTypeOK ==
    /\ request \in [Admins -> Requests \cup {None}]
    /\ plan \in [Workers -> [Cards -> CardRows \cup {None}]]

\* Rows that requests and exclusions point to are never deleted.
RowsRemain ==
    /\ \A d \in Admins : request[d] # None =>
          /\ request[d].op = "correction" => alias[request[d].id] \in AliasRows
          /\ request[d].op = "exclusion" => card[request[d].card] \in CardRows
    /\ \A x \in ExclusionIds : exclusion[x] # None => card[exclusion[x].card] \in CardRows

\* While nothing an inventory read is changed, what it has yet to write is right, and
\* what it wrote is still right.
PlansAreRight ==
    \A w \in Workers \ outdated : \A c \in Cards :
        /\ plan[w][c] # None => RowIsJustified(c, plan[w][c]) /\ Backed(plan[w][c], alias)
        /\ (plan[w] # NoPlan /\ plan[w][c] = None) => Justified(c)

\* Who owns the cards.
CardsIInv ==
    /\ CardsTypeOK /\ WorkTypeOK
    /\ RowsRemain /\ PeriodsNeverOverlap /\ AliasMatchesAreBacked /\ PlansAreRight

\* What an import works on at each of its steps; a preview writes nothing to settle.
JobInStep(j) ==
    /\ j.step \in {"next", "write", "settle"} => j.report \in [Transactions -> Entries]
    /\ j.step = "next" => \A t \in j.todo : j.report[t] # "none"
    /\ j.step \in {"write", "settle"} =>
          /\ j.at \in Transactions
          /\ \A t \in j.todo \cup {j.at} : j.report[t] # "none"
    /\ j.step = "settle" => j.mode # "preview" /\ spend[j.at] # None

JobsInStep == \A w \in Workers : job[w] # None => JobInStep(job[w])

\* What became of a transaction that was reported as `entry`.
Booked(t, entry) == spend[t] # None /\ (provider = "photonpay" => spend[t].amount = entry)
Explained(t) == spend[t] # None \/ event[t] # "none"

\* What an import is through with.
Done(j) ==
    Transactions \ (j.todo \cup j.left \cup (IF j.step = "next" THEN {} ELSE {j.at}))

\* An import has explained what it is through with, and booked it unless it failed;
\* what it is about to settle is booked.
JobExplains(j) ==
    j.mode # "preview" =>
        /\ j.step \in {"next", "write", "settle"} =>
              \A t \in Done(j) : j.report[t] # "none" =>
                  Explained(t) /\ (~j.failed => Booked(t, j.report[t]))
        /\ j.step = "settle" => Booked(j.at, j.report[j.at])

JobsExplain == \A w \in Workers : job[w] # None => JobExplains(job[w])

ImportIInv ==
    /\ TypeOK /\ job \in [Workers -> Jobs \cup {None}]
    /\ JobsInStep /\ JobsExplain /\ ImportedOrExplained /\ SettledEventsAreSpend

IInv == CardsIInv /\ ImportIInv
-----------------------------------------------------------------------------
(* Matching.                                                               *)

LEMMA MatchTypes ==
  ASSUME NEW m \in Emails \cup {None}, NEW aliases \in [AliasIds -> AliasRows \cup {None}],
         employee \in [Employees -> EmployeeRows]
  PROVE  matchProviderCard(m, aliases) \in CardRows /\ Backed(matchProviderCard(m, aliases), aliases)
<1> DEFINE primary == Primaries(m)
           named == {a \in AliasIds : /\ provider = "photonpay"
                                      /\ aliases[a] # None
                                      /\ aliases[a].active /\ aliases[a].email = m
                                      /\ Covers(aliases[a], date)}
           owners == {aliases[a].employee : a \in named}
           row == matchProviderCard(m, aliases)
<1>1. \A e \in Employees, source \in {"primary", "alias"} :
         validateEmployeeMatch(m, source, e) \in
             {Row(m, "matched", source, e), Row(m, "unmatched", None, None)}
  BY DEF validateEmployeeMatch
<1>2. primary \subseteq Employees /\ (primary # {} => (CHOOSE e \in primary : TRUE) \in primary)
  BY DEF Primaries
<1>3. owners # {} => (CHOOSE e \in owners : TRUE) \in owners
  OBVIOUS
<1>4. owners \subseteq Employees
  BY DEF AliasRows
<1>5. \/ row \in {Row(m, "unmatched", None, None), Row(m, "conflict", None, None)}
      \/ primary # {} /\ row = validateEmployeeMatch(m, "primary", CHOOSE e \in primary : TRUE)
      \/ owners # {} /\ row = validateEmployeeMatch(m, "alias", CHOOSE e \in owners : TRUE)
  BY DEF matchProviderCard
<1> HIDE DEF primary, row
<1>6. \/ row \in {Row(m, "unmatched", None, None), Row(m, "conflict", None, None)}
      \/ \E e \in Employees : row = Row(m, "matched", "primary", e)
      \/ \E e \in owners : row = Row(m, "matched", "alias", e)
  BY <1>1, <1>2, <1>3, <1>4, <1>5
<1>7. row \in CardRows
  BY <1>4, <1>6 DEF CardRows, Row
<1>8. Backed(row, aliases)
  BY <1>6 DEF Backed, Row
<1> QED
  BY <1>7, <1>8 DEF row

\* What a rematch makes of a card: nothing, or a row of the same address backed by the
\* aliases it was given.
LEMMA RematchTypes ==
  ASSUME NEW rows \in [Cards -> CardRows \cup {None}],
         NEW aliases \in [AliasIds -> AliasRows \cup {None}], NEW exclusions, NEW selected,
         employee \in [Employees -> EmployeeRows]
  PROVE  /\ rematchUnmatched(rows, aliases, exclusions, selected) \in [Cards -> CardRows \cup {None}]
         /\ \A c \in Cards :
               LET row == rematchUnmatched(rows, aliases, exclusions, selected)[c]
               IN  row = rows[c] \/ (rows[c] # None /\ row \in CardRows /\ Backed(row, aliases))
<1> DEFINE Again(c) == IF c \in selected /\ rows[c] # None /\ rows[c].status = "unmatched"
                       THEN IF IsExcluded(c, exclusions, date) THEN Excluded(rows[c].email)
                            ELSE matchProviderCard(rows[c].email, aliases)
                       ELSE rows[c]
<1>1. \A c \in Cards : \/ Again(c) = rows[c]
                       \/ rows[c] # None /\ Again(c) \in CardRows /\ Backed(Again(c), aliases)
  <2> SUFFICES ASSUME NEW c \in Cards, c \in selected, rows[c] # None
               PROVE  Again(c) = rows[c] \/ (Again(c) \in CardRows /\ Backed(Again(c), aliases))
    OBVIOUS
  <2>1. rows[c] \in CardRows /\ rows[c].email \in Emails \cup {None}
    BY DEF CardRows
  <2>2. Excluded(rows[c].email) \in CardRows /\ Backed(Excluded(rows[c].email), aliases)
    BY <2>1 DEF Excluded, Row, CardRows, Backed
  <2>3. /\ matchProviderCard(rows[c].email, aliases) \in CardRows
        /\ Backed(matchProviderCard(rows[c].email, aliases), aliases)
    BY <2>1, MatchTypes
  <2> QED
    BY <2>2, <2>3
<1>2. rematchUnmatched(rows, aliases, exclusions, selected) = [c \in Cards |-> Again(c)]
  BY DEF rematchUnmatched
<1> HIDE DEF Again
<1>3. \A c \in Cards : Again(c) \in CardRows \cup {None}
  BY <1>1
<1> QED
  BY <1>1, <1>2, <1>3

-----------------------------------------------------------------------------
(* Governance.                                                             *)

\* A transaction keeps who owns the cards if it deletes no row, has a card for each
\* exclusion, lets no two periods overlap, and backs what it matches.
LEMMA CommitKeeps ==
  ASSUME CardsIInv, NEW d \in Admins,
         NEW aliases \in [AliasIds -> AliasRows \cup {None}],
         NEW exclusions \in [ExclusionIds -> ExclusionRows \cup {None}],
         NEW rows \in [Cards -> CardRows \cup {None}],
         Commit(d, aliases, exclusions, rows),
         \A a \in AliasIds : alias[a] \in AliasRows => aliases[a] \in AliasRows,
         \A c \in Cards : card[c] \in CardRows => rows[c] \in CardRows,
         \A x \in ExclusionIds : exclusions[x] # None => card[exclusions[x].card] \in CardRows,
         \A a, b \in AliasIds : (a # b /\ aliases[a] # None /\ aliases[b] # None) =>
             ~(aliases[a].active /\ aliases[b].active /\ aliases[a].email = aliases[b].email
               /\ Overlap(aliases[a], aliases[b])),
         \A x, y \in ExclusionIds : (x # y /\ exclusions[x] # None /\ exclusions[y] # None) =>
             ~(exclusions[x].active /\ exclusions[y].active /\ exclusions[x].card = exclusions[y].card
               /\ Overlap(exclusions[x], exclusions[y])),
         \A c \in Cards : \/ rows[c] = card[c] /\ c \in overwritten
                          \/ rows[c] # None => Backed(rows[c], aliases)
  PROVE  CardsIInv'
<1>1. /\ alias' = aliases /\ exclusion' = exclusions /\ card' = rows
      /\ request' = [request EXCEPT ![d] = None]
      /\ overwritten' = {c \in overwritten : rows[c] = card[c]}
      /\ outdated' = Workers
      /\ UNCHANGED <<provider, date, holder, employee, plan>>
  BY DEF Commit, Outdate
<1>2. CardsTypeOK'
  BY <1>1 DEF CardsIInv, CardsTypeOK
<1>3. WorkTypeOK'
  BY <1>1 DEF CardsIInv, WorkTypeOK
<1>4. RowsRemain'
  <2>1. \A e \in Admins : request'[e] # None => request'[e] = request[e]
    BY <1>1 DEF CardsIInv, WorkTypeOK
  <2>2. \A e \in Admins : request[e] # None => request[e] \in Requests
    BY DEF CardsIInv, WorkTypeOK
  <2>3. ASSUME NEW e \in Admins, request'[e] # None
        PROVE  /\ request'[e].op = "correction" => alias'[request'[e].id] \in AliasRows
               /\ request'[e].op = "exclusion" => card'[request'[e].card] \in CardRows
    <3>1. request'[e] = request[e] /\ request[e] \in Requests
      BY <2>1, <2>2, <2>3
    <3>2. request[e].op = "correction" => request[e].id \in AliasIds
      BY <3>1 DEF Requests
    <3>3. request[e].op = "exclusion" => request[e].card \in Cards
      BY <3>1 DEF Requests
    <3>4. /\ request[e].op = "correction" => alias[request[e].id] \in AliasRows
          /\ request[e].op = "exclusion" => card[request[e].card] \in CardRows
      BY <2>3, <3>1 DEF CardsIInv, RowsRemain
    <3> QED
      BY <1>1, <3>1, <3>2, <3>3, <3>4
  <2>4. \A x \in ExclusionIds : exclusion'[x] # None => card'[exclusion'[x].card] \in CardRows
    <3> SUFFICES ASSUME NEW x \in ExclusionIds, exclusions[x] # None
                 PROVE  rows[exclusions[x].card] \in CardRows
      BY <1>1
    <3>1. exclusions[x].card \in Cards
      BY DEF ExclusionRows
    <3> QED
      BY <3>1
  <2> QED
    BY <2>3, <2>4 DEF RowsRemain
<1>5. PeriodsNeverOverlap'
  BY <1>1 DEF PeriodsNeverOverlap, Overlap
<1>6. AliasMatchesAreBacked'
  <2> SUFFICES ASSUME NEW c \in Cards, c \notin overwritten', rows[c] # None
               PROVE  Backed(rows[c], aliases)
    BY <1>1 DEF AliasMatchesAreBacked, Backed
  <2> QED
    BY <1>1
<1>7. PlansAreRight'
  BY <1>1 DEF PlansAreRight
<1> QED
  BY <1>2, <1>3, <1>4, <1>5, <1>6, <1>7 DEF CardsIInv

\* The judgement about a row depends on these columns only.
LEMMA SameJudgement ==
  ASSUME UNCHANGED <<provider, date, holder, employee, alias, exclusion>>
  PROVE  \A c \in Cards : \A row \in CardRows : RowIsJustified(c, row) <=> RowIsJustified(c, row)'
<1>1. \A m : Claimants(m)' = Claimants(m)
  BY DEF Claimants, Primaries, ActiveAliases, Covers
<1>2. \A e : MayOwn(e)' <=> MayOwn(e)
  BY DEF MayOwn
<1>3. \A c \in Cards : IsExcluded(c, exclusion, date)' <=> IsExcluded(c, exclusion, date)
  BY DEF IsExcluded, Covers
<1> QED
  BY <1>1, <1>2, <1>3 DEF RowIsJustified

LEMMA JustifiedStays ==
  ASSUME UNCHANGED <<provider, date, holder, employee, alias, exclusion>>,
         NEW c \in Cards, card'[c] = card[c], Justified(c)
  PROVE  Justified(c)'
<1>1. \A m : Claimants(m)' = Claimants(m)
  BY DEF Claimants, Primaries, ActiveAliases, Covers
<1>2. \A e : MayOwn(e)' <=> MayOwn(e)
  BY DEF MayOwn
<1>3. IsExcluded(c, exclusion, date)' <=> IsExcluded(c, exclusion, date)
  BY DEF IsExcluded, Covers
<1> QED
  BY <1>1, <1>2, <1>3 DEF Justified, RowIsJustified

\* Plans stay right while what they were made from, the rows and the plans are the same.
LEMMA PlansStayRight ==
  ASSUME CardsIInv, UNCHANGED <<provider, date, holder, employee, alias, exclusion, card, plan>>,
         outdated \subseteq outdated'
  PROVE  PlansAreRight'
<1> SUFFICES ASSUME NEW w \in Workers \ outdated', NEW c \in Cards
             PROVE  /\ (plan[w][c] # None =>
                          RowIsJustified(c, plan[w][c]) /\ Backed(plan[w][c], alias))'
                    /\ ((plan[w] # NoPlan /\ plan[w][c] = None) => Justified(c))'
  BY DEF PlansAreRight
<1>1. /\ plan[w][c] # None => RowIsJustified(c, plan[w][c]) /\ Backed(plan[w][c], alias)
      /\ (plan[w] # NoPlan /\ plan[w][c] = None) => Justified(c)
  BY DEF CardsIInv, PlansAreRight
<1>2. (plan[w][c] # None => Backed(plan[w][c], alias))'
  BY <1>1 DEF Backed
<1>3. plan[w][c] # None => plan[w][c] \in CardRows
  BY DEF CardsIInv, WorkTypeOK
<1>4. (plan[w][c] # None => RowIsJustified(c, plan[w][c]))'
  BY <1>1, <1>3, SameJudgement
<1>5. ((plan[w] # NoPlan /\ plan[w][c] = None) => Justified(c))'
  BY <1>1 DEF NoPlan, Justified, RowIsJustified, Claimants, Primaries, ActiveAliases,
              IsExcluded, MayOwn, Covers
<1> QED
  BY <1>2, <1>4, <1>5

\* A request that the preview lets through.
LEMMA AskKeeps ==
  ASSUME CardsIInv, NEW d \in Admins, NEW r \in Requests, Ask(d, r),
         r.op = "correction" => alias[r.id] \in AliasRows,
         r.op = "exclusion" => card[r.card] \in CardRows
  PROVE  CardsIInv'
<1>1. /\ request' = [request EXCEPT ![d] = r]
      /\ UNCHANGED <<provider, date, holder, employee, alias, exclusion, card, plan, outdated, overwritten>>
  BY DEF Ask
<1>2. CardsTypeOK' /\ WorkTypeOK'
  BY <1>1 DEF CardsIInv, CardsTypeOK, WorkTypeOK
<1>3. RowsRemain'
  BY <1>1 DEF CardsIInv, WorkTypeOK, RowsRemain
<1>4. PeriodsNeverOverlap' /\ AliasMatchesAreBacked'
  BY <1>1 DEF CardsIInv, PeriodsNeverOverlap, AliasMatchesAreBacked, Backed, Overlap
<1>5. PlansAreRight'
  BY <1>1, PlansStayRight
<1> QED
  BY <1>2, <1>3, <1>4, <1>5 DEF CardsIInv

LEMMA PreviewsKeep ==
  ASSUME CardsIInv, NEW d \in Admins, NEW p \in Periods, NEW def \in BOOLEAN
  PROVE  /\ \A m \in Emails, e \in Employees : previewAlias(d, m, e, p, def) => CardsIInv'
         /\ \A a \in AliasIds, e \in Employees : previewAliasCorrection(d, a, e, p) => CardsIInv'
         /\ \A c \in Cards : previewExclusion(d, c, p, def) => CardsIInv'
<1>1. ASSUME NEW m \in Emails, NEW e \in Employees, previewAlias(d, m, e, p, def)
      PROVE  CardsIInv'
  <2> DEFINE r == [op |-> "alias", email |-> m, employee |-> e, period |-> p, defaulted |-> def]
  <2>1. r \in Requests /\ r.op = "alias"
    BY DEF Requests
  <2>2. Ask(d, r)
    BY <1>1 DEF previewAlias
  <2> HIDE DEF r
  <2> QED
    BY <2>1, <2>2, AskKeeps
<1>2. ASSUME NEW a \in AliasIds, NEW e \in Employees, previewAliasCorrection(d, a, e, p)
      PROVE  CardsIInv'
  <2> DEFINE r == [op |-> "correction", id |-> a, employee |-> e, period |-> p]
  <2>1. r \in Requests /\ r.op = "correction" /\ r.id = a
    BY DEF Requests
  <2>2. Ask(d, r) /\ alias[a] # None
    BY <1>2 DEF previewAliasCorrection
  <2>3. alias[a] \in AliasRows
    BY <2>2 DEF CardsIInv, CardsTypeOK
  <2> HIDE DEF r
  <2> QED
    BY <2>1, <2>2, <2>3, AskKeeps
<1>3. ASSUME NEW c \in Cards, previewExclusion(d, c, p, def)
      PROVE  CardsIInv'
  <2> DEFINE r == [op |-> "exclusion", card |-> c, period |-> p, defaulted |-> def]
  <2>1. r \in Requests /\ r.op = "exclusion" /\ r.card = c
    BY DEF Requests
  <2>2. Ask(d, r) /\ card[c] # None
    BY <1>3 DEF previewExclusion
  <2>3. card[c] \in CardRows
    BY <2>2 DEF CardsIInv, CardsTypeOK
  <2> HIDE DEF r
  <2> QED
    BY <2>1, <2>2, <2>3, AskKeeps
<1> QED
  BY <1>1, <1>2, <1>3

\* A transaction that leaves aliases and exclusions as they are and matches cards anew.
LEMMA RematchCommit ==
  ASSUME CardsIInv, NEW d \in Admins, NEW selected,
         Commit(d, alias, exclusion, rematchUnmatched(card, alias, exclusion, selected))
  PROVE  CardsIInv'
<1> DEFINE rows == rematchUnmatched(card, alias, exclusion, selected)
<1>1. /\ alias \in [AliasIds -> AliasRows \cup {None}] /\ card \in [Cards -> CardRows \cup {None}]
      /\ exclusion \in [ExclusionIds -> ExclusionRows \cup {None}]
      /\ employee \in [Employees -> EmployeeRows]
  BY DEF CardsIInv, CardsTypeOK
<1>2. /\ rows \in [Cards -> CardRows \cup {None}]
      /\ \A c \in Cards : \/ rows[c] = card[c]
                          \/ card[c] # None /\ rows[c] \in CardRows /\ Backed(rows[c], alias)
  BY <1>1, RematchTypes
<1>3. Commit(d, alias, exclusion, rows)
  OBVIOUS
<1> HIDE DEF rows
<1>4. \A c \in Cards : card[c] \in CardRows => rows[c] \in CardRows
  BY <1>2
<1>5. \A c \in Cards : \/ rows[c] = card[c] /\ c \in overwritten
                       \/ rows[c] # None => Backed(rows[c], alias)
  BY <1>2 DEF CardsIInv, AliasMatchesAreBacked
<1>6. \A x \in ExclusionIds : exclusion[x] # None => card[exclusion[x].card] \in CardRows
  BY DEF CardsIInv, RowsRemain
<1>7. PeriodsNeverOverlap
  BY DEF CardsIInv
<1> QED
  BY <1>1, <1>2, <1>3, <1>4, <1>5, <1>6, <1>7, CommitKeeps DEF PeriodsNeverOverlap

\* A row that meets no active row of its subject may take its place among the aliases.
LEMMA PlacedAlias ==
  ASSUME CardsIInv, NEW a \in AliasIds, NEW new \in AliasRows,
         enforcePeriod(new, AliasesOf(new.email), a)
  PROVE  LET aliases == [alias EXCEPT ![a] = new]
         IN  /\ aliases \in [AliasIds -> AliasRows \cup {None}]
             /\ \A b \in AliasIds : alias[b] \in AliasRows => aliases[b] \in AliasRows
             /\ \A b, c \in AliasIds : (b # c /\ aliases[b] # None /\ aliases[c] # None) =>
                   ~(aliases[b].active /\ aliases[c].active /\ aliases[b].email = aliases[c].email
                     /\ Overlap(aliases[b], aliases[c]))
<1> DEFINE aliases == [alias EXCEPT ![a] = new]
<1>1. alias \in [AliasIds -> AliasRows \cup {None}]
  BY DEF CardsIInv, CardsTypeOK
<1>2. /\ aliases \in [AliasIds -> AliasRows \cup {None}]
      /\ aliases[a] = new /\ \A b \in AliasIds \ {a} : aliases[b] = alias[b]
  BY <1>1
<1>3. \A b \in AliasIds \ {a} :
         (alias[b] # None /\ alias[b].active /\ alias[b].email = new.email) =>
             ~Overlap(alias[b], new) /\ ~Overlap(new, alias[b])
  BY DEF enforcePeriod, AliasesOf, Overlap
<1> HIDE DEF aliases
<1>4. \A b, c \in AliasIds : (b # c /\ aliases[b] # None /\ aliases[c] # None) =>
         ~(aliases[b].active /\ aliases[c].active /\ aliases[b].email = aliases[c].email
           /\ Overlap(aliases[b], aliases[c]))
  BY <1>2, <1>3 DEF CardsIInv, PeriodsNeverOverlap
<1>5. \A b \in AliasIds : alias[b] \in AliasRows => aliases[b] \in AliasRows
  BY <1>2
<1> QED
  BY <1>2, <1>4, <1>5 DEF aliases

\* The rematch that follows a change of an address's aliases, given what the cards of
\* the address look like before it: as they are, or without their matches by alias.
LEMMA AliasCommit ==
  ASSUME CardsIInv, NEW d \in Admins, NEW m \in Emails,
         NEW aliases \in [AliasIds -> AliasRows \cup {None}],
         \A b \in AliasIds : alias[b] \in AliasRows => aliases[b] \in AliasRows,
         \A b, c \in AliasIds : (b # c /\ aliases[b] # None /\ aliases[c] # None) =>
             ~(aliases[b].active /\ aliases[c].active /\ aliases[b].email = aliases[c].email
               /\ Overlap(aliases[b], aliases[c])),
         NEW rows \in {card, unmatchAliasCards(m)},
         \A c \in Cards : (rows[c] # None /\ Backed(rows[c], alias)) => Backed(rows[c], aliases),
         Commit(d, aliases, exclusion, rematchUnmatched(rows, aliases, exclusion, WithEmail(m)))
  PROVE  CardsIInv'
<1> DEFINE final == rematchUnmatched(rows, aliases, exclusion, WithEmail(m))
<1>1. /\ card \in [Cards -> CardRows \cup {None}]
      /\ exclusion \in [ExclusionIds -> ExclusionRows \cup {None}]
      /\ employee \in [Employees -> EmployeeRows]
  BY DEF CardsIInv, CardsTypeOK
<1>2. /\ rows \in [Cards -> CardRows \cup {None}]
      /\ \A c \in Cards : rows[c] = card[c] \/ (rows[c] \in CardRows /\ rows[c].status = "unmatched")
  BY <1>1 DEF unmatchAliasCards, Row, CardRows
<1>3. /\ final \in [Cards -> CardRows \cup {None}]
      /\ \A c \in Cards : \/ final[c] = rows[c]
                          \/ rows[c] # None /\ final[c] \in CardRows /\ Backed(final[c], aliases)
  BY <1>1, <1>2, RematchTypes
<1>4. Commit(d, aliases, exclusion, final)
  OBVIOUS
<1> HIDE DEF final
<1>5. \A c \in Cards : card[c] \in CardRows => final[c] \in CardRows
  BY <1>2, <1>3
<1>6. \A c \in Cards : \/ final[c] = card[c] /\ c \in overwritten
                       \/ final[c] # None => Backed(final[c], aliases)
  <2> SUFFICES ASSUME NEW c \in Cards, final[c] # None, ~Backed(final[c], aliases)
               PROVE  final[c] = card[c] /\ c \in overwritten
    OBVIOUS
  <2>1. final[c] = rows[c] /\ ~Backed(rows[c], alias)
    BY <1>3
  <2>2. rows[c] = card[c]
    BY <1>2, <2>1 DEF Backed
  <2> QED
    BY <2>1, <2>2 DEF CardsIInv, AliasMatchesAreBacked
<1>7. \A x \in ExclusionIds : exclusion[x] # None => card[exclusion[x].card] \in CardRows
  BY DEF CardsIInv, RowsRemain
<1>8. PeriodsNeverOverlap
  BY DEF CardsIInv
<1> QED
  BY <1>1, <1>3, <1>4, <1>5, <1>6, <1>7, <1>8, CommitKeeps DEF PeriodsNeverOverlap

LEMMA CreateAliasStep ==
  ASSUME CardsIInv, NEW d \in Admins, createAlias(d)
  PROVE  CardsIInv'
<1> DEFINE r == request[d]
           new == [email |-> r.email, employee |-> r.employee,
                   from |-> IF r.defaulted THEN date ELSE r.period.from,
                   to |-> r.period.to, active |-> TRUE]
<1>1. /\ r \in Requests /\ r.op = "alias"
      /\ \/ Commit(d, alias, exclusion, rematchUnmatched(card, alias, exclusion, WithEmail(r.email)))
         \/ \E a \in AliasIds :
               /\ alias[a] = None
               /\ enforcePeriod(new, AliasesOf(r.email), a)
               /\ Commit(d, [alias EXCEPT ![a] = new], exclusion,
                         rematchUnmatched(card, [alias EXCEPT ![a] = new], exclusion,
                                          WithEmail(r.email)))
  BY DEF createAlias, CardsIInv, WorkTypeOK
<1>2. /\ r.email \in Emails /\ r.employee \in Employees /\ r.period \in Periods
      /\ r.defaulted \in BOOLEAN
  BY <1>1 DEF Requests
<1>3. r.period.from \in Dates /\ r.period.to \in Dates \cup {Forever} /\ date \in Dates
  BY <1>2 DEF Periods, CardsIInv, CardsTypeOK
<1>4. new \in AliasRows /\ new.email = r.email
  BY <1>2, <1>3 DEF AliasRows
<1> HIDE DEF new
<1>5. CASE Commit(d, alias, exclusion, rematchUnmatched(card, alias, exclusion, WithEmail(r.email)))
  BY <1>5, RematchCommit
<1>6. ASSUME NEW a \in AliasIds, alias[a] = None, enforcePeriod(new, AliasesOf(r.email), a),
             Commit(d, [alias EXCEPT ![a] = new], exclusion,
                    rematchUnmatched(card, [alias EXCEPT ![a] = new], exclusion, WithEmail(r.email)))
      PROVE  CardsIInv'
  <2> DEFINE aliases == [alias EXCEPT ![a] = new]
  <2>1. enforcePeriod(new, AliasesOf(new.email), a)
    BY <1>4, <1>6
  <2>2. /\ aliases \in [AliasIds -> AliasRows \cup {None}]
        /\ \A b \in AliasIds : alias[b] \in AliasRows => aliases[b] \in AliasRows
        /\ \A b, c \in AliasIds : (b # c /\ aliases[b] # None /\ aliases[c] # None) =>
              ~(aliases[b].active /\ aliases[c].active /\ aliases[b].email = aliases[c].email
                /\ Overlap(aliases[b], aliases[c]))
    BY <1>4, <2>1, PlacedAlias
  <2>3. \A b \in AliasIds : alias[b] # None => aliases[b] = alias[b]
    BY <1>6 DEF CardsIInv, CardsTypeOK
  <2>4. \A row : Backed(row, alias) => Backed(row, aliases)
    BY <2>3 DEF Backed
  <2>5. Commit(d, aliases, exclusion, rematchUnmatched(card, aliases, exclusion, WithEmail(r.email)))
    BY <1>6
  <2> HIDE DEF aliases
  <2> QED
    BY <1>2, <2>2, <2>4, <2>5, AliasCommit
<1> QED
  BY <1>1, <1>5, <1>6

LEMMA CorrectAliasStep ==
  ASSUME CardsIInv, NEW d \in Admins, correctAlias(d)
  PROVE  CardsIInv'
<1> DEFINE r == request[d]
           m == alias[r.id].email
           new == [email |-> m, employee |-> r.employee, from |-> r.period.from,
                   to |-> r.period.to, active |-> TRUE]
           aliases == [alias EXCEPT ![r.id] = new]
           rows == unmatchAliasCards(m)
<1>1. /\ r \in Requests /\ r.op = "correction" /\ r # None
      /\ enforcePeriod(new, AliasesOf(m), r.id)
      /\ Commit(d, aliases, exclusion, rematchUnmatched(rows, aliases, exclusion, WithEmail(m)))
  BY DEF correctAlias, CardsIInv, WorkTypeOK
<1>2. r.id \in AliasIds /\ r.employee \in Employees /\ r.period \in Periods
  BY <1>1 DEF Requests
<1>3. alias[r.id] \in AliasRows
  BY <1>1 DEF CardsIInv, RowsRemain
<1>4. m \in Emails
  BY <1>3 DEF AliasRows
<1>5. r.period.from \in Dates /\ r.period.to \in Dates \cup {Forever}
  BY <1>2 DEF Periods
<1>6. new \in AliasRows /\ new.email = m
  BY <1>2, <1>4, <1>5 DEF AliasRows
<1>7. alias \in [AliasIds -> AliasRows \cup {None}] /\ card \in [Cards -> CardRows \cup {None}]
  BY DEF CardsIInv, CardsTypeOK
<1>8. aliases[r.id] = new /\ \A b \in AliasIds \ {r.id} : aliases[b] = alias[b]
  BY <1>2, <1>7
<1>9. \A c \in Cards : (rows[c] # None /\ Backed(rows[c], alias)) => Backed(rows[c], aliases)
  <2> SUFFICES ASSUME NEW c \in Cards, rows[c] # None, Backed(rows[c], alias),
                      rows[c].status = "matched", rows[c].source = "alias"
               PROVE  Backed(rows[c], aliases)
    BY DEF Backed
  <2>1. rows[c] = card[c] /\ rows[c].email # m
    BY <1>7 DEF unmatchAliasCards, Row
  <2> QED
    BY <1>8, <2>1 DEF Backed
<1>10. /\ aliases \in [AliasIds -> AliasRows \cup {None}]
       /\ \A b \in AliasIds : alias[b] \in AliasRows => aliases[b] \in AliasRows
       /\ \A b, c \in AliasIds : (b # c /\ aliases[b] # None /\ aliases[c] # None) =>
             ~(aliases[b].active /\ aliases[c].active /\ aliases[b].email = aliases[c].email
               /\ Overlap(aliases[b], aliases[c]))
  <2>1. enforcePeriod(new, AliasesOf(new.email), r.id)
    BY <1>1, <1>6
  <2> HIDE DEF new
  <2> QED
    BY <1>2, <1>6, <2>1, PlacedAlias
<1>11. rows \in {card, unmatchAliasCards(m)}
  OBVIOUS
<1> HIDE DEF aliases, rows, new, m, r
<1> QED
  BY <1>1, <1>4, <1>9, <1>10, <1>11, AliasCommit DEF m, rows

LEMMA DisableAliasStep ==
  ASSUME CardsIInv, NEW d \in Admins, NEW a \in AliasIds, disableAlias(d, a)
  PROVE  CardsIInv'
<1> DEFINE m == alias[a].email
           aliases == [alias EXCEPT ![a].active = FALSE]
           rows == unmatchAliasCards(m)
<1>1. /\ alias[a] # None
      /\ Commit(d, aliases, exclusion, rematchUnmatched(rows, aliases, exclusion, WithEmail(m)))
  BY DEF disableAlias
<1>2. alias \in [AliasIds -> AliasRows \cup {None}] /\ card \in [Cards -> CardRows \cup {None}]
  BY DEF CardsIInv, CardsTypeOK
<1>3. alias[a] \in AliasRows /\ m \in Emails
  BY <1>1, <1>2 DEF AliasRows
<1>4. [alias[a] EXCEPT !.active = FALSE] \in AliasRows /\ ~[alias[a] EXCEPT !.active = FALSE].active
  BY <1>3 DEF AliasRows
<1>5. /\ aliases[a] = [alias[a] EXCEPT !.active = FALSE]
      /\ \A b \in AliasIds \ {a} : aliases[b] = alias[b]
      /\ aliases \in [AliasIds -> AliasRows \cup {None}]
  BY <1>2, <1>4
<1>6. /\ \A b \in AliasIds : alias[b] \in AliasRows => aliases[b] \in AliasRows
      /\ \A b, c \in AliasIds : (b # c /\ aliases[b] # None /\ aliases[c] # None) =>
            ~(aliases[b].active /\ aliases[c].active /\ aliases[b].email = aliases[c].email
              /\ Overlap(aliases[b], aliases[c]))
  BY <1>4, <1>5 DEF CardsIInv, PeriodsNeverOverlap
<1>7. \A c \in Cards : (rows[c] # None /\ Backed(rows[c], alias)) => Backed(rows[c], aliases)
  <2> SUFFICES ASSUME NEW c \in Cards, rows[c] # None, Backed(rows[c], alias),
                      rows[c].status = "matched", rows[c].source = "alias"
               PROVE  Backed(rows[c], aliases)
    BY DEF Backed
  <2>1. rows[c] = card[c] /\ rows[c].email # m
    BY <1>2 DEF unmatchAliasCards, Row
  <2> QED
    BY <1>5, <2>1 DEF Backed
<1>8. rows \in {card, unmatchAliasCards(m)}
  OBVIOUS
<1> HIDE DEF aliases, rows, m
<1> QED
  BY <1>1, <1>3, <1>5, <1>6, <1>7, <1>8, AliasCommit DEF m, rows

\* What a transaction on exclusions must see to: the aliases stay, and a row it changes
\* is not matched through an alias, or is backed by one.
LEMMA ExclusionCommit ==
  ASSUME CardsIInv, NEW d \in Admins,
         NEW exclusions \in [ExclusionIds -> ExclusionRows \cup {None}],
         NEW rows \in [Cards -> CardRows \cup {None}],
         Commit(d, alias, exclusions, rows),
         \A x \in ExclusionIds : exclusions[x] # None => card[exclusions[x].card] \in CardRows,
         \A x, y \in ExclusionIds : (x # y /\ exclusions[x] # None /\ exclusions[y] # None) =>
             ~(exclusions[x].active /\ exclusions[y].active /\ exclusions[x].card = exclusions[y].card
               /\ Overlap(exclusions[x], exclusions[y])),
         \A c \in Cards : \/ rows[c] = card[c]
                          \/ rows[c] \in CardRows /\ Backed(rows[c], alias)
  PROVE  CardsIInv'
<1>1. alias \in [AliasIds -> AliasRows \cup {None}]
  BY DEF CardsIInv, CardsTypeOK
<1>2. \A c \in Cards : card[c] \in CardRows => rows[c] \in CardRows
  OBVIOUS
<1>3. \A c \in Cards : \/ rows[c] = card[c] /\ c \in overwritten
                       \/ rows[c] # None => Backed(rows[c], alias)
  BY DEF CardsIInv, AliasMatchesAreBacked
<1>4. PeriodsNeverOverlap
  BY DEF CardsIInv
<1> QED
  BY <1>1, <1>2, <1>3, <1>4, CommitKeeps DEF PeriodsNeverOverlap

LEMMA CreateExclusionStep ==
  ASSUME CardsIInv, NEW d \in Admins, createExclusion(d)
  PROVE  CardsIInv'
<1> DEFINE r == request[d]
           c == r.card
           new == [card |-> c, from |-> r.period.from, to |-> r.period.to, active |-> TRUE]
           rows == IF Covers(new, date) THEN [card EXCEPT ![c] = Excluded(card[c].email)] ELSE card
<1>1. /\ r \in Requests /\ r.op = "exclusion" /\ r # None
      /\ \/ Commit(d, alias, exclusion, card)
         \/ \E x \in ExclusionIds :
               /\ enforcePeriod(new, ExclusionsOf(c), x)
               /\ Commit(d, alias, [exclusion EXCEPT ![x] = new], rows)
  BY DEF createExclusion, CardsIInv, WorkTypeOK
<1>2. c \in Cards /\ r.period \in Periods
  BY <1>1 DEF Requests
<1>3. r.period.from \in Dates /\ r.period.to \in Dates \cup {Forever}
  BY <1>2 DEF Periods
<1>4. new \in ExclusionRows /\ new.card = c
  BY <1>2, <1>3 DEF ExclusionRows
<1>5. card[c] \in CardRows
  BY <1>1 DEF CardsIInv, RowsRemain
<1>6. /\ card \in [Cards -> CardRows \cup {None}]
      /\ exclusion \in [ExclusionIds -> ExclusionRows \cup {None}]
      /\ \A x \in ExclusionIds : exclusion[x] # None => card[exclusion[x].card] \in CardRows
      /\ PeriodsNeverOverlap
  BY DEF CardsIInv, CardsTypeOK, RowsRemain
<1>7. Excluded(card[c].email) \in CardRows /\ Backed(Excluded(card[c].email), alias)
  BY <1>5 DEF Excluded, Row, CardRows, Backed
<1>8. /\ rows \in [Cards -> CardRows \cup {None}]
      /\ \A e \in Cards : \/ rows[e] = card[e]
                          \/ rows[e] \in CardRows /\ Backed(rows[e], alias)
  BY <1>2, <1>6, <1>7
<1> HIDE DEF new, rows, c, r
<1>9. CASE Commit(d, alias, exclusion, card)
  BY <1>6, <1>9, ExclusionCommit DEF PeriodsNeverOverlap
<1>10. ASSUME NEW x \in ExclusionIds, enforcePeriod(new, ExclusionsOf(c), x),
              Commit(d, alias, [exclusion EXCEPT ![x] = new], rows)
       PROVE  CardsIInv'
  <2> DEFINE exclusions == [exclusion EXCEPT ![x] = new]
  <2>1. /\ exclusions \in [ExclusionIds -> ExclusionRows \cup {None}]
        /\ exclusions[x] = new /\ \A y \in ExclusionIds \ {x} : exclusions[y] = exclusion[y]
    BY <1>4, <1>6
  <2>2. \A y \in ExclusionIds \ {x} :
           (exclusion[y] # None /\ exclusion[y].active /\ exclusion[y].card = c) =>
               ~Overlap(exclusion[y], new) /\ ~Overlap(new, exclusion[y])
    BY <1>10 DEF enforcePeriod, ExclusionsOf, Overlap
  <2>3. Commit(d, alias, exclusions, rows)
    BY <1>10
  <2> HIDE DEF exclusions
  <2>4. \A y, z \in ExclusionIds : (y # z /\ exclusions[y] # None /\ exclusions[z] # None) =>
           ~(exclusions[y].active /\ exclusions[z].active /\ exclusions[y].card = exclusions[z].card
             /\ Overlap(exclusions[y], exclusions[z]))
    BY <1>4, <1>6, <2>1, <2>2 DEF PeriodsNeverOverlap
  <2>5. \A y \in ExclusionIds : exclusions[y] # None => card[exclusions[y].card] \in CardRows
    BY <1>4, <1>5, <1>6, <2>1
  <2> QED
    BY <1>8, <2>1, <2>3, <2>4, <2>5, ExclusionCommit
<1> QED
  BY <1>1, <1>9, <1>10

LEMMA DisableExclusionStep ==
  ASSUME CardsIInv, NEW d \in Admins, NEW x \in ExclusionIds, disableExclusion(d, x)
  PROVE  CardsIInv'
<1> DEFINE c == exclusion[x].card
           exclusions == [exclusion EXCEPT ![x].active = FALSE]
           freed == [card EXCEPT ![c] = Row(card[c].email, "unmatched", None, None)]
           rows == IF card[c].status = "excluded"
                   THEN rematchUnmatched(freed, alias, exclusions, {c}) ELSE card
<1>1. exclusion[x] # None /\ Commit(d, alias, exclusions, rows)
  BY DEF disableExclusion
<1>2. /\ card \in [Cards -> CardRows \cup {None}]
      /\ alias \in [AliasIds -> AliasRows \cup {None}]
      /\ employee \in [Employees -> EmployeeRows]
      /\ exclusion \in [ExclusionIds -> ExclusionRows \cup {None}]
      /\ \A y \in ExclusionIds : exclusion[y] # None => card[exclusion[y].card] \in CardRows
      /\ PeriodsNeverOverlap
  BY DEF CardsIInv, CardsTypeOK, RowsRemain
<1>3. exclusion[x] \in ExclusionRows /\ c \in Cards /\ card[c] \in CardRows
  BY <1>1, <1>2 DEF ExclusionRows
<1> DEFINE off == [exclusion[x] EXCEPT !.active = FALSE]
<1>4. off \in ExclusionRows /\ ~off.active /\ off.card = c
  BY <1>3 DEF ExclusionRows
<1>5. /\ exclusions[x] = off /\ \A y \in ExclusionIds \ {x} : exclusions[y] = exclusion[y]
      /\ exclusions \in [ExclusionIds -> ExclusionRows \cup {None}]
  BY <1>2, <1>4
<1> DEFINE free == Row(card[c].email, "unmatched", None, None)
<1>6. free \in CardRows /\ Backed(free, alias)
  BY <1>3 DEF Row, CardRows, Backed
<1>7. /\ freed \in [Cards -> CardRows \cup {None}]
      /\ \A e \in Cards : freed[e] = card[e] \/ freed[e] = free
  BY <1>2, <1>3, <1>6
<1> HIDE DEF exclusions, freed, free, off, c
<1>8. /\ rows \in [Cards -> CardRows \cup {None}]
      /\ \A e \in Cards : \/ rows[e] = card[e]
                          \/ rows[e] \in CardRows /\ Backed(rows[e], alias)
  <2>1. LET final == rematchUnmatched(freed, alias, exclusions, {c})
        IN  /\ final \in [Cards -> CardRows \cup {None}]
            /\ \A e \in Cards : \/ final[e] = freed[e]
                                \/ final[e] \in CardRows /\ Backed(final[e], alias)
    BY <1>2, <1>7, RematchTypes
  <2> QED
    BY <1>2, <1>6, <1>7, <2>1
<1>9. \A y, z \in ExclusionIds : (y # z /\ exclusions[y] # None /\ exclusions[z] # None) =>
         ~(exclusions[y].active /\ exclusions[z].active /\ exclusions[y].card = exclusions[z].card
           /\ Overlap(exclusions[y], exclusions[z]))
  BY <1>2, <1>4, <1>5 DEF PeriodsNeverOverlap
<1>10. \A y \in ExclusionIds : exclusions[y] # None => card[exclusions[y].card] \in CardRows
  BY <1>2, <1>3, <1>4, <1>5
<1> HIDE DEF rows
<1> QED
  BY <1>1, <1>5, <1>8, <1>9, <1>10, ExclusionCommit

LEMMA GovernanceStep ==
  ASSUME CardsIInv, GovernanceNext
  PROVE  CardsIInv'
<1>1. PICK d \in Admins :
         \/ \E m \in Emails, e \in Employees, p \in Periods, def \in BOOLEAN : previewAlias(d, m, e, p, def)
         \/ \E a \in AliasIds, e \in Employees, p \in Periods : previewAliasCorrection(d, a, e, p)
         \/ \E c \in Cards, p \in Periods, def \in BOOLEAN : previewExclusion(d, c, p, def)
         \/ createAlias(d) \/ correctAlias(d) \/ createExclusion(d)
         \/ executeRematch(d) \/ DropRequest(d)
         \/ \E a \in AliasIds : disableAlias(d, a)
         \/ \E x \in ExclusionIds : disableExclusion(d, x)
  BY DEF GovernanceNext
<1>2. executeRematch(d) => CardsIInv'
  BY RematchCommit DEF executeRematch
<1>3. ASSUME DropRequest(d) PROVE CardsIInv'
  <2>1. /\ request' = [request EXCEPT ![d] = None]
        /\ UNCHANGED <<provider, date, holder, employee, alias, exclusion, card, plan, outdated,
                       overwritten>>
    BY <1>3 DEF DropRequest
  <2>2. CardsTypeOK' /\ WorkTypeOK' /\ RowsRemain'
    BY <2>1 DEF CardsIInv, CardsTypeOK, WorkTypeOK, RowsRemain
  <2>3. PeriodsNeverOverlap' /\ AliasMatchesAreBacked'
    BY <2>1 DEF CardsIInv, PeriodsNeverOverlap, AliasMatchesAreBacked, Backed, Overlap
  <2> QED
    BY <2>1, <2>2, <2>3, PlansStayRight DEF CardsIInv
<1> QED
  BY <1>1, <1>2, <1>3, PreviewsKeep, CreateAliasStep, CorrectAliasStep, DisableAliasStep,
     CreateExclusionStep, DisableExclusionStep

-----------------------------------------------------------------------------
(* The environment and the inventory.                                      *)

LEMMA EnvironmentStep ==
  ASSUME CardsIInv, EnvironmentNext
  PROVE  CardsIInv'
<1>1. /\ date' \in Dates
      /\ employee' \in [Employees -> EmployeeRows]
      /\ holder' \in [Cards -> SUBSET Emails]
      /\ outdated' = Workers
      /\ UNCHANGED <<provider, alias, exclusion, card, request, plan, overwritten>>
  <2>1. CASE Tick
    BY <2>1, CardsAssumption DEF Tick, Outdate, Dates, CardsIInv, CardsTypeOK
  <2>2. CASE \E e \in Employees, row \in EmployeeRows : EditEmployee(e, row)
    BY <2>2 DEF EditEmployee, Outdate, CardsIInv, CardsTypeOK
  <2>3. CASE \E c \in Cards, emails \in SUBSET Emails : ChangeHolder(c, emails)
    BY <2>3 DEF ChangeHolder, Outdate, CardsIInv, CardsTypeOK
  <2> QED
    BY <2>1, <2>2, <2>3 DEF EnvironmentNext
<1>2. CardsTypeOK' /\ WorkTypeOK' /\ RowsRemain'
  BY <1>1 DEF CardsIInv, CardsTypeOK, WorkTypeOK, RowsRemain
<1>3. PeriodsNeverOverlap' /\ AliasMatchesAreBacked'
  BY <1>1 DEF CardsIInv, PeriodsNeverOverlap, AliasMatchesAreBacked, Backed, Overlap
<1>4. PlansAreRight'
  BY <1>1 DEF PlansAreRight
<1> QED
  BY <1>2, <1>3, <1>4 DEF CardsIInv

\* A finite set has at most one member exactly when any two of its members are the same.
LEMMA AtMostOne ==
  ASSUME NEW S, IsFiniteSet(S)
  PROVE  /\ Cardinality(S) \in Nat
         /\ Cardinality(S) > 1 <=> \E x, y \in S : x # y
         /\ Cardinality(S) = 1 <=> \E x : S = {x}
<1>1. Cardinality(S) \in Nat /\ (Cardinality(S) = 1 <=> \E x : S = {x})
  BY FS_CardinalityType, FS_Singleton
<1>2. Cardinality(S) = 0 <=> S = {}
  BY FS_EmptySet
<1> QED
  BY <1>1, <1>2

\* Aliases in effect of one address are one alias, for their periods do not overlap, so
\* a card is matched exactly when its address names one employee who may own it.
LEMMA MatchIsRight ==
  ASSUME CardsIInv, NEW m \in Emails, m # None
  PROVE  LET row == matchProviderCard(m, alias)
             owned == Cardinality(Claimants(m)) = 1 /\ \A e \in Claimants(m) : MayOwn(e)
         IN  /\ row.email = m
             /\ (row.status = "matched") <=> owned
             /\ owned => Claimants(m) = {row.employee}
<1> DEFINE primary == Primaries(m)
           named == {a \in AliasIds : /\ provider = "photonpay"
                                      /\ alias[a] # None
                                      /\ alias[a].active /\ alias[a].email = m
                                      /\ Covers(alias[a], date)}
           owners == {alias[a].employee : a \in named}
           both == primary \cup owners
           row == matchProviderCard(m, alias)
           First(S) == CHOOSE e \in S : TRUE
<1>1. alias \in [AliasIds -> AliasRows \cup {None}] /\ date \in Nat
  BY CardsAssumption DEF CardsIInv, CardsTypeOK, Dates
<1>2. IsFiniteSet(named) /\ IsFiniteSet(primary) /\ IsFiniteSet(both)
  <2>1. owners \subseteq Employees
    BY <1>1 DEF AliasRows
  <2> QED
    BY <2>1, CardsAssumption, FS_Subset DEF Primaries
<1>3. \A a, b \in named : a = b
  <2> SUFFICES ASSUME NEW a \in named, NEW b \in named, a # b PROVE FALSE
    OBVIOUS
  <2>1. alias[a] \in AliasRows /\ alias[b] \in AliasRows
    BY <1>1
  <2>2. alias[a].from \in Int /\ alias[a].to \in Int /\ alias[b].from \in Int /\ alias[b].to \in Int
    BY <2>1, CardsAssumption DEF AliasRows, Dates, Forever
  <2>3. Overlap(alias[a], alias[b])
    BY <1>1, <2>2 DEF Overlap, Covers
  <2> QED
    BY <2>3 DEF CardsIInv, PeriodsNeverOverlap
<1>4. /\ ~(Cardinality(named) > 1)
      /\ Cardinality(primary) > 1 <=> \E x, y \in primary : x # y
      /\ Cardinality(both) > 1 <=> \E x, y \in both : x # y
      /\ Cardinality(both) = 1 <=> \E x : both = {x}
  <2>1. ~(Cardinality(named) > 1)
    BY <1>2, <1>3, AtMostOne
  <2>2. Cardinality(primary) > 1 <=> \E x, y \in primary : x # y
    BY <1>2, AtMostOne
  <2>3. /\ Cardinality(both) > 1 <=> \E x, y \in both : x # y
        /\ Cardinality(both) = 1 <=> \E x : both = {x}
    BY <1>2, AtMostOne
  <2> QED
    BY <2>1, <2>2, <2>3
<1>5. row = IF \E x, y \in both : x # y THEN Row(m, "conflict", None, None)
            ELSE IF primary # {} THEN validateEmployeeMatch(m, "primary", First(primary))
            ELSE IF owners # {} THEN validateEmployeeMatch(m, "alias", First(owners))
            ELSE Row(m, "unmatched", None, None)
  <2>1. row = IF \/ Cardinality(primary) > 1 \/ Cardinality(named) > 1
                 \/ Cardinality(primary \cup owners) > 1
              THEN Row(m, "conflict", None, None)
              ELSE IF primary # {} THEN validateEmployeeMatch(m, "primary", First(primary))
              ELSE IF owners # {} THEN validateEmployeeMatch(m, "alias", First(owners))
              ELSE Row(m, "unmatched", None, None)
    BY DEF matchProviderCard
  <2>2. (\E x, y \in primary : x # y) => (\E x, y \in both : x # y)
    OBVIOUS
  <2> QED
    BY <1>4, <2>1, <2>2
<1>6. Claimants(m) = both
  BY DEF Claimants, ActiveAliases
<1>7. \A e : \A source :
         validateEmployeeMatch(m, source, e) = IF MayOwn(e) THEN Row(m, "matched", source, e)
                                               ELSE Row(m, "unmatched", None, None)
  BY DEF validateEmployeeMatch, MayOwn
<1>8. \A S : S # {} => First(S) \in S
  OBVIOUS
<1> HIDE DEF primary, owners, row, First
<1>9. CASE \E x, y \in both : x # y
  <2>1. row = Row(m, "conflict", None, None) /\ ~ \E x : both = {x}
    BY <1>5, <1>9
  <2>2. row.email = m /\ row.status # "matched"
    BY <2>1 DEF Row
  <2>3. Cardinality(Claimants(m)) # 1
    BY <1>4, <1>6, <2>1
  <2> QED
    BY <2>2, <2>3 DEF row
<1>10. CASE both = {}
  <2>1. row = Row(m, "unmatched", None, None) /\ ~ \E x : both = {x}
    BY <1>5, <1>10
  <2>2. row.email = m /\ row.status # "matched"
    BY <2>1 DEF Row
  <2>3. Cardinality(Claimants(m)) # 1
    BY <1>4, <1>6, <2>1
  <2> QED
    BY <2>2, <2>3 DEF row
<1>11. CASE both # {} /\ ~ \E x, y \in both : x # y
  <2>1. PICK e : both = {e}
    BY <1>11
  <2>2. primary # {} \/ owners # {}
    BY <1>11
  <2>3. primary # {} => First(primary) = e
    BY <1>8, <2>1
  <2>4. owners # {} => First(owners) = e
    BY <1>8, <2>1
  <2>5. \E source \in {"primary", "alias"} : row = validateEmployeeMatch(m, source, e)
    BY <1>5, <1>11, <2>2, <2>3, <2>4
  <2>6. \/ MayOwn(e) /\ \E source : row = Row(m, "matched", source, e)
        \/ ~MayOwn(e) /\ row = Row(m, "unmatched", None, None)
    BY <1>7, <2>5
  <2>7. Cardinality(Claimants(m)) = 1 /\ Claimants(m) = {e}
    BY <1>4, <1>6, <2>1
  <2> HIDE DEF both
  <2> QED
    BY <2>6, <2>7 DEF Row, row
<1> QED
  BY <1>9, <1>10, <1>11

\* What an inventory plans for a card is right by what it reads.
LEMMA PlannedIsRight ==
  ASSUME CardsIInv, NEW c \in Cards, NEW lost \in SUBSET Cards
  PROVE  /\ PlannedRow(c, lost) \in CardRows /\ Backed(PlannedRow(c, lost), alias)
         /\ RowIsJustified(c, PlannedRow(c, lost))
<1> DEFINE m == StoredEmail(c, lost)
           row == PlannedRow(c, lost)
<1>1. /\ card \in [Cards -> CardRows \cup {None}] /\ holder \in [Cards -> SUBSET Emails]
      /\ alias \in [AliasIds -> AliasRows \cup {None}]
      /\ employee \in [Employees -> EmployeeRows] /\ provider \in {"airwallex", "photonpay"}
  BY DEF CardsIInv, CardsTypeOK
<1>2. (card[c] # None /\ card[c].email # None) => card[c].email \in Emails \cup {None}
  BY <1>1 DEF CardRows
<1>3. holder[c] # {} => (CHOOSE e \in holder[c] : TRUE) \in Emails
  BY <1>1
<1>4. m \in Emails \cup {None} /\ ((provider = "airwallex" /\ m # None) => holder[c] # {})
  BY <1>2, <1>3 DEF StoredEmail
<1>5. (provider = "airwallex" /\ m # None) =>
         (Cardinality(holder[c]) = 1 <=> ~(Cardinality(holder[c]) > 1))
  <2>1. IsFiniteSet(holder[c])
    BY <1>1, CardsAssumption, FS_Subset
  <2>2. holder[c] # {} => Cardinality(holder[c]) # 0
    BY <2>1, FS_EmptySet
  <2>3. Cardinality(holder[c]) \in Nat
    BY <2>1, FS_CardinalityType
  <2> QED
    BY <1>4, <2>2, <2>3
<1>6. row = IF IsExcluded(c, exclusion, date) THEN Excluded(m)
            ELSE IF provider = "airwallex" /\ Cardinality(holder[c]) > 1
                 THEN Row(m, "conflict", None, None)
            ELSE IF m = None THEN Row(m, "unmatched", None, None)
            ELSE matchProviderCard(m, alias)
  BY DEF PlannedRow
<1> HIDE DEF row, m
<1> DEFINE kept == ~IsExcluded(c, exclusion, date)
                   /\ ~(provider = "airwallex" /\ Cardinality(holder[c]) > 1) /\ m # None
<1>7. CASE ~kept
  <2>1. row \in {Excluded(m), Row(m, "conflict", None, None), Row(m, "unmatched", None, None)}
    BY <1>6, <1>7
  <2>2. row.email = m /\ row.status # "matched" /\ row \in CardRows
    BY <1>4, <2>1 DEF Row, Excluded, CardRows
  <2>3. Backed(row, alias)
    BY <2>2 DEF Backed
  <2>4. IsExcluded(c, exclusion, date) \/ m = None
           \/ ~(provider = "airwallex" => Cardinality(holder[c]) = 1)
    BY <1>5, <1>7
  <2>5. RowIsJustified(c, row)
    BY <2>2, <2>4 DEF RowIsJustified
  <2> QED
    BY <2>2, <2>3, <2>5 DEF row
<1>8. CASE kept
  <2>1. row = matchProviderCard(m, alias) /\ m \in Emails /\ m # None
    BY <1>4, <1>6, <1>8
  <2>2. row \in CardRows /\ Backed(row, alias)
    BY <1>1, <2>1, MatchTypes
  <2>3. /\ row.email = m
        /\ (row.status = "matched") <=>
              (Cardinality(Claimants(m)) = 1 /\ \A e \in Claimants(m) : MayOwn(e))
        /\ (Cardinality(Claimants(m)) = 1 /\ \A e \in Claimants(m) : MayOwn(e)) =>
              Claimants(m) = {row.employee}
    BY <2>1, MatchIsRight
  <2>4. ~IsExcluded(c, exclusion, date) /\ (provider = "airwallex" => Cardinality(holder[c]) = 1)
    BY <1>5, <1>8
  <2>5. RowIsJustified(c, row)
    BY <2>1, <2>3, <2>4 DEF RowIsJustified
  <2> QED
    BY <2>2, <2>5 DEF row
<1> QED
  BY <1>7, <1>8

LEMMA PlanInventoryStep ==
  ASSUME CardsIInv, NEW w \in Workers, NEW lost \in SUBSET Cards, PlanInventory(w, lost)
  PROVE  CardsIInv'
<1> DEFINE rows == [c \in Cards |-> PlannedRow(c, lost)]
<1>1. /\ plan' = [plan EXCEPT ![w] = rows]
      /\ outdated' = outdated \ {w}
      /\ UNCHANGED <<provider, date, holder, employee, alias, exclusion, card, request, overwritten>>
  BY DEF PlanInventory
<1>2. /\ rows \in [Cards -> CardRows \cup {None}]
      /\ \A c \in Cards : rows[c] \in CardRows /\ Backed(rows[c], alias) /\ RowIsJustified(c, rows[c])
  BY PlannedIsRight
<1> HIDE DEF rows
<1>3. CardsTypeOK' /\ RowsRemain'
  BY <1>1 DEF CardsIInv, CardsTypeOK, RowsRemain
<1>4. /\ plan' \in [Workers -> [Cards -> CardRows \cup {None}]]
      /\ plan'[w] = rows /\ \A v \in Workers \ {w} : plan'[v] = plan[v]
  BY <1>1, <1>2 DEF CardsIInv, WorkTypeOK
<1>5. WorkTypeOK'
  BY <1>1, <1>4 DEF CardsIInv, WorkTypeOK
<1>6. PeriodsNeverOverlap' /\ AliasMatchesAreBacked'
  BY <1>1 DEF CardsIInv, PeriodsNeverOverlap, AliasMatchesAreBacked, Backed, Overlap
<1>7. PlansAreRight'
  <2> SUFFICES ASSUME NEW v \in Workers \ outdated', NEW c \in Cards
               PROVE  /\ (plan[v][c] # None =>
                            RowIsJustified(c, plan[v][c]) /\ Backed(plan[v][c], alias))'
                      /\ ((plan[v] # NoPlan /\ plan[v][c] = None) => Justified(c))'
    BY DEF PlansAreRight
  <2>1. CASE v = w
    <3>1. plan'[v][c] \in CardRows /\ plan'[v][c] = rows[c]
      BY <1>2, <1>4, <2>1
    <3>2. RowIsJustified(c, plan[v][c])'
      BY <1>1, <1>2, <3>1, SameJudgement
    <3>3. Backed(plan[v][c], alias)'
      BY <1>1, <1>2, <3>1 DEF Backed
    <3> QED
      BY <3>1, <3>2, <3>3, NoneIsNoCard
  <2>2. CASE v # w
    <3>1. v \notin outdated /\ plan'[v] = plan[v]
      BY <1>1, <1>4, <2>2
    <3>2. /\ plan[v][c] # None => RowIsJustified(c, plan[v][c]) /\ Backed(plan[v][c], alias)
          /\ (plan[v] # NoPlan /\ plan[v][c] = None) => Justified(c)
      BY <3>1 DEF CardsIInv, PlansAreRight
    <3>3. (plan[v][c] # None => Backed(plan[v][c], alias))'
      BY <1>1, <3>1, <3>2 DEF Backed
    <3>4. plan[v][c] # None => plan[v][c] \in CardRows
      BY DEF CardsIInv, WorkTypeOK
    <3>5. (plan[v][c] # None => RowIsJustified(c, plan[v][c]))'
      BY <1>1, <3>1, <3>2, <3>4, SameJudgement
    <3>6. ((plan[v] # NoPlan /\ plan[v][c] = None) => Justified(c))'
      BY <1>1, <3>1, <3>2 DEF NoPlan, Justified, RowIsJustified, Claimants, Primaries,
                              ActiveAliases, IsExcluded, MayOwn, Covers
    <3> QED
      BY <3>3, <3>5, <3>6
  <2> QED
    BY <2>1, <2>2
<1> QED
  BY <1>3, <1>5, <1>6, <1>7 DEF CardsIInv

LEMMA WriteCardStep ==
  ASSUME CardsIInv, NEW w \in Workers, NEW c \in Cards, WriteCard(w, c)
  PROVE  CardsIInv'
<1>1. /\ plan[w][c] # None
      /\ card' = [card EXCEPT ![c] = plan[w][c]]
      /\ plan' = [plan EXCEPT ![w][c] = None]
      /\ overwritten' = IF w \in outdated THEN overwritten \cup {c} ELSE overwritten \ {c}
      /\ outdated' = IF card'[c] = card[c] THEN outdated ELSE outdated \cup (Workers \ {w})
      /\ UNCHANGED <<provider, date, holder, employee, alias, exclusion, request>>
  BY DEF WriteCard
<1>2. /\ card \in [Cards -> CardRows \cup {None}]
      /\ plan \in [Workers -> [Cards -> CardRows \cup {None}]]
  BY DEF CardsIInv, CardsTypeOK, WorkTypeOK
<1>3. plan[w][c] \in CardRows
  BY <1>1, <1>2
<1>4. /\ card' \in [Cards -> CardRows \cup {None}]
      /\ card'[c] = plan[w][c] /\ \A e \in Cards \ {c} : card'[e] = card[e]
  BY <1>1, <1>2
<1>5. plan' \in [Workers -> [Cards -> CardRows \cup {None}]]
  <2>1. [plan[w] EXCEPT ![c] = None] \in [Cards -> CardRows \cup {None}]
    BY <1>2
  <2> QED
    BY <1>1, <1>2, <2>1
<1>6. /\ plan'[w][c] = None /\ \A e \in Cards \ {c} : plan'[w][e] = plan[w][e]
      /\ \A v \in Workers \ {w} : plan'[v] = plan[v]
  BY <1>1, <1>2
<1>7. CardsTypeOK' /\ WorkTypeOK'
  <2>1. outdated' \subseteq Workers /\ overwritten' \subseteq Cards
    BY <1>1 DEF CardsIInv, CardsTypeOK
  <2> QED
    BY <1>1, <1>4, <1>5, <2>1 DEF CardsIInv, CardsTypeOK, WorkTypeOK
<1>8. RowsRemain'
  <2>1. \A e : card[e] \in CardRows /\ e \in Cards => card'[e] \in CardRows
    BY <1>3, <1>4
  <2>2. ASSUME NEW d \in Admins, request[d] # None
        PROVE  /\ request[d].op = "correction" => alias[request[d].id] \in AliasRows
               /\ request[d].op = "exclusion" => card'[request[d].card] \in CardRows
    <3>1. request[d] \in Requests
      BY <2>2 DEF CardsIInv, WorkTypeOK
    <3>2. request[d].op = "exclusion" => request[d].card \in Cards
      BY <3>1 DEF Requests
    <3> QED
      BY <2>1, <2>2, <3>2 DEF CardsIInv, RowsRemain
  <2>3. ASSUME NEW x \in ExclusionIds, exclusion[x] # None
        PROVE  card'[exclusion[x].card] \in CardRows
    <3>1. exclusion[x].card \in Cards
      BY <2>3 DEF CardsIInv, CardsTypeOK, ExclusionRows
    <3> QED
      BY <2>1, <2>3, <3>1 DEF CardsIInv, RowsRemain
  <2> QED
    BY <1>1, <2>2, <2>3 DEF RowsRemain
<1>9. PeriodsNeverOverlap'
  BY <1>1 DEF CardsIInv, PeriodsNeverOverlap, Overlap
<1>10. w \notin outdated => RowIsJustified(c, plan[w][c]) /\ Backed(plan[w][c], alias)
  BY <1>1 DEF CardsIInv, PlansAreRight
<1>11. AliasMatchesAreBacked'
  <2> SUFFICES ASSUME NEW e \in Cards, e \notin overwritten', card'[e] # None
               PROVE  Backed(card[e], alias)'
    BY DEF AliasMatchesAreBacked
  <2>1. CASE e = c
    BY <1>1, <1>4, <1>10, <2>1 DEF Backed
  <2>2. CASE e # c
    BY <1>1, <1>4, <2>2 DEF CardsIInv, AliasMatchesAreBacked, Backed
  <2> QED
    BY <2>1, <2>2
<1>12. PlansAreRight'
  <2> SUFFICES ASSUME NEW v \in Workers \ outdated', NEW e \in Cards
               PROVE  /\ (plan[v][e] # None =>
                            RowIsJustified(e, plan[v][e]) /\ Backed(plan[v][e], alias))'
                      /\ ((plan[v] # NoPlan /\ plan[v][e] = None) => Justified(e))'
    BY DEF PlansAreRight
  <2>1. v \notin outdated
    BY <1>1
  <2>2. /\ plan[v][e] # None => RowIsJustified(e, plan[v][e]) /\ Backed(plan[v][e], alias)
        /\ (plan[v] # NoPlan /\ plan[v][e] = None) => Justified(e)
    BY <2>1 DEF CardsIInv, PlansAreRight
  <2>3. plan'[v][e] # None => plan'[v][e] = plan[v][e] /\ plan[v][e] \in CardRows
    BY <1>2, <1>6
  <2>4. (plan[v][e] # None => Backed(plan[v][e], alias))'
    BY <1>1, <2>2, <2>3 DEF Backed
  <2>5. (plan[v][e] # None => RowIsJustified(e, plan[v][e]))'
    BY <1>1, <2>2, <2>3, SameJudgement
  <2>6. CASE v = w /\ e = c
    <3>1. RowIsJustified(c, plan[w][c])
      BY <1>10, <2>1, <2>6
    <3>2. RowIsJustified(c, card[c])'
      BY <1>1, <1>3, <1>4, <3>1, SameJudgement
    <3> QED
      BY <2>4, <2>5, <2>6, <3>2 DEF Justified
  <2>7. CASE ~(v = w /\ e = c)
    <3>1. card'[e] = card[e]
      BY <1>1, <1>4, <2>7
    <3>2. (plan'[v] # NoPlan /\ plan'[v][e] = None) => Justified(e)
      <4>1. CASE v = w
        <5>1. plan[w] # NoPlan /\ plan'[w][e] = plan[w][e]
          BY <1>1, <1>6, <2>7, <4>1 DEF NoPlan
        <5> QED
          BY <2>2, <4>1, <5>1
      <4>2. CASE v # w
        BY <1>6, <2>2, <4>2
      <4> QED
        BY <4>1, <4>2
    <3>3. Justified(e) => Justified(e)'
      BY <1>1, <3>1, JustifiedStays
    <3>4. NoPlan' = NoPlan
      BY DEF NoPlan
    <3>5. ((plan[v] # NoPlan /\ plan[v][e] = None) => Justified(e))'
      BY <3>2, <3>3, <3>4
    <3> QED
      BY <2>4, <2>5, <3>5
  <2> QED
    BY <2>6, <2>7
<1> QED
  BY <1>7, <1>8, <1>9, <1>11, <1>12 DEF CardsIInv

\* What touches no card, alias, exclusion or plan.
LEMMA CardsKept ==
  ASSUME CardsIInv, UNCHANGED <<provider, date, holder, employee, alias, exclusion, card, request,
                                plan, outdated, overwritten>>
  PROVE  CardsIInv'
<1>1. CardsTypeOK' /\ WorkTypeOK' /\ RowsRemain'
  BY DEF CardsIInv, CardsTypeOK, WorkTypeOK, RowsRemain
<1>2. PeriodsNeverOverlap' /\ AliasMatchesAreBacked'
  BY DEF CardsIInv, PeriodsNeverOverlap, AliasMatchesAreBacked, Backed, Overlap
<1> QED
  BY <1>1, <1>2, PlansStayRight DEF CardsIInv

\* An inventory that stops leaves the rest of its plan unwritten.
LEMMA FailKeepsCards ==
  ASSUME CardsIInv, NEW w \in Workers, Fail(w)
  PROVE  CardsIInv'
<1>1. /\ plan' = [plan EXCEPT ![w] = NoPlan]
      /\ UNCHANGED <<provider, date, holder, employee, alias, exclusion, card, request, outdated,
                     overwritten>>
  BY DEF Fail, TouchCards
<1>2. NoPlan \in [Cards -> CardRows \cup {None}] /\ \A c \in Cards : NoPlan[c] = None
  BY DEF NoPlan
<1>3. /\ plan' \in [Workers -> [Cards -> CardRows \cup {None}]]
      /\ plan'[w] = NoPlan /\ \A v \in Workers \ {w} : plan'[v] = plan[v]
  BY <1>1, <1>2 DEF CardsIInv, WorkTypeOK
<1>4. CardsTypeOK' /\ WorkTypeOK' /\ RowsRemain'
  BY <1>1, <1>3 DEF CardsIInv, CardsTypeOK, WorkTypeOK, RowsRemain
<1>5. PeriodsNeverOverlap' /\ AliasMatchesAreBacked'
  BY <1>1 DEF CardsIInv, PeriodsNeverOverlap, AliasMatchesAreBacked, Backed, Overlap
<1>6. PlansAreRight'
  <2> SUFFICES ASSUME NEW v \in Workers \ outdated', NEW c \in Cards, v # w
               PROVE  /\ (plan[v][c] # None =>
                            RowIsJustified(c, plan[v][c]) /\ Backed(plan[v][c], alias))'
                      /\ ((plan[v] # NoPlan /\ plan[v][c] = None) => Justified(c))'
    BY <1>2, <1>3 DEF PlansAreRight, NoPlan
  <2>1. v \notin outdated /\ plan'[v] = plan[v]
    BY <1>1, <1>3
  <2>2. /\ plan[v][c] # None => RowIsJustified(c, plan[v][c]) /\ Backed(plan[v][c], alias)
        /\ (plan[v] # NoPlan /\ plan[v][c] = None) => Justified(c)
    BY <2>1 DEF CardsIInv, PlansAreRight
  <2>3. (plan[v][c] # None => Backed(plan[v][c], alias))'
    BY <1>1, <2>1, <2>2 DEF Backed
  <2>4. plan[v][c] # None => plan[v][c] \in CardRows
    BY DEF CardsIInv, WorkTypeOK
  <2>5. (plan[v][c] # None => RowIsJustified(c, plan[v][c]))'
    BY <1>1, <2>1, <2>2, <2>4, SameJudgement
  <2>6. ((plan[v] # NoPlan /\ plan[v][c] = None) => Justified(c))'
    BY <1>1, <2>1, <2>2 DEF NoPlan, Justified, RowIsJustified, Claimants, Primaries,
                            ActiveAliases, IsExcluded, MayOwn, Covers
  <2> QED
    BY <2>3, <2>5, <2>6
<1> QED
  BY <1>4, <1>5, <1>6 DEF CardsIInv

-----------------------------------------------------------------------------
(* Imports.                                                                *)

\* Spend and events only grow, and PhotonPay's amounts stay.
Grows ==
    \A t \in Transactions :
        /\ spend[t] # None =>
              spend'[t] # None /\ (provider = "photonpay" => spend'[t].amount = spend[t].amount)
        /\ event[t] # "none" => event'[t] # "none"

\* What a job has explained stays explained.
LEMMA JobKept ==
  ASSUME provider' = provider, Grows
  PROVE  \A j \in Jobs : JobInStep(j) /\ JobExplains(j) => JobInStep(j)' /\ JobExplains(j)'
<1> SUFFICES ASSUME NEW j \in Jobs, JobInStep(j), JobExplains(j)
             PROVE  JobInStep(j)' /\ JobExplains(j)'
  OBVIOUS
<1>1. JobInStep(j)'
  BY DEF JobInStep, Grows
<1>2. \A t \in Transactions : /\ Explained(t) => Explained(t)'
                              /\ \A entry : Booked(t, entry) => Booked(t, entry)'
  BY DEF Grows, Explained, Booked
<1>3. Done(j)' = Done(j) /\ Done(j) \subseteq Transactions
  BY DEF Done
<1>4. j.step = "settle" => j.at \in Transactions
  BY DEF JobInStep
<1>5. JobExplains(j)'
  BY <1>2, <1>3, <1>4 DEF JobExplains
<1> QED
  BY <1>1, <1>5

LEMMA EndedKept ==
  ASSUME ImportIInv, provider' = provider, Grows, ended' \in {ended, None}
  PROVE  ImportedOrExplained'
BY DEF ImportIInv, ImportedOrExplained, Grows

\* A step of one import, or of none.
LEMMA JobStep ==
  ASSUME ImportIInv, CardsTypeOK', NEW w \in Workers, provider' = provider, Grows,
         spend' \in [Transactions -> SpendRows \cup {None}],
         event' \in [Transactions -> {"none", "open", "ignored", "resolved", "imported"}],
         job' \in [Workers -> Jobs \cup {None}],
         \A v \in Workers \ {w} : job'[v] = job[v],
         (job[w] # None => JobInStep(job[w]) /\ JobExplains(job[w]))',
         ImportedOrExplained',
         \A t \in Transactions : event'[t] = "imported" => event[t] = "imported" \/ spend[t] # None
  PROVE  ImportIInv'
<1>1. ASSUME NEW v \in Workers \ {w}
      PROVE  (job[v] # None => JobInStep(job[v]) /\ JobExplains(job[v]))'
  <2>1. job[v] # None => job[v] \in Jobs /\ JobInStep(job[v]) /\ JobExplains(job[v])
    BY DEF ImportIInv, JobsInStep, JobsExplain
  <2>2. job[v] # None => \A j \in {job[v]} : JobInStep(j)' /\ JobExplains(j)'
    BY <2>1, JobKept
  <2> QED
    BY <2>2
<1>2. JobsInStep' /\ JobsExplain'
  BY <1>1 DEF JobsInStep, JobsExplain
<1>3. SettledEventsAreSpend'
  BY DEF ImportIInv, SettledEventsAreSpend, Grows
<1> QED
  BY <1>2, <1>3 DEF ImportIInv, TypeOK

LEMMA OwnerTypes ==
  ASSUME CardsTypeOK, NEW t \in Transactions
  PROVE  resolveSpendOwner(t) \in Employees \cup {"excluded", None}
<1>1. t.card \in Cards
  BY ImportAssumption
<1>2. card[t.card] # None => card[t.card].employee \in Employees \cup {None}
  BY <1>1 DEF CardsTypeOK, CardRows
<1> QED
  BY <1>2 DEF resolveSpendOwner

\* Steps that write neither spend nor an event, up to the transaction at hand.
LEMMA StartStep ==
  ASSUME ImportIInv, CardsTypeOK', NEW w \in Workers,
         \/ \E mode \in Modes : StartImport(w, mode)
         \/ \E lost \in SUBSET Cards : ImportInventory(w, lost)
         \/ \E report \in [Transactions -> Entries] : Fetch(w, report)
         \/ \E t \in Transactions : Take(w, t)
         \/ WriteSpendNothing(w)
  PROVE  ImportIInv'
<1>1. /\ job \in [Workers -> Jobs \cup {None}]
      /\ spend \in [Transactions -> SpendRows \cup {None}]
      /\ event \in [Transactions -> {"none", "open", "ignored", "resolved", "imported"}]
      /\ job[w] # None => job[w] \in Jobs /\ JobInStep(job[w]) /\ JobExplains(job[w])
  BY DEF ImportIInv, TypeOK, JobsInStep, JobsExplain
<1>2. UNCHANGED <<provider, spend, event>> /\ ended' \in {ended, None}
  BY DEF StartImport, ImportInventory, PlanInventory, Fetch, Take, WriteSpendNothing, TouchCards,
         KeepCards
<1>3. Grows
  BY <1>2 DEF Grows
<1>4. SUFFICES \E new \in Jobs : /\ job' = [job EXCEPT ![w] = new]
                                 /\ JobInStep(new) /\ JobExplains(new)
  <2>1. PICK new \in Jobs : /\ job' = [job EXCEPT ![w] = new]
                            /\ JobInStep(new) /\ JobExplains(new)
    BY <1>4
  <2>2. /\ job' \in [Workers -> Jobs \cup {None}] /\ job'[w] = new
        /\ \A v \in Workers \ {w} : job'[v] = job[v]
    BY <1>1, <2>1
  <2>3. JobInStep(new)' /\ JobExplains(new)'
    BY <1>2, <1>3, <2>1, JobKept
  <2>4. (job[w] # None => JobInStep(job[w]) /\ JobExplains(job[w]))'
    BY <2>2, <2>3
  <2>5. ImportedOrExplained'
    BY <1>2, <1>3, EndedKept
  <2> QED
    BY <1>1, <1>2, <1>3, <2>2, <2>4, <2>5, JobStep
<1>5. ASSUME NEW mode \in Modes, StartImport(w, mode)
      PROVE  \E new \in Jobs : job' = [job EXCEPT ![w] = new] /\ JobInStep(new) /\ JobExplains(new)
  <2> DEFINE new == [mode |-> mode, step |-> IF mode = "preview" THEN "fetch" ELSE "inventory",
                     report |-> None, todo |-> {}, targets |-> Cards, at |-> None, owner |-> None,
                     left |-> {}, failed |-> FALSE]
  <2>1. job' = [job EXCEPT ![w] = new]
    BY <1>5 DEF StartImport
  <2>2. new \in Jobs /\ new.step \in {"inventory", "fetch"}
    BY DEF Jobs
  <2> HIDE DEF new
  <2> QED
    BY <2>1, <2>2 DEF JobInStep, JobExplains
<1>6. ASSUME NEW lost \in SUBSET Cards, ImportInventory(w, lost)
      PROVE  \E new \in Jobs : job' = [job EXCEPT ![w] = new] /\ JobInStep(new) /\ JobExplains(new)
  <2> DEFINE new == [job[w] EXCEPT !.step = "fetch"]
  <2>1. job' = [job EXCEPT ![w] = new] /\ job[w] \in Jobs
    BY <1>1, <1>6 DEF ImportInventory, Working
  <2>2. new \in Jobs /\ new.step = "fetch"
    BY <2>1 DEF Jobs
  <2> HIDE DEF new
  <2> QED
    BY <2>1, <2>2 DEF JobInStep, JobExplains
<1>7. ASSUME NEW report \in [Transactions -> Entries], Fetch(w, report)
      PROVE  \E new \in Jobs : job' = [job EXCEPT ![w] = new] /\ JobInStep(new) /\ JobExplains(new)
  <2> DEFINE targets == IF job[w].mode # "standard" THEN loadHistoricalBackfillCardSets ELSE Cards
             todo == {t \in Transactions : report[t] # "none"}
             new == [job[w] EXCEPT !.step = "next", !.report = report, !.todo = todo,
                                   !.targets = targets]
  <2>1. job' = [job EXCEPT ![w] = new] /\ job[w] \in Jobs
    BY <1>1, <1>7 DEF Fetch, Working
  <2>2. targets \in SUBSET Cards /\ todo \in SUBSET Transactions
    BY DEF loadHistoricalBackfillCardSets
  <2>3. new \in Jobs /\ new.step = "next" /\ new.report = report /\ new.todo = todo
    BY <2>1, <2>2 DEF Jobs
  <2> HIDE DEF new
  <2> QED
    BY <2>1, <2>3 DEF JobInStep, JobExplains, Done
<1>8. ASSUME NEW t \in Transactions, Take(w, t), Handled(w, t)
      PROVE  \E new \in Jobs : job' = [job EXCEPT ![w] = new] /\ JobInStep(new) /\ JobExplains(new)
  <2> DEFINE todo == job[w].todo \ {t}
             owner == resolveSpendOwner(t)
             new == [job[w] EXCEPT !.todo = @ \ {t},
                                   !.at = IF Handled(w, t) THEN t ELSE None,
                                   !.left = IF Handled(w, t) THEN @ ELSE @ \cup {t},
                                   !.owner = IF Handled(w, t) THEN resolveSpendOwner(t) ELSE None,
                                   !.step = IF Handled(w, t) THEN "write" ELSE "next"]
  <2>1. /\ job' = [job EXCEPT ![w] = new] /\ job[w] \in Jobs
        /\ job[w] # None /\ job[w].step = "next" /\ t \in job[w].todo
    BY <1>1, <1>8 DEF Take, Working
  <2>2. owner \in Employees \cup {"excluded", None}
    BY OwnerTypes DEF ImportIInv, TypeOK
  <2>3. /\ new \in Jobs /\ new.step = "write" /\ new.report = job[w].report /\ new.todo = todo
        /\ new.at = t /\ new.left = job[w].left /\ new.mode = job[w].mode
        /\ new.failed = job[w].failed
    BY <1>8, <2>1, <2>2 DEF Jobs
  <2> HIDE DEF new
  <2>4. JobInStep(new)
    BY <1>1, <2>1, <2>3 DEF JobInStep
  <2>5. Done(new) = Done(job[w])
    BY <2>1, <2>3 DEF Done
  <2>6. JobExplains(new)
    BY <1>1, <2>1, <2>3, <2>5 DEF JobExplains
  <2> QED
    BY <2>1, <2>3, <2>4, <2>6
<1>9. ASSUME NEW t \in Transactions, Take(w, t), ~Handled(w, t)
      PROVE  \E new \in Jobs : job' = [job EXCEPT ![w] = new] /\ JobInStep(new) /\ JobExplains(new)
  <2> DEFINE todo == job[w].todo \ {t}
             left == job[w].left \cup {t}
             new == [job[w] EXCEPT !.todo = @ \ {t},
                                   !.at = IF Handled(w, t) THEN t ELSE None,
                                   !.left = IF Handled(w, t) THEN @ ELSE @ \cup {t},
                                   !.owner = IF Handled(w, t) THEN resolveSpendOwner(t) ELSE None,
                                   !.step = IF Handled(w, t) THEN "write" ELSE "next"]
  <2>1. /\ job' = [job EXCEPT ![w] = new] /\ job[w] \in Jobs
        /\ job[w] # None /\ job[w].step = "next" /\ t \in job[w].todo
    BY <1>1, <1>9 DEF Take, Working
  <2>2. /\ new \in Jobs /\ new.step = "next" /\ new.report = job[w].report /\ new.todo = todo
        /\ new.left = left /\ new.mode = job[w].mode /\ new.failed = job[w].failed
    BY <1>9, <2>1 DEF Jobs
  <2> HIDE DEF new
  <2>3. JobInStep(new)
    BY <1>1, <2>1, <2>2 DEF JobInStep
  <2>4. Done(new) \subseteq Done(job[w])
    BY <2>1, <2>2 DEF Done
  <2>5. JobExplains(new)
    BY <1>1, <2>1, <2>2, <2>4 DEF JobExplains
  <2> QED
    BY <2>1, <2>2, <2>3, <2>5
<1>10. ASSUME WriteSpendNothing(w)
       PROVE  \E new \in Jobs : job' = [job EXCEPT ![w] = new] /\ JobInStep(new) /\ JobExplains(new)
  <2> DEFINE left == job[w].left \cup {job[w].at}
             new == [job[w] EXCEPT !.step = "next", !.at = None, !.owner = None,
                                   !.left = @ \cup {job[w].at}]
  <2>1. /\ job' = [job EXCEPT ![w] = new] /\ job[w] \in Jobs
        /\ job[w] # None /\ job[w].step = "write"
    BY <1>1, <1>10 DEF WriteSpendNothing, Working
  <2>2. job[w].at \in Transactions
    BY <1>1, <2>1 DEF JobInStep
  <2>3. /\ new \in Jobs /\ new.step = "next" /\ new.report = job[w].report
        /\ new.todo = job[w].todo
        /\ new.left = left /\ new.mode = job[w].mode /\ new.failed = job[w].failed
    BY <2>1, <2>2 DEF Jobs
  <2> HIDE DEF new
  <2>4. JobInStep(new)
    BY <1>1, <2>1, <2>3 DEF JobInStep
  <2>5. Done(new) \subseteq Done(job[w])
    BY <2>1, <2>3 DEF Done
  <2>6. JobExplains(new)
    BY <1>1, <2>1, <2>3, <2>5 DEF JobExplains
  <2> QED
    BY <2>1, <2>3, <2>4, <2>6
<1> QED
  BY <1>5, <1>6, <1>7, <1>8, <1>9, <1>10

\* A step that is through with the transaction at hand: its spend or event is written,
\* and the job goes on to the next one.
LEMMA ThroughStep ==
  ASSUME ImportIInv, CardsTypeOK', NEW w \in Workers, provider' = provider, ended' = ended,
         spend' \in [Transactions -> SpendRows \cup {None}],
         event' \in [Transactions -> {"none", "open", "ignored", "resolved", "imported"}],
         Grows, job[w] # None, job[w].step \in {"write", "settle"}, NextTransaction(w) \/ FailTransaction(w),
         job[w].mode # "preview" =>
             /\ spend'[job[w].at] # None \/ event'[job[w].at] # "none"
             /\ \/ FailTransaction(w)
                \/ /\ Booked(job[w].at, job[w].report[job[w].at])
                   /\ spend'[job[w].at] = spend[job[w].at],
         \A t \in Transactions : event'[t] = "imported" => event[t] = "imported" \/ spend[t] # None
  PROVE  ImportIInv'
<1>1. /\ job \in [Workers -> Jobs \cup {None}]
      /\ job[w] \in Jobs /\ JobInStep(job[w]) /\ JobExplains(job[w])
  BY DEF ImportIInv, JobsInStep, JobsExplain
<1>2. PICK new \in Jobs :
         /\ job' = [job EXCEPT ![w] = new]
         /\ new.step = "next" /\ new.report = job[w].report /\ new.todo = job[w].todo
         /\ new.left = job[w].left /\ new.mode = job[w].mode
         /\ ~new.failed => ~job[w].failed /\ ~FailTransaction(w)
  <2>1. CASE ~FailTransaction(w)
    <3> DEFINE new == [job[w] EXCEPT !.step = "next", !.at = None, !.owner = None]
    <3>1. /\ new \in Jobs /\ new.step = "next" /\ new.report = job[w].report
          /\ new.todo = job[w].todo /\ new.left = job[w].left /\ new.mode = job[w].mode
          /\ new.failed = job[w].failed
      BY <1>1 DEF Jobs
    <3>2. job' = [job EXCEPT ![w] = new]
      BY <2>1 DEF NextTransaction
    <3> HIDE DEF new
    <3> QED
      BY <2>1, <3>1, <3>2
  <2>2. CASE FailTransaction(w)
    <3> DEFINE new == [job[w] EXCEPT !.step = "next", !.at = None, !.owner = None, !.failed = TRUE]
    <3>1. /\ new \in Jobs /\ new.step = "next" /\ new.report = job[w].report
          /\ new.todo = job[w].todo /\ new.left = job[w].left /\ new.mode = job[w].mode
          /\ new.failed
      BY <1>1 DEF Jobs
    <3>2. job' = [job EXCEPT ![w] = new]
      BY <2>2 DEF FailTransaction
    <3> HIDE DEF new
    <3> QED
      BY <3>1, <3>2
  <2> QED
    BY <2>1, <2>2
<1>3. /\ job' \in [Workers -> Jobs \cup {None}] /\ job'[w] = new
      /\ \A v \in Workers \ {w} : job'[v] = job[v]
  BY <1>1, <1>2
<1>4. job[w].at \in Transactions
  BY <1>1 DEF JobInStep
<1>5. (JobInStep(job[w]))'
  BY <1>1, <1>2, <1>3 DEF JobInStep
<1>6. \A t \in Done(new) : t \in Done(job[w]) \/ t = job[w].at
  BY <1>2 DEF Done
<1>7. ASSUME new.mode # "preview", NEW t \in Done(new), new.report[t] # "none"
      PROVE  /\ spend'[t] # None \/ event'[t] # "none"
             /\ ~new.failed =>
                   spend'[t] # None /\ (provider = "photonpay" => spend'[t].amount = new.report[t])
  <2>1. t \in Transactions /\ job[w].mode # "preview" /\ job[w].report[t] # "none"
    BY <1>2, <1>7 DEF Done
  <2>2. CASE t \in Done(job[w])
    <3>1. Explained(t) /\ (~job[w].failed => Booked(t, job[w].report[t]))
      BY <1>1, <2>1, <2>2 DEF JobExplains
    <3> QED
      BY <1>2, <2>1, <3>1 DEF Explained, Booked, Grows
  <2>3. CASE t = job[w].at
    BY <1>2, <2>1, <2>3 DEF Explained, Booked
  <2> QED
    BY <1>6, <1>7, <2>2, <2>3
<1>8. (JobExplains(job[w]))'
  <2>1. Done(job[w])' = Done(new)
    BY <1>3 DEF Done
  <2> QED
    BY <1>2, <1>3, <1>7, <2>1 DEF JobExplains, Explained, Booked
<1>9. ImportedOrExplained'
  BY EndedKept
<1> QED
  BY <1>3, <1>5, <1>8, <1>9, JobStep

LEMMA FailureStep ==
  ASSUME ImportIInv, CardsTypeOK', NEW w \in Workers, recordFailureUnlessPreview(w)
  PROVE  ImportIInv'
<1>1. /\ job[w] # None /\ job[w].step = "write" /\ FailTransaction(w)
      /\ UNCHANGED <<provider, spend, ended>>
      /\ IF job[w].mode = "preview" THEN UNCHANGED event ELSE recordUnmatchedEvent(job[w].at)
  BY DEF recordFailureUnlessPreview, Working, KeepCards, TouchCards
<1>2. /\ spend \in [Transactions -> SpendRows \cup {None}]
      /\ event \in [Transactions -> {"none", "open", "ignored", "resolved", "imported"}]
      /\ job[w] \in Jobs /\ JobInStep(job[w])
  BY <1>1 DEF ImportIInv, TypeOK, JobsInStep
<1>3. job[w].at \in Transactions
  BY <1>1, <1>2 DEF JobInStep
<1>4. /\ event' \in [Transactions -> {"none", "open", "ignored", "resolved", "imported"}]
      /\ \A t \in Transactions : event[t] # "none" => event'[t] # "none"
      /\ \A t \in Transactions : event'[t] = "imported" => event[t] = "imported"
      /\ job[w].mode # "preview" => event'[job[w].at] # "none"
  BY <1>1, <1>2, <1>3 DEF recordUnmatchedEvent
<1>5. Grows
  BY <1>1, <1>4 DEF Grows
<1> QED
  BY <1>1, <1>2, <1>4, <1>5, ThroughStep

LEMMA UpsertStep ==
  ASSUME ImportIInv, CardsTypeOK', NEW w \in Workers, upsertCardSpendEvent(w)
  PROVE  ImportIInv'
<1> DEFINE t == job[w].at
           entry == job[w].report[t]
<1>1. /\ job[w] # None /\ job[w].step = "write" /\ ~Unusable(w) /\ job[w].owner # "excluded"
      /\ UNCHANGED <<provider, ended>>
      /\ \/ /\ provider = "airwallex" \/ spend[t] = None
            /\ job[w].mode # "preview"
            /\ spend' = [spend EXCEPT ![t] = SpendRow(w)]
            /\ job' = [job EXCEPT ![w].step = "settle"]
            /\ UNCHANGED event
         \/ /\ provider = "photonpay" /\ spend[t] = None /\ job[w].mode = "preview"
            /\ NextTransaction(w)
            /\ UNCHANGED <<spend, event>>
         \/ /\ provider = "photonpay" /\ spend[t] # None /\ Same(w)
            /\ NextTransaction(w)
            /\ UNCHANGED <<spend, event>>
         \/ /\ provider = "photonpay" /\ spend[t] # None /\ ~Same(w)
            /\ IF job[w].mode = "preview" THEN UNCHANGED event ELSE recordUnmatchedEvent(t)
            /\ FailTransaction(w)
            /\ UNCHANGED spend
  BY DEF upsertCardSpendEvent, Importable, Working, KeepCards, TouchCards
<1>2. /\ spend \in [Transactions -> SpendRows \cup {None}]
      /\ event \in [Transactions -> {"none", "open", "ignored", "resolved", "imported"}]
      /\ job \in [Workers -> Jobs \cup {None}]
      /\ job[w] \in Jobs /\ JobInStep(job[w]) /\ JobExplains(job[w])
      /\ provider \in {"airwallex", "photonpay"}
  BY <1>1 DEF ImportIInv, TypeOK, CardsTypeOK, JobsInStep, JobsExplain
<1>3. /\ t \in Transactions /\ job[w].report \in [Transactions -> Entries] /\ entry # "none"
  BY <1>1, <1>2 DEF JobInStep
<1>4. CASE /\ provider = "airwallex" \/ spend[t] = None
           /\ job[w].mode # "preview"
           /\ spend' = [spend EXCEPT ![t] = SpendRow(w)]
           /\ job' = [job EXCEPT ![w].step = "settle"]
           /\ UNCHANGED event
  <2> DEFINE row == SpendRow(w)
             new == [job[w] EXCEPT !.step = "settle"]
  <2>1. job[w].owner \in Employees
    BY <1>1, <1>2 DEF Unusable, Jobs
  <2>2. entry \in Amounts
    BY <1>1, <1>3 DEF Unusable, Entries
  <2>3. t.card \in Cards /\ t.date \in Dates
    BY <1>3, ImportAssumption
  <2>4. row \in SpendRows /\ row.amount = entry
    BY <2>1, <2>2, <2>3 DEF SpendRow, SpendRows
  <2>5. row # None
    BY <2>4, NoneIsNoSpend
  <2>6. /\ new \in Jobs /\ new.step = "settle" /\ new.report = job[w].report
        /\ new.todo = job[w].todo /\ new.at = t /\ new.left = job[w].left
        /\ new.mode = job[w].mode /\ new.failed = job[w].failed
    BY <1>2 DEF Jobs
  <2>7. /\ job' = [job EXCEPT ![w] = new] /\ spend' = [spend EXCEPT ![t] = row]
    BY <1>4
  <2> HIDE DEF row, new
  <2>8. /\ spend' \in [Transactions -> SpendRows \cup {None}] /\ spend'[t] = row
        /\ \A u \in Transactions \ {t} : spend'[u] = spend[u]
        /\ job' \in [Workers -> Jobs \cup {None}] /\ job'[w] = new
        /\ \A v \in Workers \ {w} : job'[v] = job[v]
    BY <1>2, <1>3, <2>4, <2>6, <2>7
  <2>9. Grows
    BY <1>2, <1>4, <2>5, <2>8 DEF Grows
  <2>10. JobInStep(job[w])'
    <3>1. \A u \in job[w].todo \cup {t} : job[w].report[u] # "none"
      BY <1>1, <1>2 DEF JobInStep
    <3>2. spend'[t] # None
      BY <2>5, <2>8
    <3> QED
      BY <1>3, <1>4, <2>6, <2>8, <3>1, <3>2 DEF JobInStep
  <2>11. JobExplains(job[w])'
    <3>1. \A u \in Done(new) : u \in Transactions /\ u # t /\ u \in Done(job[w])
      BY <1>1, <2>6 DEF Done
    <3>2. \A u \in Done(job[w]) : job[w].report[u] # "none" =>
             Explained(u) /\ (~job[w].failed => Booked(u, job[w].report[u]))
      BY <1>1, <1>2, <1>4 DEF JobExplains
    <3>3. \A u \in Done(new) : new.report[u] # "none" =>
             /\ spend'[u] # None \/ event'[u] # "none"
             /\ ~new.failed =>
                   spend'[u] # None /\ (provider = "photonpay" => spend'[u].amount = new.report[u])
      BY <1>4, <2>6, <2>8, <3>1, <3>2 DEF Explained, Booked
    <3>4. Done(job[w])' = Done(new)
      BY <2>8 DEF Done
    <3> QED
      BY <1>1, <2>4, <2>5, <2>6, <2>8, <3>3, <3>4 DEF JobExplains, Explained, Booked
  <2>12. ImportedOrExplained'
    BY <1>1, <2>9, EndedKept
  <2> QED
    BY <1>1, <1>2, <1>4, <2>8, <2>9, <2>10, <2>11, <2>12, JobStep
<1>5. CASE /\ provider = "photonpay" /\ spend[t] = None /\ job[w].mode = "preview"
           /\ NextTransaction(w)
           /\ UNCHANGED <<spend, event>>
  BY <1>1, <1>2, <1>5, ThroughStep DEF Grows
<1>6. CASE /\ provider = "photonpay" /\ spend[t] # None /\ Same(w)
           /\ NextTransaction(w)
           /\ UNCHANGED <<spend, event>>
  <2>1. Booked(t, entry) /\ spend'[t] # None
    BY <1>6 DEF Booked, Same
  <2> QED
    BY <1>1, <1>2, <1>6, <2>1, ThroughStep DEF Grows
<1>7. CASE /\ provider = "photonpay" /\ spend[t] # None /\ ~Same(w)
           /\ IF job[w].mode = "preview" THEN UNCHANGED event ELSE recordUnmatchedEvent(t)
           /\ FailTransaction(w)
           /\ UNCHANGED spend
  <2>1. /\ event' \in [Transactions -> {"none", "open", "ignored", "resolved", "imported"}]
        /\ \A u \in Transactions : event[u] # "none" => event'[u] # "none"
        /\ \A u \in Transactions : event'[u] = "imported" => event[u] = "imported"
    BY <1>2, <1>3, <1>7 DEF recordUnmatchedEvent
  <2>2. Grows
    BY <1>7, <2>1 DEF Grows
  <2> QED
    BY <1>1, <1>2, <1>7, <2>1, <2>2, ThroughStep
<1> QED
  BY <1>1, <1>4, <1>5, <1>6, <1>7

LEMMA SettleStep ==
  ASSUME ImportIInv, CardsTypeOK', NEW w \in Workers, Settle(w)
  PROVE  ImportIInv'
<1> DEFINE t == job[w].at
<1>1. /\ job[w] # None /\ job[w].step = "settle"
      /\ event' = [event EXCEPT ![t] = IF @ = "open" THEN "imported" ELSE @]
      /\ NextTransaction(w)
      /\ UNCHANGED <<provider, spend, ended>>
  BY DEF Settle, Working, KeepCards, TouchCards
<1>2. /\ spend \in [Transactions -> SpendRows \cup {None}]
      /\ event \in [Transactions -> {"none", "open", "ignored", "resolved", "imported"}]
      /\ job[w] \in Jobs /\ JobInStep(job[w]) /\ JobExplains(job[w])
  BY <1>1 DEF ImportIInv, TypeOK, JobsInStep, JobsExplain
<1>3. t \in Transactions /\ spend[t] # None /\ job[w].mode # "preview"
  BY <1>1, <1>2 DEF JobInStep
<1>4. Booked(t, job[w].report[t])
  BY <1>1, <1>2, <1>3 DEF JobExplains
<1>5. /\ event' \in [Transactions -> {"none", "open", "ignored", "resolved", "imported"}]
      /\ \A u \in Transactions : event[u] # "none" => event'[u] # "none"
      /\ \A u \in Transactions : event'[u] = "imported" => event[u] = "imported" \/ spend[u] # None
  BY <1>1, <1>2, <1>3
<1>6. Grows
  BY <1>1, <1>5 DEF Grows
<1> QED
  BY <1>1, <1>2, <1>3, <1>4, <1>5, <1>6, ThroughStep

\* An import that ends with nothing left to do has explained all it was given.
LEMMA FinishStep ==
  ASSUME ImportIInv, CardsTypeOK', NEW w \in Workers, Finish(w)
  PROVE  ImportIInv'
<1>1. /\ job[w] # None /\ job[w].step = "next" /\ job[w].todo = {}
      /\ ended' = [report |-> job[w].report, left |-> job[w].left,
                   mode |-> job[w].mode, completed |-> ~job[w].failed]
      /\ job' = [job EXCEPT ![w] = None]
      /\ UNCHANGED <<provider, spend, event>>
  BY DEF Finish, Working, KeepCards, TouchCards
<1>2. /\ spend \in [Transactions -> SpendRows \cup {None}]
      /\ event \in [Transactions -> {"none", "open", "ignored", "resolved", "imported"}]
      /\ job \in [Workers -> Jobs \cup {None}]
      /\ JobInStep(job[w]) /\ JobExplains(job[w])
  BY <1>1 DEF ImportIInv, TypeOK, JobsInStep, JobsExplain
<1>3. /\ job' \in [Workers -> Jobs \cup {None}] /\ job'[w] = None
      /\ \A v \in Workers \ {w} : job'[v] = job[v]
  BY <1>1, <1>2
<1>4. Grows
  BY <1>1 DEF Grows
<1>5. ImportedOrExplained'
  <2>1. \A t \in Transactions : t \notin job[w].left => t \in Done(job[w])
    BY <1>1 DEF Done
  <2>2. job[w].mode # "preview" =>
           \A t \in Transactions \ job[w].left : job[w].report[t] # "none" =>
               Explained(t) /\ (~job[w].failed => Booked(t, job[w].report[t]))
    BY <1>1, <1>2, <2>1 DEF JobExplains
  <2>3. /\ ended'.report = job[w].report /\ ended'.left = job[w].left
        /\ ended'.mode = job[w].mode /\ ended'.completed = ~job[w].failed
    BY <1>1
  <2>4. ended'.completed => ~job[w].failed
    BY <2>3
  <2> QED
    BY <1>1, <2>2, <2>3, <2>4 DEF ImportedOrExplained, Explained, Booked
<1> QED
  BY <1>1, <1>2, <1>3, <1>4, <1>5, JobStep

LEMMA FailStep ==
  ASSUME ImportIInv, CardsTypeOK', NEW w \in Workers, Fail(w)
  PROVE  ImportIInv'
<1>1. job' = [job EXCEPT ![w] = None] /\ UNCHANGED <<provider, spend, event, ended>>
  BY DEF Fail, TouchCards
<1>2. /\ spend \in [Transactions -> SpendRows \cup {None}]
      /\ event \in [Transactions -> {"none", "open", "ignored", "resolved", "imported"}]
      /\ job \in [Workers -> Jobs \cup {None}]
  BY DEF ImportIInv, TypeOK
<1>3. /\ job' \in [Workers -> Jobs \cup {None}] /\ job'[w] = None
      /\ \A v \in Workers \ {w} : job'[v] = job[v]
  BY <1>1, <1>2
<1>4. Grows
  BY <1>1 DEF Grows
<1>5. ImportedOrExplained'
  BY <1>1, <1>4, EndedKept
<1> QED
  BY <1>1, <1>2, <1>3, <1>4, <1>5, JobStep

\* Steps that leave the imports alone, but for the events administrators settle.
LEMMA OtherStep ==
  ASSUME ImportIInv, CardsTypeOK', UNCHANGED <<provider, spend, job, ended>>,
         event' \in [Transactions -> {"none", "open", "ignored", "resolved", "imported"}],
         \A t \in Transactions : /\ event[t] # "none" => event'[t] # "none"
                                 /\ event'[t] = "imported" => event[t] = "imported"
  PROVE  ImportIInv'
<1>1. Grows
  BY DEF Grows
<1>2. ASSUME NEW v \in Workers
      PROVE  (job[v] # None => JobInStep(job[v]) /\ JobExplains(job[v]))'
  <2>1. job[v] # None => job[v] \in Jobs /\ JobInStep(job[v]) /\ JobExplains(job[v])
    BY DEF ImportIInv, JobsInStep, JobsExplain
  <2>2. job[v] # None => \A j \in {job[v]} : JobInStep(j)' /\ JobExplains(j)'
    BY <1>1, <2>1, JobKept
  <2> QED
    BY <2>2
<1>3. JobsInStep' /\ JobsExplain'
  BY <1>2 DEF JobsInStep, JobsExplain
<1>4. SettledEventsAreSpend'
  BY DEF ImportIInv, SettledEventsAreSpend
<1>5. ImportedOrExplained'
  BY <1>1, EndedKept
<1> QED
  BY <1>3, <1>4, <1>5 DEF ImportIInv, TypeOK

-----------------------------------------------------------------------------
(* The theorems.                                                           *)

\* Governance writes no spend and no plan, and the cards stay those of one provider.
LEMMA GovernanceFrame ==
  ASSUME EnvironmentNext \/ GovernanceNext
  PROVE  UNCHANGED <<provider, spend, plan>>
<1>1. ASSUME EnvironmentNext PROVE UNCHANGED <<provider, spend, plan>>
  BY <1>1 DEF EnvironmentNext, Tick, EditEmployee, ChangeHolder
<1>2. ASSUME GovernanceNext PROVE UNCHANGED <<provider, spend, plan>>
  <2>1. \A d, r : Ask(d, r) => UNCHANGED <<provider, spend, plan>>
    BY DEF Ask
  <2>2. \A d, aliases, exclusions, rows :
           Commit(d, aliases, exclusions, rows) => UNCHANGED <<provider, spend, plan>>
    BY DEF Commit
  <2>3. PICK d \in Admins :
           \/ \E m \in Emails, e \in Employees, p \in Periods, def \in BOOLEAN : previewAlias(d, m, e, p, def)
           \/ \E a \in AliasIds, e \in Employees, p \in Periods : previewAliasCorrection(d, a, e, p)
           \/ \E c \in Cards, p \in Periods, def \in BOOLEAN : previewExclusion(d, c, p, def)
           \/ createAlias(d) \/ correctAlias(d) \/ createExclusion(d)
           \/ executeRematch(d) \/ DropRequest(d)
           \/ \E a \in AliasIds : disableAlias(d, a)
           \/ \E x \in ExclusionIds : disableExclusion(d, x)
    BY <1>2 DEF GovernanceNext
  <2>4. ASSUME \/ \E m \in Emails, e \in Employees, p \in Periods, def \in BOOLEAN : previewAlias(d, m, e, p, def)
               \/ \E a \in AliasIds, e \in Employees, p \in Periods : previewAliasCorrection(d, a, e, p)
               \/ \E c \in Cards, p \in Periods, def \in BOOLEAN : previewExclusion(d, c, p, def)
        PROVE  UNCHANGED <<provider, spend, plan>>
    BY <2>1, <2>4 DEF previewAlias, previewAliasCorrection, previewExclusion
  <2>5. createAlias(d) => UNCHANGED <<provider, spend, plan>>
    BY <2>2 DEF createAlias
  <2>6. correctAlias(d) => UNCHANGED <<provider, spend, plan>>
    BY <2>2 DEF correctAlias
  <2>7. createExclusion(d) => UNCHANGED <<provider, spend, plan>>
    BY <2>2 DEF createExclusion
  <2>8. executeRematch(d) \/ DropRequest(d) => UNCHANGED <<provider, spend, plan>>
    BY <2>2 DEF executeRematch, DropRequest
  <2>9. \A a \in AliasIds : disableAlias(d, a) => UNCHANGED <<provider, spend, plan>>
    BY <2>2 DEF disableAlias
  <2>10. \A x \in ExclusionIds : disableExclusion(d, x) => UNCHANGED <<provider, spend, plan>>
    BY <2>2 DEF disableExclusion
  <2> QED
    BY <2>3, <2>4, <2>5, <2>6, <2>7, <2>8, <2>9, <2>10
<1> QED
  BY <1>1, <1>2

LEMMA InitIInv == Init => IInv
<1> SUFFICES ASSUME Init PROVE IInv
  OBVIOUS
<1>1. CardsTypeOK
  <2>1. date \in Dates
    BY CardsAssumption DEF Init, InitCards, Dates
  <2>2. holder \in [Cards -> SUBSET Emails]
    BY DEF Init, InitCards
  <2>3. employee \in [Employees -> EmployeeRows]
    <3>1. [email : Emails \cup {None}, active : {TRUE}, mapped : {TRUE}] \subseteq EmployeeRows
      BY DEF EmployeeRows
    <3> QED
      BY <3>1 DEF Init, InitCards
  <2>4. /\ alias \in [AliasIds -> AliasRows \cup {None}]
        /\ exclusion \in [ExclusionIds -> ExclusionRows \cup {None}]
        /\ card \in [Cards -> CardRows \cup {None}]
        /\ provider \in {"airwallex", "photonpay"} /\ outdated = {} /\ overwritten = {}
    BY DEF Init, InitCards
  <2> QED
    BY <2>1, <2>2, <2>3, <2>4 DEF CardsTypeOK
<1>2. WorkTypeOK /\ RowsRemain
  BY DEF Init, InitCards, WorkTypeOK, RowsRemain, NoPlan
<1>3. PeriodsNeverOverlap /\ AliasMatchesAreBacked
  BY DEF Init, InitCards, PeriodsNeverOverlap, AliasMatchesAreBacked
<1>4. PlansAreRight
  BY DEF Init, InitCards, PlansAreRight, NoPlan
<1>5. TypeOK /\ job \in [Workers -> Jobs \cup {None}]
  BY <1>1 DEF Init, TypeOK
<1>6. JobsInStep /\ JobsExplain /\ ImportedOrExplained /\ SettledEventsAreSpend
  BY DEF Init, JobsInStep, JobsExplain, ImportedOrExplained, SettledEventsAreSpend
<1> QED
  BY <1>1, <1>2, <1>3, <1>4, <1>5, <1>6 DEF IInv, CardsIInv, ImportIInv

LEMMA NextIInv == IInv /\ [Next]_vars => IInv'
<1> SUFFICES ASSUME IInv, [Next]_vars PROVE IInv'
  OBVIOUS
<1>1. CardsIInv /\ ImportIInv
  BY DEF IInv
<1>2. event \in [Transactions -> {"none", "open", "ignored", "resolved", "imported"}]
  BY <1>1 DEF ImportIInv, TypeOK
<1>3. ASSUME NEW w \in Workers,
             \/ \E mode \in Modes : StartImport(w, mode)
             \/ \E report \in [Transactions -> Entries] : Fetch(w, report)
             \/ \E t \in Transactions : Take(w, t)
             \/ WriteSpendNothing(w)
      PROVE  IInv'
  <2>1. CardsIInv'
    BY <1>1, <1>3, CardsKept DEF StartImport, Fetch, Take, WriteSpendNothing, KeepCards, TouchCards
  <2>2. ImportIInv'
    BY <1>1, <1>3, <2>1, StartStep DEF CardsIInv
  <2> QED
    BY <2>1, <2>2 DEF IInv
<1>4. ASSUME NEW w \in Workers, NEW lost \in SUBSET Cards, ImportInventory(w, lost)
      PROVE  IInv'
  <2>1. CardsIInv'
    BY <1>1, <1>4, PlanInventoryStep DEF ImportInventory
  <2>2. ImportIInv'
    BY <1>1, <1>4, <2>1, StartStep DEF CardsIInv
  <2> QED
    BY <2>1, <2>2 DEF IInv
<1>5. ASSUME NEW w \in Workers,
             recordFailureUnlessPreview(w) \/ upsertCardSpendEvent(w) \/ Settle(w) \/ Finish(w)
      PROVE  IInv'
  <2>1. KeepCards
    BY <1>5 DEF recordFailureUnlessPreview, upsertCardSpendEvent, Settle, Finish
  <2>2. CardsIInv'
    BY <1>1, <2>1, CardsKept DEF KeepCards, TouchCards
  <2>3. ImportIInv'
    BY <1>1, <1>5, <2>2, FailureStep, UpsertStep, SettleStep, FinishStep DEF CardsIInv
  <2> QED
    BY <2>2, <2>3 DEF IInv
<1>6. ASSUME NEW w \in Workers, Fail(w)
      PROVE  IInv'
  <2>1. CardsIInv'
    BY <1>1, <1>6, FailKeepsCards
  <2>2. ImportIInv'
    BY <1>1, <1>6, <2>1, FailStep DEF CardsIInv
  <2> QED
    BY <2>1, <2>2 DEF IInv
<1>7. ASSUME NEW w \in Workers, NEW lost \in SUBSET Cards, syncProvider(w, lost)
      PROVE  IInv'
  <2>1. CardsIInv'
    BY <1>1, <1>7, PlanInventoryStep DEF syncProvider
  <2>2. UNCHANGED <<provider, spend, event, job, ended>>
    BY <1>7 DEF syncProvider, PlanInventory, importVars
  <2>3. ImportIInv'
    BY <1>1, <1>2, <2>1, <2>2, OtherStep DEF CardsIInv
  <2> QED
    BY <2>1, <2>3 DEF IInv
<1>8. ASSUME NEW w \in Workers, NEW c \in Cards, UpsertCard(w, c)
      PROVE  IInv'
  <2>1. CardsIInv'
    BY <1>1, <1>8, WriteCardStep DEF UpsertCard
  <2>2. UNCHANGED <<provider, spend, event, job, ended>>
    BY <1>8 DEF UpsertCard, WriteCard, importVars
  <2>3. ImportIInv'
    BY <1>1, <1>2, <2>1, <2>2, OtherStep DEF CardsIInv
  <2> QED
    BY <2>1, <2>3 DEF IInv
<1>9. ASSUME NEW t \in Transactions, ignore(t) \/ resolve(t)
      PROVE  IInv'
  <2>1. KeepCards /\ UNCHANGED <<spend, job, ended>>
    BY <1>9 DEF ignore, resolve
  <2>2. CardsIInv'
    BY <1>1, <2>1, CardsKept DEF KeepCards, TouchCards
  <2>3. /\ event' \in [Transactions -> {"none", "open", "ignored", "resolved", "imported"}]
        /\ \A u \in Transactions : /\ event[u] # "none" => event'[u] # "none"
                                   /\ event'[u] = "imported" => event[u] = "imported"
    BY <1>2, <1>9 DEF ignore, resolve
  <2>4. ImportIInv'
    BY <1>1, <2>1, <2>2, <2>3, OtherStep DEF CardsIInv, KeepCards, TouchCards
  <2> QED
    BY <2>2, <2>4 DEF IInv
<1>10. ASSUME EnvironmentNext \/ GovernanceNext, UNCHANGED importVars
       PROVE  IInv'
  <2>1. CardsIInv'
    BY <1>1, <1>10, EnvironmentStep, GovernanceStep
  <2>2. UNCHANGED <<provider, spend, event, job, ended>>
    BY <1>10, GovernanceFrame DEF importVars
  <2>3. ImportIInv'
    BY <1>1, <1>2, <2>1, <2>2, OtherStep DEF CardsIInv
  <2> QED
    BY <2>1, <2>3 DEF IInv
<1>11. ASSUME UNCHANGED vars PROVE IInv'
  <2>1. UNCHANGED <<provider, date, holder, employee, alias, exclusion, card, request,
                    plan, outdated, overwritten, spend, event, job, ended>>
    BY <1>11 DEF vars, cardVars, importVars
  <2>2. CardsIInv'
    BY <1>1, <2>1, CardsKept
  <2>3. ImportIInv'
    BY <1>1, <1>2, <2>1, <2>2, OtherStep DEF CardsIInv
  <2> QED
    BY <2>2, <2>3 DEF IInv
<1>12. CASE ImportNext
  BY <1>3, <1>4, <1>5, <1>6, <1>7, <1>8, <1>12 DEF ImportNext
<1> QED
  BY <1>9, <1>10, <1>11, <1>12 DEF Next

LEMMA Invariance == Spec => []IInv
  BY InitIInv, NextIInv, PTL DEF Spec

\* For any number of cards, aliases, exclusions, administrators and inventories: the
\* periods of an address's aliases and of a card's exclusions do not overlap, and a card
\* matched by alias is backed by one, unless it was written from outdated reads.
THEOREM CardsAreGoverned == Spec => []CardsInv
<1>1. IInv => CardsInv
  BY DEF IInv, CardsIInv, CardsInv
<1> QED
  BY <1>1, Invariance, PTL

\* For any number of transactions and imports, wherever they stop: an ended import has
\* booked or explained what it was given, and settled events are spend.
THEOREM ImportsAreAccountedFor == Spec => []SpendInv
<1>1. IInv => SpendInv
  BY DEF IInv, ImportIInv, SpendInv
<1> QED
  BY <1>1, Invariance, PTL

\* A step that ends an inventory changes nothing the inventory read, and no card but
\* those it had yet to write.
LEMMA InventoryEnds ==
  ASSUME IInv, Next, NEW w \in Workers, plan[w] # NoPlan, plan'[w] = NoPlan
  PROVE  /\ UNCHANGED <<provider, date, holder, employee, alias, exclusion>>
         /\ \A c \in Cards : plan[w][c] = None => card'[c] = card[c]
<1>1. plan \in [Workers -> [Cards -> CardRows \cup {None}]] /\ card \in [Cards -> CardRows \cup {None}]
  BY DEF IInv, CardsIInv, CardsTypeOK, WorkTypeOK
<1>2. ~UNCHANGED plan
  OBVIOUS
<1>3. PICK v \in Workers :
         \/ \E lost \in SUBSET Cards : PlanInventory(v, lost)
         \/ \E c \in Cards : WriteCard(v, c)
         \/ Fail(v)
  <2>1. ~((EnvironmentNext \/ GovernanceNext) /\ UNCHANGED importVars)
    BY <1>2, GovernanceFrame
  <2>2. ~(\E t \in Transactions : ignore(t) \/ resolve(t))
    BY <1>2 DEF ignore, resolve, KeepCards
  <2>3. PICK v \in Workers :
           \/ \E mode \in Modes : StartImport(v, mode)
           \/ \E lost \in SUBSET Cards : ImportInventory(v, lost)
           \/ \E report \in [Transactions -> Entries] : Fetch(v, report)
           \/ \E t \in Transactions : Take(v, t)
           \/ WriteSpendNothing(v)
           \/ recordFailureUnlessPreview(v)
           \/ upsertCardSpendEvent(v)
           \/ Settle(v)
           \/ Finish(v)
           \/ Fail(v)
           \/ \E lost \in SUBSET Cards : syncProvider(v, lost)
           \/ \E c \in Cards : UpsertCard(v, c)
    BY <2>1, <2>2 DEF Next, ImportNext
  <2>4. ~(\/ \E mode \in Modes : StartImport(v, mode)
          \/ \E report \in [Transactions -> Entries] : Fetch(v, report)
          \/ \E t \in Transactions : Take(v, t)
          \/ WriteSpendNothing(v)
          \/ recordFailureUnlessPreview(v)
          \/ upsertCardSpendEvent(v)
          \/ Settle(v)
          \/ Finish(v))
    BY <1>2 DEF StartImport, Fetch, Take, WriteSpendNothing, recordFailureUnlessPreview,
                upsertCardSpendEvent, Settle, Finish, KeepCards
  <2> QED
    BY <2>3, <2>4 DEF ImportInventory, syncProvider, UpsertCard
<1>4. ASSUME NEW lost \in SUBSET Cards, PlanInventory(v, lost) PROVE FALSE
  <2>1. plan[v] = NoPlan /\ plan' = [plan EXCEPT ![v] = [c \in Cards |-> PlannedRow(c, lost)]]
    BY <1>4 DEF PlanInventory
  <2> QED
    BY <1>1, <2>1
<1>5. ASSUME NEW e \in Cards, WriteCard(v, e)
      PROVE  /\ UNCHANGED <<provider, date, holder, employee, alias, exclusion>>
             /\ \A c \in Cards : plan[w][c] = None => card'[c] = card[c]
  <2>1. /\ plan[v][e] # None /\ plan' = [plan EXCEPT ![v][e] = None]
        /\ card' = [card EXCEPT ![e] = plan[v][e]]
        /\ UNCHANGED <<provider, date, holder, employee, alias, exclusion>>
    BY <1>5 DEF WriteCard
  <2>2. v = w
    BY <1>1, <2>1
  <2> QED
    BY <1>1, <2>1, <2>2
<1>6. ASSUME Fail(v)
      PROVE  UNCHANGED <<provider, date, holder, employee, alias, exclusion, card>>
  BY <1>6 DEF Fail, TouchCards
<1> QED
  BY <1>3, <1>4, <1>5, <1>6

\* For any number of cards and of inventories, imports and administrators side by side:
\* an inventory that ends undisturbed leaves every card matched exactly when its
\* address names one employee who may own it.
THEOREM InventoriesFindOwners == Spec => UndisturbedInventoryFindsOwners
<1> DEFINE Ended(w) == /\ plan[w] # NoPlan /\ plan'[w] = NoPlan /\ w \notin outdated
                       /\ \A c \in Cards : plan[w][c] # None => card'[c] = plan[w][c]
<1>1. ASSUME IInv, [Next]_vars, NEW w \in Workers, Ended(w), NEW c \in Cards
      PROVE  Justified(c)'
  <2>1. Next
    BY <1>1 DEF vars, cardVars
  <2>2. /\ UNCHANGED <<provider, date, holder, employee, alias, exclusion>>
        /\ \A e \in Cards : plan[w][e] = None => card'[e] = card[e]
    BY <1>1, <2>1, InventoryEnds
  <2>3. /\ plan[w][c] # None => RowIsJustified(c, plan[w][c])
        /\ plan[w][c] = None => Justified(c)
        /\ plan[w][c] # None => plan[w][c] \in CardRows
    BY <1>1 DEF IInv, CardsIInv, PlansAreRight, WorkTypeOK
  <2>4. CASE plan[w][c] # None
    <3>1. card'[c] = plan[w][c]
      BY <1>1, <2>4
    <3>2. RowIsJustified(c, card[c])'
      BY <2>2, <2>3, <2>4, <3>1, SameJudgement
    <3> QED
      BY <3>2 DEF Justified
  <2>5. CASE plan[w][c] = None
    BY <2>2, <2>3, <2>5, JustifiedStays
  <2> QED
    BY <2>4, <2>5
<1>2. IInv /\ [Next]_vars => [\A w \in Workers : Ended(w) => \A c \in Cards : Justified(c)']_cardVars
  BY <1>1
<1> QED
  BY <1>2, Invariance, PTL DEF Spec, UndisturbedInventoryFindsOwners

\* What an import of worker w does to spend, and what a preview of its does at all.
LEMMA ImportsKeepBooked ==
  ASSUME IInv, Next
  PROVE  PhotonPayIsImmutable /\ PreviewsWriteNothing
<1>1. /\ job \in [Workers -> Jobs \cup {None}] /\ spend \in [Transactions -> SpendRows \cup {None}]
      /\ provider \in {"airwallex", "photonpay"}
  BY DEF IInv, ImportIInv, TypeOK, CardsTypeOK
<1>2. ASSUME UNCHANGED spend PROVE PhotonPayIsImmutable
  BY <1>2 DEF PhotonPayIsImmutable
<1>3. ASSUME UNCHANGED job PROVE PreviewsWriteNothing
  BY <1>3 DEF PreviewsWriteNothing
<1>4. ASSUME NEW w \in Workers, \A v \in Workers \ {w} : job'[v] = job[v],
             (job[w] # None /\ job[w].mode = "preview") => UNCHANGED <<card, spend, event>>
      PROVE  PreviewsWriteNothing
  BY <1>4 DEF PreviewsWriteNothing
<1>5. ASSUME (EnvironmentNext \/ GovernanceNext) /\ UNCHANGED importVars
      PROVE  UNCHANGED <<spend, job>>
  BY <1>5, GovernanceFrame DEF importVars
<1>6. ASSUME NEW t \in Transactions, ignore(t) \/ resolve(t)
      PROVE  UNCHANGED <<spend, job>>
  BY <1>6 DEF ignore, resolve
<1>7. ASSUME NEW w \in Workers,
             \/ \E lost \in SUBSET Cards : syncProvider(w, lost)
             \/ \E c \in Cards : UpsertCard(w, c)
      PROVE  UNCHANGED <<spend, job>>
  BY <1>7 DEF syncProvider, PlanInventory, UpsertCard, WriteCard, importVars
<1>8. ASSUME NEW w \in Workers,
             \/ \E mode \in Modes : StartImport(w, mode)
             \/ \E lost \in SUBSET Cards : ImportInventory(w, lost)
             \/ \E report \in [Transactions -> Entries] : Fetch(w, report)
             \/ \E t \in Transactions : Take(w, t)
             \/ WriteSpendNothing(w) \/ Finish(w) \/ Fail(w)
      PROVE  PhotonPayIsImmutable /\ PreviewsWriteNothing
  <2>1. UNCHANGED <<card, spend, event>>
    BY <1>8 DEF StartImport, ImportInventory, PlanInventory, Fetch, Take, WriteSpendNothing,
                Finish, Fail, KeepCards, TouchCards
  <2>2. \A v \in Workers \ {w} : job'[v] = job[v]
    BY <1>1, <1>8 DEF StartImport, ImportInventory, Fetch, Take, WriteSpendNothing, Finish, Fail
  <2> QED
    BY <1>2, <1>4, <2>1, <2>2
<1>9. ASSUME NEW w \in Workers, recordFailureUnlessPreview(w)
      PROVE  PhotonPayIsImmutable /\ PreviewsWriteNothing
  <2>1. UNCHANGED <<card, spend>> /\ (job[w].mode = "preview" => UNCHANGED event)
    BY <1>9 DEF recordFailureUnlessPreview, KeepCards
  <2>2. \A v \in Workers \ {w} : job'[v] = job[v]
    BY <1>1, <1>9 DEF recordFailureUnlessPreview, FailTransaction
  <2> QED
    BY <1>2, <1>4, <2>1, <2>2
<1>10. ASSUME NEW w \in Workers, Settle(w)
       PROVE  PhotonPayIsImmutable /\ PreviewsWriteNothing
  <2>1. job[w] # None /\ job[w].step = "settle" /\ UNCHANGED spend
    BY <1>10 DEF Settle, Working
  <2>2. job[w].mode # "preview"
    BY <2>1 DEF IInv, ImportIInv, JobsInStep, JobInStep
  <2>3. \A v \in Workers \ {w} : job'[v] = job[v]
    BY <1>1, <1>10 DEF Settle, NextTransaction
  <2> QED
    BY <1>2, <1>4, <2>1, <2>2, <2>3
<1>11. ASSUME NEW w \in Workers, upsertCardSpendEvent(w)
       PROVE  PhotonPayIsImmutable /\ PreviewsWriteNothing
  <2>1. /\ UNCHANGED card
        /\ job[w].mode = "preview" => UNCHANGED <<spend, event>>
        /\ \/ UNCHANGED spend
           \/ /\ provider = "airwallex" \/ spend[job[w].at] = None
              /\ spend' = [spend EXCEPT ![job[w].at] = SpendRow(w)]
    BY <1>11 DEF upsertCardSpendEvent, KeepCards
  <2>2. \A v \in Workers \ {w} : job'[v] = job[v]
    BY <1>1, <1>11 DEF upsertCardSpendEvent, NextTransaction, FailTransaction
  <2>3. PhotonPayIsImmutable
    BY <1>1, <2>1 DEF PhotonPayIsImmutable
  <2> QED
    BY <1>4, <2>1, <2>2, <2>3
<1> QED
  BY <1>2, <1>3, <1>5, <1>6, <1>7, <1>8, <1>9, <1>10, <1>11 DEF Next, ImportNext

\* However imports race and cards change hands, PhotonPay's spend once written stays as
\* it is, and a preview writes no card, no spend and no event.
THEOREM BookedSpendStays == Spec => BookedSpendIsKept
<1>1. ASSUME IInv, [Next]_vars PROVE [PhotonPayIsImmutable /\ PreviewsWriteNothing]_vars
  BY <1>1, ImportsKeepBooked
<1> QED
  BY <1>1, Invariance, PTL DEF Spec, BookedSpendIsKept
=============================================================================
