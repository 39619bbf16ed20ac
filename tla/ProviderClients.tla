--------------------------- MODULE ProviderClients ---------------------------
(***************************************************************************)
(* The clients of the four providers, and the loops that read a listing    *)
(* page after page through them.                                           *)
(*                                                                         *)
(* One PhotonPayClient serves every import, inventory and rematch of the   *)
(* process: its callers share a cached access token and the request for a  *)
(* new one, and a refused token is replaced once.  An Airwallex caller     *)
(* keeps the token of its own login; CAKE and Everflow need none and       *)
(* answer with one report.  Time goes in steps of the request timeout: a   *)
(* request is answered, or given up, before a second step.                 *)
(***************************************************************************)
EXTENDS Integers, Sequences, FiniteSets

CONSTANTS
    Callers,            \* activities of the process that call a provider
    CalledClients,      \* clients; they share nothing, and a behaviour looks at one
    Interruptions,      \* kinds of failure a provider may answer with
    Lives,              \* expiresIn of an access token, in seconds
    RowsAtStart, MaxRows, RowsPerPage,
    PageLimit,          \* MAX_PAGES of the inventory
    MaxTokens, MaxRevoked, MaxCalls, MaxClock,
    None

\* "rejected" is a status below 500, "code" a code other than 0000 in an answer with status
\* 200, and "cut" a body that breaks off or is no JSON.
FailureKinds == {"timeout", "network", "limited", "unavailable", "forbidden", "rejected", "code", "cut"}

\* How a call may end.
Categories == {"CREDENTIAL_INVALID", "TIMEOUT", "NETWORK_ERROR", "RATE_LIMITED", "PROVIDER_5XX",
               "BUSINESS_REJECTED"}
Results == Categories \cup {"completed"}

ASSUME InterruptionsAssumption == Interruptions \subseteq FailureKinds

ASSUME CallsAssumption ==
    /\ {RowsAtStart, MaxRows, PageLimit, MaxTokens, MaxRevoked, MaxCalls, MaxClock} \subseteq Nat
    /\ RowsAtStart <= MaxRows /\ RowsPerPage \in Nat \ {0} /\ Lives \subseteq Nat
    /\ CalledClients \subseteq {"photonpay", "airwallex", "cake", "everflow"}

ASSUME NoneIsNoCall ==
    None \notin Callers /\ None \notin Nat /\ None \notin Results
    /\ None \notin [token : Nat, expiresAt : Nat]

VARIABLES
    client,             \* the client that is called
    totals,             \* its answers tell how many rows there are
    clock,              \* Date.now(), in seconds
    listing,            \* rows of the provider's listing, in its order
    tokens,             \* tokens issued: expiresIn, and until when they are accepted
    revoked,            \* those no longer accepted for another reason
    tokenCache,         \* PhotonPay: the cached token and expiresAt, or None
    tokenRequest,       \* PhotonPay: the caller whose token request is in flight, or None
    call,               \* per caller, its listing
    calls               \* listings begun

fixedVars == <<client, totals>>
providerVars == <<fixedVars, clock, listing, tokens, revoked>>
callVars == <<providerVars, tokenCache, tokenRequest, call, calls>>

REQUEST_TIMEOUT == 30

ClientLists == [photonpay |-> {"cards", "transactions", "detail"},
                airwallex |-> {"cards", "holders", "transactions"},
                cake |-> {"report"}, everflow |-> {"report"}]
ReplyKinds == {"none", "rows", "odd", "invalid", "invalid_code"} \cup Interruptions
Steps == {"idle", "requesting", "joined", "login", "sent", "ended"}
NoReply == [kind |-> "none", rows |-> {}, total |-> None, token |-> None]

Idle == [list |-> None, step |-> "idle", again |-> FALSE, token |-> None,
         page |-> 0, known |-> {}, read |-> {}, refused |-> {}, odd |-> FALSE,
         reply |-> NoReply, late |-> FALSE, waits |-> None, result |-> None]

RowSet == {listing[i] : i \in DOMAIN listing}

CallsInit ==
    /\ client \in CalledClients
    /\ totals \in BOOLEAN
    /\ clock = 0
    /\ listing = [i \in 1 .. RowsAtStart |-> i]
    /\ tokens = <<>>
    /\ revoked = {}
    /\ tokenCache = None
    /\ tokenRequest = None
    /\ call = [c \in Callers |-> Idle]
    /\ calls = 0

-----------------------------------------------------------------------------
(* Errors *)

\* Category of what stopped a call.  An invalid token is told by the status 401 or by the
\* code 1002 of an answer with status 200; a body that breaks off is no ProviderRequestError.
errorCategory(kind) ==
    CASE kind \in {"invalid", "forbidden"} -> "CREDENTIAL_INVALID"
      [] kind = "timeout" -> "TIMEOUT"
      [] kind = "network" -> "NETWORK_ERROR"
      [] kind = "limited" -> "RATE_LIMITED"
      [] kind = "unavailable" -> "PROVIDER_5XX"
      [] OTHER -> "BUSINESS_REJECTED"

isInvalidAccessToken(kind) == kind \in {"invalid", "invalid_code"}

\* A token request says instead that the credential is invalid, unless it failed before
\* there was an answer with status 200; so does an Airwallex login, if there is no token in it.
tokenErrorCategory(kind) ==
    IF kind = "odd" \/ (client = "photonpay" /\ kind \in {"cut", "code"}) THEN "CREDENTIAL_INVALID" ELSE errorCategory(kind)

\* An ended call keeps how it ended, and of the rows it knew of those it did not read.
Ended(k, result) ==
    [k EXCEPT !.step = "ended", !.result = result, !.token = None, !.page = 0,
              !.known = @ \ k.read, !.read = {}, !.late = FALSE, !.waits = None, !.again = FALSE,
              !.reply = [NoReply EXCEPT !.kind = k.reply.kind]]

Send(k, token) == [k EXCEPT !.step = "sent", !.token = token, !.reply = NoReply,
                            !.late = FALSE, !.waits = None]
-----------------------------------------------------------------------------
(* PhotonPay access tokens *)

Least(a, b) == IF a < b THEN a ELSE b
Greatest(a, b) == IF a > b THEN a ELSE b

\* How long a token is kept: it is renewed a tenth of its life early, but at least one
\* minute and at most five.
cacheLifetime(expiresIn) ==
    Greatest(1, expiresIn - Least(300, Greatest(60, expiresIn \div 10)))

\* variant: every caller without a token asks for one
AskAlone(c, k, forceRefresh) ==
    LET cached == ~ forceRefresh /\ tokenCache # None /\ tokenCache.expiresAt > clock IN
    \/ /\ cached
       /\ call' = [call EXCEPT ![c] = Send(k, tokenCache.token)]
       /\ UNCHANGED <<tokenCache, tokenRequest>>
    \/ /\ ~ cached
       /\ call' = [call EXCEPT ![c] = [Send(k, None) EXCEPT !.step = "requesting"]]
       /\ tokenRequest' = c
       /\ tokenCache' = IF forceRefresh THEN None ELSE tokenCache

\* A cached token, the one of the request in flight, or a new request: caller c goes on with k.
accessToken(c, k, forceRefresh) ==
    LET cached == ~ forceRefresh /\ tokenCache # None /\ tokenCache.expiresAt > clock IN
    \/ /\ cached
       /\ call' = [call EXCEPT ![c] = Send(k, tokenCache.token)]
       /\ UNCHANGED <<tokenCache, tokenRequest>>
    \/ /\ ~ cached
       /\ tokenCache' = IF forceRefresh THEN None ELSE tokenCache
       /\ \/ /\ tokenRequest # None
             /\ call' = [call EXCEPT ![c] =
                            [Send(k, None) EXCEPT !.step = "joined", !.waits = tokenRequest]]
             /\ UNCHANGED tokenRequest
          \/ /\ tokenRequest = None
             /\ call' = [call EXCEPT ![c] = [Send(k, None) EXCEPT !.step = "requesting"]]
             /\ tokenRequest' = c

Waiting(c) == {d \in Callers : call[d].step = "joined" /\ call[d].waits = c}

\* variant: a request that failed stays the one in flight
FailedStaysInFlight(c) == IF call[c].reply.kind = "rows" THEN None ELSE tokenRequest

\* The finally clause of accessToken.
requestDone(c) == IF tokenRequest = c THEN None ELSE tokenRequest

\* The answer to the token request of c reaches c and everyone who waits with it.
requestAccessToken(c) ==
    LET k == call[c]
        all == Waiting(c) \cup {c}
        token == k.reply.token
        With(d) == IF token = None
                   THEN Ended([call[d] EXCEPT !.reply = k.reply], tokenErrorCategory(k.reply.kind))
                   ELSE Send(call[d], token)
    IN  /\ k.step = "requesting" /\ k.reply.kind # "none"
        /\ tokenCache' = IF token = None THEN tokenCache
                         ELSE [token |-> token,
                               expiresAt |-> clock + cacheLifetime(tokens[token].expiresIn)]
        /\ tokenRequest' = requestDone(c)
        /\ call' = [d \in Callers |-> IF d \in all THEN With(d) ELSE call[d]]
        /\ UNCHANGED <<providerVars, calls>>

\* The second attempt of authorizedGet; the refused token is dropped.
RetryOnce(c, k) == accessToken(c, [k EXCEPT !.again = TRUE], TRUE)
-----------------------------------------------------------------------------
(* Listings *)

\* One request of a listing, with a token where the provider wants one.
Ask(c, k) ==
    CASE client = "photonpay" -> accessToken(c, k, FALSE)
      [] client = "airwallex" ->
            /\ call' = [call EXCEPT ![c] = IF k.token # None THEN Send(k, k.token)
                                           ELSE [Send(k, None) EXCEPT !.step = "login"]]
            /\ UNCHANGED <<tokenCache, tokenRequest>>
      [] OTHER -> /\ call' = [call EXCEPT ![c] = Send(k, None)]
                  /\ UNCHANGED <<tokenCache, tokenRequest>>

\* PhotonPay counts pages from one, Airwallex from zero.
FirstPage == IF client = "airwallex" THEN 0 ELSE 1

StartListing(c, list) ==
    /\ call[c].step \in {"idle", "ended"}
    /\ calls < MaxCalls
    /\ calls' = calls + 1
    /\ Ask(c, [Idle EXCEPT !.list = list, !.page = FirstPage, !.known = RowSet])
    /\ UNCHANGED providerVars

Paged(k) == client \in {"photonpay", "airwallex"} /\ k.list # "detail"

\* By the total when the answer has one, else whether the page is full.
hasMore(k) ==
    IF k.reply.total = None THEN Cardinality(k.reply.rows) >= RowsPerPage
    ELSE (IF client = "airwallex" THEN k.page + 1 ELSE k.page) * RowsPerPage < k.reply.total

LastPage(k) == k.page = PageLimit - 1

\* The inventory of cards stops with an error at its page limit, the one of the holders
\* without; transactions have no limit.
exceedsSafetyLimit(k) == k.list = "cards" /\ LastPage(k)

\* A page has arrived: read the next one, or end.
TakePage(c) ==
    LET k == call[c]
        read == [k EXCEPT !.read = @ \cup k.reply.rows]
        more == Paged(k) /\ hasMore(k) /\ k.reply.rows # {}
        next == [read EXCEPT !.page = @ + 1, !.again = FALSE, !.refused = {}]
    IN  /\ k.step = "sent" /\ k.reply.kind = "rows"
        /\ \/ /\ more /\ ~ exceedsSafetyLimit(k) /\ ~ (k.list = "holders" /\ LastPage(k))
              /\ Ask(c, next)
           \/ /\ more /\ exceedsSafetyLimit(k)
              /\ call' = [call EXCEPT ![c] = Ended(read, "BUSINESS_REJECTED")]
              /\ UNCHANGED <<tokenCache, tokenRequest>>
           \/ /\ ~ more \/ (k.list = "holders" /\ LastPage(k))
              /\ call' = [call EXCEPT ![c] = Ended(read, "completed")]
              /\ UNCHANGED <<tokenCache, tokenRequest>>
        /\ UNCHANGED <<providerVars, calls>>

\* An answer of an unknown shape holds no rows, and the listing ends there.
TakeOdd(c) ==
    /\ call[c].step = "sent" /\ call[c].reply.kind = "odd"
    /\ call' = [call EXCEPT ![c] = Ended([@ EXCEPT !.odd = TRUE], "completed")]
    /\ UNCHANGED <<tokenCache, tokenRequest, providerVars, calls>>

\* Only PhotonPay's client replaces a refused token, once for each request.
TakeError(c) ==
    LET k == call[c]
        kind == k.reply.kind
        noted == IF isInvalidAccessToken(kind) THEN [k EXCEPT !.refused = @ \cup {k.token}] ELSE k
        retried == client = "photonpay" /\ ~ k.again /\ isInvalidAccessToken(kind)
    IN  /\ k.step = "sent" /\ kind \notin {"none", "rows", "odd"}
        /\ \/ retried /\ RetryOnce(c, noted)
           \/ /\ ~ retried
              /\ call' = [call EXCEPT ![c] = Ended(noted, errorCategory(kind))]
              /\ UNCHANGED <<tokenCache, tokenRequest>>
        /\ UNCHANGED <<providerVars, calls>>

\* An Airwallex login: its token is kept with the credential object of the caller.
login(c) ==
    LET k == call[c] IN
    /\ k.step = "login" /\ k.reply.kind # "none"
    /\ call' = [call EXCEPT ![c] = IF k.reply.token = None THEN Ended(k, tokenErrorCategory(k.reply.kind))
                                   ELSE Send(k, k.reply.token)]
    /\ UNCHANGED <<tokenCache, tokenRequest, providerVars, calls>>
-----------------------------------------------------------------------------
(* Providers and time *)

Asked(c) == call[c].step \in {"requesting", "login", "sent"} /\ call[c].reply.kind = "none"

Accepted(t) == t \notin revoked /\ clock < tokens[t].until

Offset(k) == (k.page - FirstPage) * RowsPerPage

PageRows(k) ==
    IF ~ Paged(k) THEN RowSet
    ELSE {listing[i] : i \in (Offset(k) + 1) .. Least(Offset(k) + RowsPerPage, Len(listing))}

Reply(c, kind, rows, total, token) ==
    call' = [call EXCEPT ![c].reply = [kind |-> kind, rows |-> rows, total |-> total, token |-> token]]

AnswerRows(c) ==
    /\ call[c].step = "sent" /\ Asked(c)
    /\ call[c].token # None => Accepted(call[c].token)
    /\ Reply(c, "rows", PageRows(call[c]), IF totals THEN Len(listing) ELSE None, None)
    /\ UNCHANGED <<providerVars, tokenCache, tokenRequest, calls>>

AnswerInvalid(c) ==
    /\ call[c].step = "sent" /\ Asked(c)
    /\ call[c].token # None /\ ~ Accepted(call[c].token)
    /\ \E kind \in IF client = "photonpay" THEN {"invalid", "invalid_code"} ELSE {"invalid"} :
          Reply(c, kind, {}, None, None)
    /\ UNCHANGED <<providerVars, tokenCache, tokenRequest, calls>>

AnswerFailure(c) ==
    /\ Asked(c)
    /\ \E kind \in Interruptions \cup {"odd"} : Reply(c, kind, {}, None, None)
    /\ UNCHANGED <<providerVars, tokenCache, tokenRequest, calls>>

AnswerToken(c) ==
    /\ call[c].step \in {"requesting", "login"} /\ Asked(c)
    /\ Len(tokens) < MaxTokens
    /\ \E life \in Lives : tokens' = Append(tokens, [expiresIn |-> life, until |-> clock + life])
    /\ Reply(c, "rows", {}, None, Len(tokens) + 1)
    /\ UNCHANGED <<fixedVars, clock, listing, revoked, tokenCache, tokenRequest, calls>>

Answer(c) == AnswerRows(c) \/ AnswerInvalid(c) \/ AnswerFailure(c) \/ AnswerToken(c)

\* The provider stops accepting a token before its time.
Revoke(t) ==
    /\ t \notin revoked
    /\ Cardinality(revoked) < MaxRevoked
    /\ revoked' = revoked \cup {t}
    /\ UNCHANGED <<fixedVars, clock, listing, tokens, tokenCache, tokenRequest, call, calls>>

\* A row enters the listing, anywhere.
AddRow(i) ==
    /\ Len(listing) < MaxRows
    /\ listing' = SubSeq(listing, 1, i) \o <<Len(listing) + 1>> \o SubSeq(listing, i + 1, Len(listing))
    /\ UNCHANGED <<fixedVars, clock, tokens, revoked, tokenCache, tokenRequest, call, calls>>

\* AbortSignal.timeout: nothing that was asked is waited for through a second step.
Tick ==
    /\ clock + REQUEST_TIMEOUT <= MaxClock
    /\ \A c \in Callers : call[c].step \in {"requesting", "login", "sent"} => ~ call[c].late
    /\ clock' = clock + REQUEST_TIMEOUT
    /\ call' = [c \in Callers |-> IF call[c].step \in {"requesting", "login", "sent"}
                                  THEN [call[c] EXCEPT !.late = TRUE] ELSE call[c]]
    /\ UNCHANGED <<fixedVars, listing, tokens, revoked, tokenCache, tokenRequest, calls>>

Receive(c) == requestAccessToken(c) \/ login(c) \/ TakePage(c) \/ TakeOdd(c) \/ TakeError(c)

CallsNext ==
    \/ \E c \in Callers : \/ \E list \in ClientLists[client] : StartListing(c, list)
                          \/ Answer(c)
                          \/ Receive(c)
    \/ \E t \in DOMAIN tokens : Revoke(t)
    \/ \E i \in 0 .. Len(listing) : AddRow(i)
    \/ Tick

\* A request is answered or given up, and the process handles what has arrived.
CallFairness == \A c \in Callers : WF_callVars(Answer(c)) /\ WF_callVars(Receive(c))

CallsSpec == CallsInit /\ [][CallsNext]_callVars /\ CallFairness
-----------------------------------------------------------------------------
NumberOr(x, S) == x = None \/ x \in S

\* The values of the variables, and who waits for whom: a request in flight belongs to a
\* caller that makes it, and so does the request a caller has joined.
CallsTypeOK ==
    /\ clock \in 0 .. MaxClock
    /\ RowSet \subseteq 1 .. MaxRows
    /\ DOMAIN tokens \subseteq 1 .. MaxTokens
    /\ revoked \subseteq DOMAIN tokens
    /\ tokenCache # None => tokenCache.token \in DOMAIN tokens
    /\ tokenRequest # None => call[tokenRequest].step = "requesting"
    /\ \A c \in Callers :
          /\ call[c].step \in Steps
          /\ call[c].reply.kind \in ReplyKinds
          /\ NumberOr(call[c].token, DOMAIN tokens)
          /\ call[c].step = "joined" => call[call[c].waits].step = "requesting"
          /\ call[c].step = "ended" <=> call[c].result \in Results

\* The process asks PhotonPay for one token at a time, however many callers need one and
\* whichever of them was just refused.
OneTokenRequest == Cardinality({c \in Callers : call[c].step = "requesting"}) <= 1

\* A PhotonPay call gives up for its token only after the provider has refused two
\* different ones: a caller never goes back to the token that was refused, whatever other
\* callers cache meanwhile.
TwoTokensRefused ==
    \A c \in Callers :
       client = "photonpay" /\ call[c].step = "ended" /\ isInvalidAccessToken(call[c].reply.kind)
          /\ call[c].refused # {}
       => Cardinality(call[c].refused) = 2

\* A token is dropped from the cache before the provider lets it expire, however late its
\* answer came, if it lives for longer than a request may take.
CachedTokensAreAlive ==
    tokenCache # None /\ tokenCache.expiresAt > clock /\ tokens[tokenCache.token].expiresIn > REQUEST_TIMEOUT
    => clock < tokens[tokenCache.token].until

\* A listing that completes has read every row that was there when it began, although rows
\* enter anywhere between two pages and pages are counted differently.  The holders are
\* cut at the page limit, and an answer of an unknown shape ends a listing.
CompletedListingsAreWhole ==
    \A c \in Callers :
       call[c].step = "ended" /\ call[c].result = "completed" /\ ~ call[c].odd /\ call[c].list # "holders"
       => call[c].known = {}

\* Every call ends: nobody waits for a request that is over.
CallsEnd == \A c \in Callers : [](call[c].step \notin {"idle", "ended"} => <>(call[c].step \in {"idle", "ended"}))

\* What holds between the callers of the clients: tokens are shared, replaced and
\* dropped in time, nobody waits for a request that is over, and listings are whole.
CallsInv ==
    /\ CallsTypeOK
    /\ OneTokenRequest
    /\ TwoTokensRefused
    /\ CachedTokensAreAlive
    /\ CompletedListingsAreWhole
=============================================================================
