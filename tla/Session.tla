------------------------------- MODULE Session -------------------------------
(***************************************************************************)
(* The signed-in session of a browser (auth.ts, proxy.ts) over the backend's *)
(* rotation of refresh tokens (core/security.py).                          *)
(*                                                                         *)
(* The session is a cookie that holds a pair of tokens.  auth() decodes the *)
(* cookie of a request as it was when it was sent and, when the access     *)
(* token is about to expire, exchanges the pair for a new one.  The proxy  *)
(* calls it, and its answer sets the cookie to what the call ended with,   *)
(* whatever it has become in the meantime.  The layouts, the page and the  *)
(* route handler behind the proxy call it again, with the cookie the       *)
(* request was sent with: what these calls end with is not kept.           *)
(*                                                                         *)
(* A refresh token is accepted once: the backend looks at the blacklist,   *)
(* then adds the token to it, then reloads the account, then issues the    *)
(* new pair.                                                               *)
(***************************************************************************)
EXTENDS Naturals, FiniteSets

CONSTANTS
    Calls,            \* calls of auth() at a time
    Pairs, NoPair     \* token pairs; bounds how many are issued

ASSUME SessionAssumption == NoPair \notin Pairs

VARIABLES
    cookie,       \* the session cookie in the browser
    part,         \* where each call is made: see Parts
    sent,         \* the pair the request of each call was sent with
    held,         \* the session each call works with
    step,         \* where each call is
    expiring,     \* pairs whose access token is within a minute of its end
    blacklist,    \* pairs whose refresh token was used (Redis)
    issued,       \* pairs issued so far
    heir,         \* history: the pairs issued in exchange for each pair
    active,       \* the account is active
    failedPairs,  \* history: pairs whose exchange or its answer failed
    crossedPairs, \* history: pairs exchanged while another call carried them
    thrownPairs   \* history: pairs exchanged by a call whose outcome is not kept

sessionVars == <<cookie, part, sent, held, step, expiring, blacklist, issued, heir, active,
                 failedPairs, crossedPairs, thrownPairs>>
browserVars == <<cookie, part, sent>>
backendVars == <<expiring, blacklist, issued, heir, active>>
historyVars == <<failedPairs, crossedPairs, thrownPairs>>

-----------------------------------------------------------------------------
\* "error" is a session whose renewal failed; it stays so until the next login.
Signed == [state : {"out", "in", "error"}, pair : Pairs \cup {NoPair}]

Out == [state |-> "out", pair |-> NoPair]
In(p) == [state |-> "in", pair |-> p]
Error == [state |-> "error", pair |-> NoPair]

\* "page": a layout, a page or a route handler.  An "echo" is such a call of a
\* request whose proxy has exchanged the pair.
Parts == {"proxy", "page", "echo"}

Steps == {"idle", "called", "verified", "blacklisted", "answered"}

SessionTypeOK ==
    /\ cookie \in Signed
    /\ part \in [Calls -> Parts]
    /\ sent \in [Calls -> Pairs \cup {NoPair}]
    /\ held \in [Calls -> Signed]
    /\ step \in [Calls -> Steps]
    /\ expiring \in SUBSET Pairs
    /\ blacklist \in SUBSET Pairs
    /\ issued \in SUBSET Pairs
    /\ heir \in [Pairs -> SUBSET Pairs]
    /\ active \in BOOLEAN
    /\ failedPairs \in SUBSET Pairs
    /\ crossedPairs \in SUBSET Pairs
    /\ thrownPairs \in SUBSET Pairs

SessionInit ==
    /\ cookie = Out
    /\ part = [r \in Calls |-> "proxy"]
    /\ sent = [r \in Calls |-> NoPair]
    /\ held = [r \in Calls |-> Out]
    /\ step = [r \in Calls |-> "idle"]
    /\ expiring = {}
    /\ blacklist = {}
    /\ issued = {}
    /\ heir = [p \in Pairs |-> {}]
    /\ active = TRUE
    /\ failedPairs = {}
    /\ crossedPairs = {}
    /\ thrownPairs = {}

-----------------------------------------------------------------------------
\* authorize and the first call of the jwt callback.
Login(p) ==
    /\ active
    /\ cookie.state # "in"
    /\ p \notin issued
    /\ issued' = issued \cup {p}
    /\ cookie' = In(p)
    /\ UNCHANGED <<part, sent, held, step, expiring, blacklist, heir, active, historyVars>>

\* signOut drops the cookie; no token is revoked.
Logout ==
    /\ cookie.state # "out"
    /\ cookie' = Out
    /\ UNCHANGED <<part, sent, held, step, backendVars, historyVars>>

\* Another call was sent with the pair and has not ended.
CarriedBy(r, p) == \E q \in Calls \ {r} : step[q] # "idle" /\ sent[q] = p

\* A request is sent: for a page or an API behind the proxy, for the session poll
\* of the open page, which sets the cookie as the proxy does, or for a page that
\* the proxy does not match and that calls auth() itself.
SendRequest(r) ==
    /\ step[r] = "idle"
    /\ cookie.state # "out"
    /\ \E where \in {"proxy", "page"} : part' = [part EXCEPT ![r] = where]
    /\ sent' = [sent EXCEPT ![r] = cookie.pair]
    /\ held' = [held EXCEPT ![r] = cookie]
    /\ step' = [step EXCEPT ![r] = "called"]
    /\ crossedPairs' = IF cookie.pair \in blacklist /\ CarriedBy(r, cookie.pair)
                       THEN crossedPairs \cup {cookie.pair} ELSE crossedPairs
    /\ UNCHANGED <<cookie, backendVars, failedPairs, thrownPairs>>

\* The proxy lets the request of call q pass, and a layout, the page or the route
\* handler calls auth() with the cookie it was sent with.
CallAgain(q, r) ==
    /\ step[q] = "answered" /\ part[q] = "proxy" /\ held[q].state = "in"
    /\ step[r] = "idle"
    /\ part' = [part EXCEPT ![r] = IF held[q].pair = sent[q] THEN "page" ELSE "echo"]
    /\ sent' = [sent EXCEPT ![r] = sent[q]]
    /\ held' = [held EXCEPT ![r] = In(sent[q])]
    /\ step' = [step EXCEPT ![r] = "called"]
    /\ UNCHANGED <<cookie, backendVars, historyVars>>

EndsWith(r, outcome) ==
    /\ held' = [held EXCEPT ![r] = outcome]
    /\ step' = [step EXCEPT ![r] = "answered"]

\* The jwt callback: a session with an error stays as it is, and so does one
\* whose access token has more than a minute to live.
Keep(r) ==
    /\ step[r] = "called"
    /\ held[r].state = "error" \/ held[r].pair \notin expiring
    /\ EndsWith(r, held[r])
    /\ UNCHANGED <<browserVars, backendVars, historyVars>>

Renewing(r) == step[r] = "called" /\ held[r].state = "in" /\ held[r].pair \in expiring

\* verify_token: the blacklist is read.
Verify(r) ==
    /\ Renewing(r)
    /\ held[r].pair \notin blacklist
    /\ step' = [step EXCEPT ![r] = "verified"]
    /\ UNCHANGED <<browserVars, held, backendVars, historyVars>>

\* Mutant: the used token is not put on the blacklist.
BlacklistedNothing(r) == blacklist

Blacklisted(r) == blacklist \cup {held[r].pair}

Blacklist(r) ==
    /\ step[r] = "verified"
    /\ blacklist' = Blacklisted(r)
    /\ step' = [step EXCEPT ![r] = "blacklisted"]
    /\ crossedPairs' = IF CarriedBy(r, sent[r]) THEN crossedPairs \cup {sent[r]} ELSE crossedPairs
    /\ UNCHANGED <<browserVars, held, expiring, issued, heir, active, failedPairs, thrownPairs>>

\* Mutant: only the access token of the answer is kept, not the refresh token.
RenewedInPart(r, p) == In(sent[r])

Renewed(r, p) == In(p)

\* The account is reloaded and a new pair issued.
Issue(r, p) ==
    /\ step[r] = "blacklisted"
    /\ active
    /\ p \notin issued
    /\ issued' = issued \cup {p}
    /\ heir' = [heir EXCEPT ![sent[r]] = @ \cup {p}]
    /\ EndsWith(r, Renewed(r, p))
    /\ thrownPairs' = IF part[r] = "proxy" THEN thrownPairs ELSE thrownPairs \cup {sent[r]}
    /\ UNCHANGED <<browserVars, expiring, blacklist, active, failedPairs, crossedPairs>>

\* 401: the refresh token was used before, or the account is inactive.  The
\* callback drops the tokens and the session has an error.
Reject(r) ==
    /\ \/ Renewing(r) /\ held[r].pair \in blacklist
       \/ step[r] = "blacklisted" /\ ~active
    /\ EndsWith(r, Error)
    /\ UNCHANGED <<browserVars, backendVars, historyVars>>

\* The backend cannot be reached, answers with an error, or its answer is lost:
\* the same catch.
BackendFails(r) ==
    /\ Renewing(r) \/ step[r] \in {"verified", "blacklisted"}
    /\ EndsWith(r, Error)
    /\ failedPairs' = failedPairs \cup {sent[r]}
    /\ UNCHANGED <<browserVars, backendVars, crossedPairs, thrownPairs>>

Ended(r) ==
    /\ part' = [part EXCEPT ![r] = "proxy"]
    /\ step' = [step EXCEPT ![r] = "idle"]
    /\ sent' = [sent EXCEPT ![r] = NoPair]
    /\ held' = [held EXCEPT ![r] = Out]

\* The answer sets the cookie to what the proxy ended with; the redirect of a
\* page without a valid session drops it.
Respond(r) ==
    /\ step[r] = "answered" /\ part[r] = "proxy"
    /\ \/ cookie' = held[r]
       \/ held[r].state = "error" /\ cookie' = Out
    /\ Ended(r)
    /\ UNCHANGED <<backendVars, historyVars>>

\* The browser never gets the answer.
DropAnswer(r) ==
    /\ step[r] = "answered" /\ part[r] = "proxy"
    /\ failedPairs' = IF held[r].state = "in" /\ held[r].pair # sent[r]
                      THEN failedPairs \cup {sent[r]} ELSE failedPairs
    /\ Ended(r)
    /\ UNCHANGED <<cookie, backendVars, crossedPairs, thrownPairs>>

\* A layout, a page or a route handler goes on with what its call ended with;
\* without a session it redirects to /login or answers 401.  The cookie stays.
Return(r) ==
    /\ step[r] = "answered" /\ part[r] # "proxy"
    /\ Ended(r)
    /\ UNCHANGED <<cookie, backendVars, historyVars>>

Expire(p) ==
    /\ p \in issued
    /\ expiring' = expiring \cup {p}
    /\ UNCHANGED <<browserVars, held, step, blacklist, issued, heir, active, historyVars>>

Deactivate ==
    /\ active' = FALSE
    /\ UNCHANGED <<browserVars, held, step, expiring, blacklist, issued, heir, historyVars>>

SessionNext ==
    \/ Logout \/ Deactivate
    \/ \E p \in Pairs : Login(p) \/ Expire(p)
    \/ \E r \in Calls :
        \/ SendRequest(r) \/ (\E q \in Calls : CallAgain(q, r)) \/ Keep(r) \/ Verify(r) \/ Blacklist(r)
        \/ \E p \in Pairs : Issue(r, p)
        \/ Reject(r) \/ BackendFails(r) \/ Respond(r) \/ DropAnswer(r) \/ Return(r)

SessionSpec == SessionInit /\ [][SessionNext]_sessionVars

-----------------------------------------------------------------------------
\* What may have come between a pair and its use.
Spoilt == failedPairs \cup crossedPairs \cup thrownPairs

\* auth() ends in "RefreshTokenError", and the user at the login page, only
\* because the account was deactivated or because the exchange of that very pair
\* failed, was carried out while another call carried the pair, or was carried out
\* by a page, which loses the new pair.  The other calls of a request whose proxy
\* renewed the session end so every time, but never end the session itself: an
\* error in the cookie has one of the other causes.
SessionLostForCause ==
    active =>
        /\ \A r \in Calls : held[r].state = "error" /\ sent[r] # NoPair =>
            sent[r] \in Spoilt \/ part[r] = "echo"
        /\ cookie.state = "error" => Spoilt # {}

\* A refresh token is good for one pair (security.py, rotate_refresh_token:
\* "Safely rotates a refresh token"); two calls that pass the blacklist together
\* are the only way to two.
OneHeirUnlessCrossed ==
    \A p \in Pairs : Cardinality(heir[p]) > 1 => p \in crossedPairs
=============================================================================
