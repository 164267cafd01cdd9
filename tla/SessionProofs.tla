---------------------------- MODULE SessionProofs ----------------------------
(***************************************************************************)
(* Proofs about Session.                                                   *)
(***************************************************************************)
EXTENDS Session, FiniteSetTheorems, TLAPS

-----------------------------------------------------------------------------
(* The inductive invariant. *)

Carries(r, p) == step[r] # "idle" /\ sent[r] = p

\* What the steps of a call say of its session.
RequestsHold ==
    \A r \in Calls :
        /\ step[r] = "called" => held[r].pair = sent[r]
        /\ step[r] \in {"verified", "blacklisted"} =>
            held[r].state = "in" /\ held[r].pair = sent[r] /\ sent[r] \in issued
        /\ step[r] # "idle" => sent[r] \in issued \cup {NoPair} /\ held[r].state # "out"
        /\ step[r] # "idle" /\ held[r].state = "in" => sent[r] \in issued
        /\ step[r] = "idle" => held[r] = Out
        /\ held[r].state = "in" => held[r].pair \in issued
        /\ held[r].state # "in" => held[r].pair = NoPair

PairsKnown ==
    /\ cookie.state = "in" => cookie.pair \in issued
    /\ cookie.state # "in" => cookie.pair = NoPair
    /\ blacklist \subseteq issued

\* A pair that was never crossed is exchanged by one call at a time.
OneExchange ==
    \A p \in Pairs :
        p \notin crossedPairs =>
            /\ \A q, h \in heir[p] : q = h
            /\ p \in blacklist => \A r \in Calls : ~(step[r] = "verified" /\ sent[r] = p)
            /\ p \notin blacklist =>
                /\ heir[p] = {}
                /\ \A r \in Calls : ~(step[r] = "blacklisted" /\ sent[r] = p)
            /\ \A r \in Calls : step[r] = "blacklisted" /\ sent[r] = p =>
                /\ heir[p] = {}
                /\ \A q \in Calls : Carries(q, p) => q = r

\* A new pair is with the call it was issued to until that ends, and nowhere else.
NewPair(r) == step[r] = "answered" /\ held[r].state = "in" /\ held[r].pair # sent[r]

NewPairsApart ==
    \A r \in Calls : NewPair(r) =>
        /\ held[r].pair \notin blacklist
        /\ cookie.pair # held[r].pair
        /\ \A q \in Calls : step[q] # "idle" => sent[q] # held[r].pair
        /\ \A q \in Calls : q # r /\ NewPair(q) => held[q].pair # held[r].pair

\* A used pair of which nothing went wrong is about to be replaced in the browser.
Exchanging(r) == step[r] = "blacklisted" \/ (NewPair(r) /\ part[r] = "proxy")

UsedInCookie ==
    cookie.pair \in blacklist /\ cookie.pair \notin Spoilt =>
        \E r \in Calls : Carries(r, cookie.pair) /\ Exchanging(r)

UsedInCalls ==
    \A r \in Calls :
        /\ step[r] # "idle" /\ part[r] # "echo"
        /\ sent[r] \in blacklist /\ sent[r] \notin Spoilt
        => Exchanging(r)

\* Every error has its cause.
ErrorsExplained ==
    /\ \A r \in Calls : held[r].state = "error" =>
        IF sent[r] = NoPair THEN Spoilt # {} ELSE sent[r] \in Spoilt \/ part[r] = "echo"
    /\ cookie.state = "error" => Spoilt # {}

SessionHolds == active => ErrorsExplained /\ UsedInCookie /\ UsedInCalls

SessionInv ==
    SessionTypeOK /\ RequestsHold /\ PairsKnown /\ OneExchange /\ NewPairsApart /\ SessionHolds

-----------------------------------------------------------------------------
(* Types, and what the steps of a call do. *)

LEMMA PairTypes ==
    /\ Out \in Signed /\ Error \in Signed
    /\ \A p \in Pairs : In(p) \in Signed
BY DEF Out, Error, In, Signed

LEMMA Fields ==
    /\ Out.state = "out" /\ Out.pair = NoPair
    /\ Error.state = "error" /\ Error.pair = NoPair
    /\ \A p : In(p).state = "in" /\ In(p).pair = p
BY DEF Out, Error, In

LEMMA SessionTypeInit == SessionInit => SessionTypeOK
BY PairTypes DEF SessionInit, SessionTypeOK, Steps, Parts

LEMMA Tokens ==
    ASSUME SessionTypeOK
    PROVE  /\ cookie.state \in {"out", "in", "error"} /\ cookie.pair \in Pairs \cup {NoPair}
           /\ \A r \in Calls : /\ part[r] \in Parts
                               /\ sent[r] \in Pairs \cup {NoPair}
                               /\ held[r] \in Signed
                               /\ held[r].state \in {"out", "in", "error"}
                               /\ held[r].pair \in Pairs \cup {NoPair}
                               /\ step[r] \in Steps
           /\ NoPair \notin Pairs
           /\ issued \subseteq Pairs /\ blacklist \subseteq Pairs
BY SessionAssumption DEF SessionTypeOK, Signed

LEMMA SessionTypeStep == SessionTypeOK /\ RequestsHold /\ [SessionNext]_sessionVars => SessionTypeOK'
<1> SUFFICES ASSUME SessionTypeOK, RequestsHold, [SessionNext]_sessionVars PROVE SessionTypeOK'
    OBVIOUS
<1> USE DEF SessionTypeOK, browserVars, backendVars, historyVars, Steps, Parts
<1>1. ASSUME NEW p \in Pairs, Login(p) \/ Expire(p) PROVE SessionTypeOK'
    BY <1>1, PairTypes DEF Login, Expire
<1>2. CASE Logout \/ Deactivate
    BY <1>2, PairTypes DEF Logout, Deactivate
<1>3. ASSUME NEW r \in Calls, SendRequest(r) PROVE SessionTypeOK'
  <2>1. cookie.pair \in Pairs \cup {NoPair} /\ \A p \in blacklist : p \in Pairs
      BY Tokens
  <2> QED BY <1>3, <2>1 DEF SendRequest
<1>4. ASSUME NEW q \in Calls, NEW r \in Calls, CallAgain(q, r) PROVE SessionTypeOK'
  <2>1. sent[q] \in Pairs
      BY <1>4, Tokens DEF CallAgain, RequestsHold
  <2>2. In(sent[q]) \in Signed
      BY <2>1, PairTypes
  <2> QED BY <1>4, <2>1, <2>2 DEF CallAgain
<1>5. ASSUME NEW r \in Calls, Keep(r) \/ Verify(r) \/ Reject(r) \/ BackendFails(r) PROVE SessionTypeOK'
  <2>1. held[r] \in Signed
      OBVIOUS
  <2>2. CASE Keep(r)
      BY <2>1, <2>2 DEF Keep, EndsWith
  <2>3. CASE Verify(r)
      BY <2>3 DEF Verify
  <2>4. CASE Reject(r)
      BY <2>4, PairTypes DEF Reject, EndsWith
  <2>5. CASE BackendFails(r)
    <3>1. sent[r] \in Pairs
        BY <2>5, Tokens DEF BackendFails, Renewing, RequestsHold
    <3> QED BY <2>5, <3>1, PairTypes DEF BackendFails, EndsWith
  <2> QED BY <1>5, <2>2, <2>3, <2>4, <2>5
<1>6. ASSUME NEW r \in Calls, Blacklist(r) PROVE SessionTypeOK'
  <2>1. held[r].pair \in Pairs /\ sent[r] \in Pairs
      BY <1>6, SessionAssumption DEF Blacklist, RequestsHold
  <2> QED BY <1>6, <2>1 DEF Blacklist, Blacklisted
<1>7. ASSUME NEW r \in Calls, NEW p \in Pairs, Issue(r, p) PROVE SessionTypeOK'
  <2>1. sent[r] \in Pairs
      BY <1>7 DEF Issue, RequestsHold
  <2> QED BY <1>7, <2>1, PairTypes DEF Issue, Renewed, EndsWith
<1>8. ASSUME NEW r \in Calls, Respond(r) \/ DropAnswer(r) \/ Return(r) PROVE SessionTypeOK'
  <2>1. held[r] \in Signed
      OBVIOUS
  <2>2. cookie' \in Signed
      BY <1>8, <2>1, PairTypes DEF Respond, DropAnswer, Return
  <2>3. failedPairs' \in SUBSET Pairs
    <3>1. CASE DropAnswer(r) /\ held[r].state = "in"
      <4>1. sent[r] \in Pairs
          BY <3>1, Tokens DEF DropAnswer, RequestsHold
      <4> QED BY <3>1, <4>1 DEF DropAnswer
    <3> QED BY <1>8, <3>1 DEF Respond, DropAnswer, Return
  <2>4. Ended(r) /\ UNCHANGED <<backendVars, crossedPairs, thrownPairs>>
      BY <1>8 DEF Respond, DropAnswer, Return
  <2> QED BY <2>2, <2>3, <2>4, PairTypes DEF Ended
<1>9. CASE UNCHANGED sessionVars
    BY <1>9 DEF sessionVars
<1> QED BY <1>1, <1>2, <1>3, <1>4, <1>5, <1>6, <1>7, <1>8, <1>9 DEF SessionNext

\* r is the only call that moves.
Moves(r, where, to, with, by) ==
    /\ part'[r] = where /\ step'[r] = to /\ held'[r] = with /\ sent'[r] = by
    /\ \A q \in Calls : q # r =>
         part'[q] = part[q] /\ step'[q] = step[q] /\ held'[q] = held[q] /\ sent'[q] = sent[q]

LEMMA LoginDone ==
    ASSUME NEW p \in Pairs, Login(p)
    PROVE  /\ cookie' = In(p) /\ p \notin issued /\ issued' = issued \cup {p}
           /\ UNCHANGED <<part, sent, held, step, blacklist, heir, active, failedPairs, crossedPairs, thrownPairs, Spoilt>>
BY DEF Login, historyVars, Spoilt

LEMMA LogoutDone ==
    ASSUME Logout
    PROVE  /\ cookie' = Out
           /\ UNCHANGED <<part, sent, held, step, blacklist, issued, heir, active, failedPairs, crossedPairs, thrownPairs, Spoilt>>
BY DEF Logout, backendVars, historyVars, Spoilt

LEMMA ExpireDone ==
    ASSUME NEW p \in Pairs, Expire(p)
    PROVE  UNCHANGED <<cookie, part, sent, held, step, blacklist, issued, heir, active, failedPairs, crossedPairs, thrownPairs, Spoilt>>
BY DEF Expire, browserVars, historyVars, Spoilt

LEMMA DeactivateDone ==
    ASSUME Deactivate
    PROVE  /\ ~active'
           /\ UNCHANGED <<cookie, part, sent, held, step, blacklist, issued, heir, failedPairs, crossedPairs, thrownPairs, Spoilt>>
BY DEF Deactivate, browserVars, historyVars, Spoilt

LEMMA SendRequestDone ==
    ASSUME SessionTypeOK, NEW r \in Calls, SendRequest(r)
    PROVE  /\ step[r] = "idle" /\ cookie.state # "out"
           /\ \E where \in {"proxy", "page"} : Moves(r, where, "called", cookie, cookie.pair)
           /\ crossedPairs \subseteq crossedPairs' /\ Spoilt \subseteq Spoilt'
           /\ cookie.pair \in blacklist /\ CarriedBy(r, cookie.pair) =>
                cookie.pair \in crossedPairs' /\ cookie.pair \in Spoilt'
           /\ UNCHANGED <<cookie, blacklist, issued, heir, active, failedPairs, thrownPairs>>
<1>1. PICK where \in {"proxy", "page"} : part' = [part EXCEPT ![r] = where]
    BY DEF SendRequest
<1>2. Moves(r, where, "called", cookie, cookie.pair)
    BY <1>1 DEF SessionTypeOK, SendRequest, Moves
<1> QED BY <1>2 DEF SendRequest, backendVars, Spoilt

LEMMA CallAgainDone ==
    ASSUME SessionTypeOK, NEW q \in Calls, NEW r \in Calls, CallAgain(q, r)
    PROVE  /\ step[q] = "answered" /\ part[q] = "proxy" /\ held[q].state = "in" /\ step[r] = "idle"
           /\ \/ held[q].pair = sent[q] /\ Moves(r, "page", "called", In(sent[q]), sent[q])
              \/ held[q].pair # sent[q] /\ Moves(r, "echo", "called", In(sent[q]), sent[q])
           /\ UNCHANGED <<cookie, blacklist, issued, heir, active, failedPairs, crossedPairs, thrownPairs, Spoilt>>
BY DEF SessionTypeOK, CallAgain, Moves, backendVars, historyVars, Spoilt

LEMMA KeepDone ==
    ASSUME SessionTypeOK, NEW r \in Calls, Keep(r)
    PROVE  /\ step[r] = "called"
           /\ Moves(r, part[r], "answered", held[r], sent[r])
           /\ UNCHANGED <<cookie, blacklist, issued, heir, active, failedPairs, crossedPairs, thrownPairs, Spoilt>>
BY DEF SessionTypeOK, Keep, EndsWith, Moves, browserVars, backendVars, historyVars, Spoilt

LEMMA VerifyDone ==
    ASSUME SessionTypeOK, NEW r \in Calls, Verify(r)
    PROVE  /\ step[r] = "called" /\ held[r].state = "in" /\ held[r].pair \notin blacklist
           /\ Moves(r, part[r], "verified", held[r], sent[r])
           /\ UNCHANGED <<cookie, blacklist, issued, heir, active, failedPairs, crossedPairs, thrownPairs, Spoilt>>
BY DEF SessionTypeOK, Verify, Renewing, Moves, browserVars, backendVars, historyVars, Spoilt

LEMMA BlacklistDone ==
    ASSUME SessionTypeOK, NEW r \in Calls, Blacklist(r)
    PROVE  /\ step[r] = "verified"
           /\ blacklist' = blacklist \cup {held[r].pair}
           /\ Moves(r, part[r], "blacklisted", held[r], sent[r])
           /\ crossedPairs \subseteq crossedPairs' /\ Spoilt \subseteq Spoilt'
           /\ CarriedBy(r, sent[r]) => sent[r] \in crossedPairs' /\ sent[r] \in Spoilt'
           /\ UNCHANGED <<cookie, issued, heir, active, failedPairs, thrownPairs>>
BY DEF SessionTypeOK, Blacklist, Blacklisted, Moves, browserVars, Spoilt

LEMMA IssueDone ==
    ASSUME SessionTypeOK, NEW r \in Calls, NEW p \in Pairs, Issue(r, p), sent[r] \in Pairs
    PROVE  /\ step[r] = "blacklisted" /\ p \notin issued
           /\ issued' = issued \cup {p}
           /\ heir'[sent[r]] = heir[sent[r]] \cup {p}
           /\ \A q \in Pairs : q # sent[r] => heir'[q] = heir[q]
           /\ Moves(r, part[r], "answered", In(p), sent[r])
           /\ Spoilt \subseteq Spoilt'
           /\ part[r] # "proxy" => sent[r] \in Spoilt'
           /\ UNCHANGED <<cookie, blacklist, active, failedPairs, crossedPairs>>
BY DEF SessionTypeOK, Issue, Renewed, EndsWith, Moves, browserVars, Spoilt

LEMMA RejectDone ==
    ASSUME SessionTypeOK, NEW r \in Calls, Reject(r)
    PROVE  /\ \/ step[r] = "called" /\ held[r].state = "in" /\ held[r].pair \in blacklist
              \/ step[r] = "blacklisted" /\ ~active
           /\ Moves(r, part[r], "answered", Error, sent[r])
           /\ UNCHANGED <<cookie, blacklist, issued, heir, active, failedPairs, crossedPairs, thrownPairs, Spoilt>>
BY DEF SessionTypeOK, Reject, Renewing, EndsWith, Moves, browserVars, backendVars, historyVars, Spoilt

LEMMA BackendFailsDone ==
    ASSUME SessionTypeOK, NEW r \in Calls, BackendFails(r)
    PROVE  /\ step[r] \in {"called", "verified", "blacklisted"} /\ (step[r] = "called" => held[r].state = "in")
           /\ Moves(r, part[r], "answered", Error, sent[r])
           /\ Spoilt \subseteq Spoilt' /\ sent[r] \in Spoilt'
           /\ UNCHANGED <<cookie, blacklist, issued, heir, active, crossedPairs, thrownPairs>>
BY DEF SessionTypeOK, BackendFails, Renewing, EndsWith, Moves, browserVars, backendVars, Spoilt

LEMMA EndedDone ==
    ASSUME SessionTypeOK, NEW r \in Calls, Ended(r)
    PROVE  Moves(r, "proxy", "idle", Out, NoPair)
BY DEF SessionTypeOK, Ended, Moves

LEMMA RespondDone ==
    ASSUME SessionTypeOK, NEW r \in Calls, Respond(r)
    PROVE  /\ step[r] = "answered" /\ part[r] = "proxy"
           /\ cookie' = held[r] \/ (held[r].state = "error" /\ cookie' = Out)
           /\ Moves(r, "proxy", "idle", Out, NoPair)
           /\ UNCHANGED <<blacklist, issued, heir, active, failedPairs, crossedPairs, thrownPairs, Spoilt>>
<1>1. Ended(r) /\ step[r] = "answered" /\ part[r] = "proxy"
    BY DEF Respond
<1>2. cookie' = held[r] \/ (held[r].state = "error" /\ cookie' = Out)
    BY Zenon DEF Respond
<1>3. UNCHANGED <<blacklist, issued, heir, active, failedPairs, crossedPairs, thrownPairs, Spoilt>>
    BY DEF Respond, backendVars, historyVars, Spoilt
<1> QED BY <1>1, <1>2, <1>3, EndedDone, Zenon

LEMMA DropAnswerDone ==
    ASSUME SessionTypeOK, NEW r \in Calls, DropAnswer(r)
    PROVE  /\ step[r] = "answered" /\ part[r] = "proxy"
           /\ Moves(r, "proxy", "idle", Out, NoPair)
           /\ Spoilt \subseteq Spoilt'
           /\ held[r].state = "in" /\ held[r].pair # sent[r] => sent[r] \in Spoilt'
           /\ UNCHANGED <<cookie, blacklist, issued, heir, active, crossedPairs, thrownPairs>>
BY EndedDone DEF DropAnswer, backendVars, Spoilt

LEMMA ReturnDone ==
    ASSUME SessionTypeOK, NEW r \in Calls, Return(r)
    PROVE  /\ step[r] = "answered" /\ part[r] # "proxy"
           /\ Moves(r, "proxy", "idle", Out, NoPair)
           /\ UNCHANGED <<cookie, blacklist, issued, heir, active, failedPairs, crossedPairs, thrownPairs, Spoilt>>
BY EndedDone DEF Return, backendVars, historyVars, Spoilt

-----------------------------------------------------------------------------
(* Every step keeps the parts of the invariant. *)

\* A call goes on with the pair it was sent with until it ends.
LEMMA RequestsHoldStep ==
    SessionTypeOK /\ RequestsHold /\ PairsKnown
        /\ [SessionNext]_sessionVars => RequestsHold'
<1> SUFFICES ASSUME SessionTypeOK, RequestsHold, PairsKnown, [SessionNext]_sessionVars
             PROVE RequestsHold'
    OBVIOUS
<1> USE DEF RequestsHold, PairsKnown
<1>1. ASSUME NEW p \in Pairs, Login(p) PROVE RequestsHold'
    BY <1>1, LoginDone, Tokens, Fields
<1>2. ASSUME Logout PROVE RequestsHold'
    BY <1>2, LogoutDone, Tokens, Fields
<1>3. ASSUME NEW r \in Calls, SendRequest(r) PROVE RequestsHold'
    BY <1>3, SendRequestDone, Tokens, Fields DEF Moves
<1>4. ASSUME NEW q \in Calls, NEW r \in Calls, CallAgain(q, r) PROVE RequestsHold'
    BY <1>4, CallAgainDone, Tokens, Fields DEF Moves
<1>5. ASSUME NEW r \in Calls, Keep(r) PROVE RequestsHold'
    BY <1>5, KeepDone, Tokens, Fields DEF Moves
<1>6. ASSUME NEW r \in Calls, Verify(r) PROVE RequestsHold'
    BY <1>6, VerifyDone, Tokens, Fields DEF Moves
<1>7. ASSUME NEW r \in Calls, Blacklist(r) PROVE RequestsHold'
    BY <1>7, BlacklistDone, Tokens, Fields DEF Moves
<1>8. ASSUME NEW r \in Calls, NEW p \in Pairs, Issue(r, p) PROVE RequestsHold'
  <2>1. sent[r] \in Pairs
      BY <1>8, Tokens DEF Issue, RequestsHold
  <2> QED BY <1>8, <2>1, IssueDone, Tokens, Fields DEF Moves
<1>9. ASSUME NEW r \in Calls, Reject(r) PROVE RequestsHold'
    BY <1>9, RejectDone, Tokens, Fields DEF Moves
<1>10. ASSUME NEW r \in Calls, BackendFails(r) PROVE RequestsHold'
    BY <1>10, BackendFailsDone, Tokens, Fields DEF Moves
<1>11. ASSUME NEW r \in Calls, Respond(r) PROVE RequestsHold'
    BY <1>11, RespondDone, Tokens, Fields DEF Moves
<1>12. ASSUME NEW r \in Calls, DropAnswer(r) PROVE RequestsHold'
    BY <1>12, DropAnswerDone, Tokens, Fields DEF Moves
<1>13. ASSUME NEW r \in Calls, Return(r) PROVE RequestsHold'
    BY <1>13, ReturnDone, Tokens, Fields DEF Moves
<1>14. ASSUME NEW p \in Pairs, Expire(p) PROVE RequestsHold'
    BY <1>14, ExpireDone, Tokens, Fields
<1>15. ASSUME Deactivate PROVE RequestsHold'
    BY <1>15, DeactivateDone, Tokens, Fields
<1>16. CASE UNCHANGED sessionVars
    BY <1>16 DEF sessionVars, Spoilt
<1> QED BY <1>1, <1>2, <1>3, <1>4, <1>5, <1>6, <1>7, <1>8, <1>9, <1>10,
           <1>11, <1>12, <1>13, <1>14, <1>15, <1>16 DEF SessionNext

\* No pair comes from nowhere.
LEMMA PairsKnownStep ==
    SessionTypeOK /\ RequestsHold /\ PairsKnown
        /\ [SessionNext]_sessionVars => PairsKnown'
<1> SUFFICES ASSUME SessionTypeOK, RequestsHold, PairsKnown, [SessionNext]_sessionVars
             PROVE PairsKnown'
    OBVIOUS
<1> USE DEF RequestsHold, PairsKnown
<1>1. ASSUME NEW p \in Pairs, Login(p) PROVE PairsKnown'
    BY <1>1, LoginDone, Tokens, Fields
<1>2. ASSUME Logout PROVE PairsKnown'
    BY <1>2, LogoutDone, Tokens, Fields
<1>3. ASSUME NEW r \in Calls, SendRequest(r) PROVE PairsKnown'
    BY <1>3, SendRequestDone, Tokens, Fields DEF Moves
<1>4. ASSUME NEW q \in Calls, NEW r \in Calls, CallAgain(q, r) PROVE PairsKnown'
    BY <1>4, CallAgainDone, Tokens, Fields DEF Moves
<1>5. ASSUME NEW r \in Calls, Keep(r) PROVE PairsKnown'
    BY <1>5, KeepDone, Tokens, Fields DEF Moves
<1>6. ASSUME NEW r \in Calls, Verify(r) PROVE PairsKnown'
    BY <1>6, VerifyDone, Tokens, Fields DEF Moves
<1>7. ASSUME NEW r \in Calls, Blacklist(r) PROVE PairsKnown'
    BY <1>7, BlacklistDone, Tokens, Fields DEF Moves
<1>8. ASSUME NEW r \in Calls, NEW p \in Pairs, Issue(r, p) PROVE PairsKnown'
  <2>1. sent[r] \in Pairs
      BY <1>8, Tokens DEF Issue, RequestsHold
  <2> QED BY <1>8, <2>1, IssueDone, Tokens, Fields DEF Moves
<1>9. ASSUME NEW r \in Calls, Reject(r) PROVE PairsKnown'
    BY <1>9, RejectDone, Tokens, Fields DEF Moves
<1>10. ASSUME NEW r \in Calls, BackendFails(r) PROVE PairsKnown'
    BY <1>10, BackendFailsDone, Tokens, Fields DEF Moves
<1>11. ASSUME NEW r \in Calls, Respond(r) PROVE PairsKnown'
    BY <1>11, RespondDone, Tokens, Fields DEF Moves
<1>12. ASSUME NEW r \in Calls, DropAnswer(r) PROVE PairsKnown'
    BY <1>12, DropAnswerDone, Tokens, Fields DEF Moves
<1>13. ASSUME NEW r \in Calls, Return(r) PROVE PairsKnown'
    BY <1>13, ReturnDone, Tokens, Fields DEF Moves
<1>14. ASSUME NEW p \in Pairs, Expire(p) PROVE PairsKnown'
    BY <1>14, ExpireDone, Tokens, Fields
<1>15. ASSUME Deactivate PROVE PairsKnown'
    BY <1>15, DeactivateDone, Tokens, Fields
<1>16. CASE UNCHANGED sessionVars
    BY <1>16 DEF sessionVars, Spoilt
<1> QED BY <1>1, <1>2, <1>3, <1>4, <1>5, <1>6, <1>7, <1>8, <1>9, <1>10,
           <1>11, <1>12, <1>13, <1>14, <1>15, <1>16 DEF SessionNext

\* Two heirs come of two calls that carry the pair together.
LEMMA OneExchangeStep ==
    SessionTypeOK /\ RequestsHold /\ PairsKnown /\ OneExchange
        /\ [SessionNext]_sessionVars => OneExchange'
<1> SUFFICES ASSUME SessionTypeOK, RequestsHold, PairsKnown, OneExchange, [SessionNext]_sessionVars
             PROVE OneExchange'
    OBVIOUS
<1> USE DEF RequestsHold, PairsKnown, OneExchange, CarriedBy, Carries
<1>1. ASSUME NEW p \in Pairs, Login(p) PROVE OneExchange'
    BY <1>1, LoginDone, Tokens, Fields
<1>2. ASSUME Logout PROVE OneExchange'
    BY <1>2, LogoutDone, Tokens, Fields
<1>3. ASSUME NEW r \in Calls, SendRequest(r) PROVE OneExchange'
    BY <1>3, SendRequestDone, Tokens, Fields DEF Moves
<1>4. ASSUME NEW q \in Calls, NEW r \in Calls, CallAgain(q, r) PROVE OneExchange'
    BY <1>4, CallAgainDone, Tokens, Fields DEF Moves
<1>5. ASSUME NEW r \in Calls, Keep(r) PROVE OneExchange'
    BY <1>5, KeepDone, Tokens, Fields DEF Moves
<1>6. ASSUME NEW r \in Calls, Verify(r) PROVE OneExchange'
    BY <1>6, VerifyDone, Tokens, Fields DEF Moves
<1>7. ASSUME NEW r \in Calls, Blacklist(r) PROVE OneExchange'
    BY <1>7, BlacklistDone, Tokens, Fields DEF Moves
<1>8. ASSUME NEW r \in Calls, NEW p \in Pairs, Issue(r, p) PROVE OneExchange'
  <2>1. sent[r] \in Pairs
      BY <1>8, Tokens DEF Issue, RequestsHold
  <2> QED BY <1>8, <2>1, IssueDone, Tokens, Fields, SMTT(20) DEF Moves
<1>9. ASSUME NEW r \in Calls, Reject(r) PROVE OneExchange'
    BY <1>9, RejectDone, Tokens, Fields DEF Moves
<1>10. ASSUME NEW r \in Calls, BackendFails(r) PROVE OneExchange'
    BY <1>10, BackendFailsDone, Tokens, Fields DEF Moves
<1>11. ASSUME NEW r \in Calls, Respond(r) PROVE OneExchange'
    BY <1>11, RespondDone, Tokens, Fields DEF Moves
<1>12. ASSUME NEW r \in Calls, DropAnswer(r) PROVE OneExchange'
    BY <1>12, DropAnswerDone, Tokens, Fields DEF Moves
<1>13. ASSUME NEW r \in Calls, Return(r) PROVE OneExchange'
    BY <1>13, ReturnDone, Tokens, Fields DEF Moves
<1>14. ASSUME NEW p \in Pairs, Expire(p) PROVE OneExchange'
    BY <1>14, ExpireDone, Tokens, Fields
<1>15. ASSUME Deactivate PROVE OneExchange'
    BY <1>15, DeactivateDone, Tokens, Fields
<1>16. CASE UNCHANGED sessionVars
    BY <1>16 DEF sessionVars, Spoilt
<1> QED BY <1>1, <1>2, <1>3, <1>4, <1>5, <1>6, <1>7, <1>8, <1>9, <1>10,
           <1>11, <1>12, <1>13, <1>14, <1>15, <1>16 DEF SessionNext

\* A new pair is nowhere else.
LEMMA NewPairsApartStep ==
    SessionTypeOK /\ RequestsHold /\ PairsKnown /\ NewPairsApart
        /\ [SessionNext]_sessionVars => NewPairsApart'
<1> SUFFICES ASSUME SessionTypeOK, RequestsHold, PairsKnown, NewPairsApart, [SessionNext]_sessionVars
             PROVE NewPairsApart'
    OBVIOUS
<1> USE DEF RequestsHold, PairsKnown, NewPairsApart, NewPair
<1>1. ASSUME NEW p \in Pairs, Login(p) PROVE NewPairsApart'
    BY <1>1, LoginDone, Tokens, Fields
<1>2. ASSUME Logout PROVE NewPairsApart'
    BY <1>2, LogoutDone, Tokens, Fields
<1>3. ASSUME NEW r \in Calls, SendRequest(r) PROVE NewPairsApart'
    BY <1>3, SendRequestDone, Tokens, Fields DEF Moves
<1>4. ASSUME NEW q \in Calls, NEW r \in Calls, CallAgain(q, r) PROVE NewPairsApart'
    BY <1>4, CallAgainDone, Tokens, Fields DEF Moves
<1>5. ASSUME NEW r \in Calls, Keep(r) PROVE NewPairsApart'
    BY <1>5, KeepDone, Tokens, Fields DEF Moves
<1>6. ASSUME NEW r \in Calls, Verify(r) PROVE NewPairsApart'
    BY <1>6, VerifyDone, Tokens, Fields DEF Moves
<1>7. ASSUME NEW r \in Calls, Blacklist(r) PROVE NewPairsApart'
    BY <1>7, BlacklistDone, Tokens, Fields DEF Moves
<1>8. ASSUME NEW r \in Calls, NEW p \in Pairs, Issue(r, p) PROVE NewPairsApart'
  <2>1. sent[r] \in Pairs
      BY <1>8, Tokens DEF Issue, RequestsHold
  <2> QED BY <1>8, <2>1, IssueDone, Tokens, Fields DEF Moves
<1>9. ASSUME NEW r \in Calls, Reject(r) PROVE NewPairsApart'
    BY <1>9, RejectDone, Tokens, Fields DEF Moves
<1>10. ASSUME NEW r \in Calls, BackendFails(r) PROVE NewPairsApart'
    BY <1>10, BackendFailsDone, Tokens, Fields DEF Moves
<1>11. ASSUME NEW r \in Calls, Respond(r) PROVE NewPairsApart'
    BY <1>11, RespondDone, Tokens, Fields DEF Moves
<1>12. ASSUME NEW r \in Calls, DropAnswer(r) PROVE NewPairsApart'
    BY <1>12, DropAnswerDone, Tokens, Fields DEF Moves
<1>13. ASSUME NEW r \in Calls, Return(r) PROVE NewPairsApart'
    BY <1>13, ReturnDone, Tokens, Fields DEF Moves
<1>14. ASSUME NEW p \in Pairs, Expire(p) PROVE NewPairsApart'
    BY <1>14, ExpireDone, Tokens, Fields
<1>15. ASSUME Deactivate PROVE NewPairsApart'
    BY <1>15, DeactivateDone, Tokens, Fields
<1>16. CASE UNCHANGED sessionVars
    BY <1>16 DEF sessionVars, Spoilt
<1> QED BY <1>1, <1>2, <1>3, <1>4, <1>5, <1>6, <1>7, <1>8, <1>9, <1>10,
           <1>11, <1>12, <1>13, <1>14, <1>15, <1>16 DEF SessionNext

\* What went wrong stays so.
LEMMA SpoiltStep ==
    SessionTypeOK /\ RequestsHold
        /\ [SessionNext]_sessionVars => Spoilt \subseteq Spoilt' /\ (active' => active)
<1> SUFFICES ASSUME SessionTypeOK, RequestsHold, [SessionNext]_sessionVars
             PROVE Spoilt \subseteq Spoilt' /\ (active' => active)
    OBVIOUS
<1> USE DEF RequestsHold
<1>1. ASSUME NEW p \in Pairs, Login(p) PROVE Spoilt \subseteq Spoilt' /\ (active' => active)
    BY <1>1, LoginDone, Tokens, Fields
<1>2. ASSUME Logout PROVE Spoilt \subseteq Spoilt' /\ (active' => active)
    BY <1>2, LogoutDone, Tokens, Fields
<1>3. ASSUME NEW r \in Calls, SendRequest(r) PROVE Spoilt \subseteq Spoilt' /\ (active' => active)
    BY <1>3, SendRequestDone, Tokens, Fields DEF Moves
<1>4. ASSUME NEW q \in Calls, NEW r \in Calls, CallAgain(q, r) PROVE Spoilt \subseteq Spoilt' /\ (active' => active)
    BY <1>4, CallAgainDone, Tokens, Fields DEF Moves
<1>5. ASSUME NEW r \in Calls, Keep(r) PROVE Spoilt \subseteq Spoilt' /\ (active' => active)
    BY <1>5, KeepDone, Tokens, Fields DEF Moves
<1>6. ASSUME NEW r \in Calls, Verify(r) PROVE Spoilt \subseteq Spoilt' /\ (active' => active)
    BY <1>6, VerifyDone, Tokens, Fields DEF Moves
<1>7. ASSUME NEW r \in Calls, Blacklist(r) PROVE Spoilt \subseteq Spoilt' /\ (active' => active)
    BY <1>7, BlacklistDone, Tokens, Fields DEF Moves
<1>8. ASSUME NEW r \in Calls, NEW p \in Pairs, Issue(r, p) PROVE Spoilt \subseteq Spoilt' /\ (active' => active)
  <2>1. sent[r] \in Pairs
      BY <1>8, Tokens DEF Issue, RequestsHold
  <2> QED BY <1>8, <2>1, IssueDone, Tokens, Fields DEF Moves
<1>9. ASSUME NEW r \in Calls, Reject(r) PROVE Spoilt \subseteq Spoilt' /\ (active' => active)
    BY <1>9, RejectDone, Tokens, Fields DEF Moves
<1>10. ASSUME NEW r \in Calls, BackendFails(r) PROVE Spoilt \subseteq Spoilt' /\ (active' => active)
    BY <1>10, BackendFailsDone, Tokens, Fields DEF Moves
<1>11. ASSUME NEW r \in Calls, Respond(r) PROVE Spoilt \subseteq Spoilt' /\ (active' => active)
    BY <1>11, RespondDone, Tokens, Fields DEF Moves
<1>12. ASSUME NEW r \in Calls, DropAnswer(r) PROVE Spoilt \subseteq Spoilt' /\ (active' => active)
    BY <1>12, DropAnswerDone, Tokens, Fields DEF Moves
<1>13. ASSUME NEW r \in Calls, Return(r) PROVE Spoilt \subseteq Spoilt' /\ (active' => active)
    BY <1>13, ReturnDone, Tokens, Fields DEF Moves
<1>14. ASSUME NEW p \in Pairs, Expire(p) PROVE Spoilt \subseteq Spoilt' /\ (active' => active)
    BY <1>14, ExpireDone, Tokens, Fields
<1>15. ASSUME Deactivate PROVE Spoilt \subseteq Spoilt' /\ (active' => active)
    BY <1>15, DeactivateDone, Tokens, Fields
<1>16. CASE UNCHANGED sessionVars
    BY <1>16 DEF sessionVars, Spoilt
<1> QED BY <1>1, <1>2, <1>3, <1>4, <1>5, <1>6, <1>7, <1>8, <1>9, <1>10,
           <1>11, <1>12, <1>13, <1>14, <1>15, <1>16 DEF SessionNext

\* No error comes up without a cause.
LEMMA ErrorsExplainedStep ==
    SessionTypeOK /\ RequestsHold /\ PairsKnown /\ NewPairsApart /\ ErrorsExplained /\ UsedInCookie /\ UsedInCalls
        /\ [SessionNext]_sessionVars => ErrorsExplained' \/ ~active'
<1> SUFFICES ASSUME SessionTypeOK, RequestsHold, PairsKnown, NewPairsApart, ErrorsExplained, UsedInCookie, UsedInCalls, [SessionNext]_sessionVars
             PROVE ErrorsExplained' \/ ~active'
    OBVIOUS
<1> USE DEF RequestsHold, PairsKnown, ErrorsExplained, UsedInCalls, Exchanging, NewPair
<1>1. ASSUME NEW p \in Pairs, Login(p) PROVE ErrorsExplained'
    BY <1>1, LoginDone, Tokens, Fields
<1>2. ASSUME Logout PROVE ErrorsExplained'
    BY <1>2, LogoutDone, Tokens, Fields
<1>3. ASSUME NEW r \in Calls, SendRequest(r) PROVE ErrorsExplained'
    BY <1>3, SendRequestDone, Tokens, Fields DEF Moves
<1>4. ASSUME NEW q \in Calls, NEW r \in Calls, CallAgain(q, r) PROVE ErrorsExplained'
    BY <1>4, CallAgainDone, Tokens, Fields DEF Moves
<1>5. ASSUME NEW r \in Calls, Keep(r) PROVE ErrorsExplained'
    BY <1>5, KeepDone, Tokens, Fields DEF Moves
<1>6. ASSUME NEW r \in Calls, Verify(r) PROVE ErrorsExplained'
    BY <1>6, VerifyDone, Tokens, Fields DEF Moves
<1>7. ASSUME NEW r \in Calls, Blacklist(r) PROVE ErrorsExplained'
    BY <1>7, BlacklistDone, Tokens, Fields DEF Moves
<1>8. ASSUME NEW r \in Calls, NEW p \in Pairs, Issue(r, p) PROVE ErrorsExplained'
  <2>1. sent[r] \in Pairs
      BY <1>8, Tokens DEF Issue, RequestsHold
  <2> QED BY <1>8, <2>1, IssueDone, Tokens, Fields DEF Moves
<1>9. ASSUME NEW r \in Calls, Reject(r) PROVE ErrorsExplained' \/ ~active'
  <2>1. CASE step[r] = "blacklisted" /\ ~active
      BY <1>9, <2>1, RejectDone
  <2>2. CASE step[r] = "called" /\ held[r].state = "in" /\ held[r].pair \in blacklist
    <3>1. Moves(r, part[r], "answered", Error, sent[r]) /\ UNCHANGED <<cookie, blacklist, Spoilt>>
        BY <1>9, RejectDone
    <3> QED BY <2>2, <3>1, Tokens, Fields DEF Moves
  <2> QED BY <1>9, <2>1, <2>2, RejectDone
<1>10. ASSUME NEW r \in Calls, BackendFails(r) PROVE ErrorsExplained'
    BY <1>10, BackendFailsDone, Tokens, Fields DEF Moves
<1>11. ASSUME NEW r \in Calls, Respond(r) PROVE ErrorsExplained'
    BY <1>11, RespondDone, Tokens, Fields DEF Moves
<1>12. ASSUME NEW r \in Calls, DropAnswer(r) PROVE ErrorsExplained'
    BY <1>12, DropAnswerDone, Tokens, Fields DEF Moves
<1>13. ASSUME NEW r \in Calls, Return(r) PROVE ErrorsExplained'
    BY <1>13, ReturnDone, Tokens, Fields DEF Moves
<1>14. ASSUME NEW p \in Pairs, Expire(p) PROVE ErrorsExplained'
    BY <1>14, ExpireDone, Tokens, Fields
<1>15. ASSUME Deactivate PROVE ErrorsExplained'
    BY <1>15, DeactivateDone, Tokens, Fields
<1>16. CASE UNCHANGED sessionVars
    BY <1>16 DEF sessionVars, Spoilt
<1> QED BY <1>1, <1>2, <1>3, <1>4, <1>5, <1>6, <1>7, <1>8, <1>9, <1>10,
           <1>11, <1>12, <1>13, <1>14, <1>15, <1>16 DEF SessionNext

\* The pair in the cookie is good, about to be replaced, or spoilt.
LEMMA UsedInCookieStep ==
    SessionTypeOK /\ RequestsHold /\ PairsKnown /\ NewPairsApart /\ ErrorsExplained /\ UsedInCookie /\ UsedInCalls
        /\ [SessionNext]_sessionVars => UsedInCookie' \/ ~active'
<1> SUFFICES ASSUME SessionTypeOK, RequestsHold, PairsKnown, NewPairsApart, ErrorsExplained, UsedInCookie, UsedInCalls, [SessionNext]_sessionVars
             PROVE UsedInCookie' \/ ~active'
    OBVIOUS
<1> USE DEF RequestsHold, PairsKnown, UsedInCookie, UsedInCalls, NewPairsApart, Carries, Exchanging, NewPair
<1>1. ASSUME NEW p \in Pairs, Login(p) PROVE UsedInCookie'
    BY <1>1, LoginDone, Tokens, Fields
<1>2. ASSUME Logout PROVE UsedInCookie'
    BY <1>2, LogoutDone, Tokens, Fields
<1>3. ASSUME NEW r \in Calls, SendRequest(r) PROVE UsedInCookie'
    BY <1>3, SendRequestDone, Tokens, Fields DEF Moves
<1>4. ASSUME NEW q \in Calls, NEW r \in Calls, CallAgain(q, r) PROVE UsedInCookie'
    BY <1>4, CallAgainDone, Tokens, Fields DEF Moves
<1>5. ASSUME NEW r \in Calls, Keep(r) PROVE UsedInCookie'
    BY <1>5, KeepDone, Tokens, Fields DEF Moves
<1>6. ASSUME NEW r \in Calls, Verify(r) PROVE UsedInCookie'
    BY <1>6, VerifyDone, Tokens, Fields DEF Moves
<1>7. ASSUME NEW r \in Calls, Blacklist(r) PROVE UsedInCookie'
    BY <1>7, BlacklistDone, Tokens, Fields DEF Moves
<1>8. ASSUME NEW r \in Calls, NEW p \in Pairs, Issue(r, p) PROVE UsedInCookie'
  <2>1. sent[r] \in Pairs
      BY <1>8, Tokens DEF Issue, RequestsHold
  <2> QED BY <1>8, <2>1, IssueDone, Tokens, Fields DEF Moves
<1>9. ASSUME NEW r \in Calls, Reject(r) PROVE UsedInCookie' \/ ~active'
  <2>1. CASE step[r] = "blacklisted" /\ ~active
      BY <1>9, <2>1, RejectDone
  <2>2. CASE step[r] = "called" /\ held[r].state = "in" /\ held[r].pair \in blacklist
    <3>1. Moves(r, part[r], "answered", Error, sent[r]) /\ UNCHANGED <<cookie, blacklist, Spoilt>>
        BY <1>9, RejectDone
    <3> QED BY <2>2, <3>1, Tokens, Fields DEF Moves
  <2> QED BY <1>9, <2>1, <2>2, RejectDone
<1>10. ASSUME NEW r \in Calls, BackendFails(r) PROVE UsedInCookie'
    BY <1>10, BackendFailsDone, Tokens, Fields DEF Moves
<1>11. ASSUME NEW r \in Calls, Respond(r) PROVE UsedInCookie'
    BY <1>11, RespondDone, Tokens, Fields DEF Moves
<1>12. ASSUME NEW r \in Calls, DropAnswer(r) PROVE UsedInCookie'
    BY <1>12, DropAnswerDone, Tokens, Fields DEF Moves
<1>13. ASSUME NEW r \in Calls, Return(r) PROVE UsedInCookie'
    BY <1>13, ReturnDone, Tokens, Fields DEF Moves
<1>14. ASSUME NEW p \in Pairs, Expire(p) PROVE UsedInCookie'
    BY <1>14, ExpireDone, Tokens, Fields
<1>15. ASSUME Deactivate PROVE UsedInCookie'
    BY <1>15, DeactivateDone, Tokens, Fields
<1>16. CASE UNCHANGED sessionVars
    BY <1>16 DEF sessionVars, Spoilt
<1> QED BY <1>1, <1>2, <1>3, <1>4, <1>5, <1>6, <1>7, <1>8, <1>9, <1>10,
           <1>11, <1>12, <1>13, <1>14, <1>15, <1>16 DEF SessionNext

\* So is that of a call.
LEMMA UsedInCallsStep ==
    SessionTypeOK /\ RequestsHold /\ PairsKnown /\ NewPairsApart /\ ErrorsExplained /\ UsedInCookie /\ UsedInCalls
        /\ [SessionNext]_sessionVars => UsedInCalls' \/ ~active'
<1> SUFFICES ASSUME SessionTypeOK, RequestsHold, PairsKnown, NewPairsApart, ErrorsExplained, UsedInCookie, UsedInCalls, [SessionNext]_sessionVars
             PROVE UsedInCalls' \/ ~active'
    OBVIOUS
<1> USE DEF RequestsHold, PairsKnown, UsedInCookie, UsedInCalls, CarriedBy, Carries, Exchanging, NewPair
<1>1. ASSUME NEW p \in Pairs, Login(p) PROVE UsedInCalls'
    BY <1>1, LoginDone, Tokens, Fields
<1>2. ASSUME Logout PROVE UsedInCalls'
    BY <1>2, LogoutDone, Tokens, Fields
<1>3. ASSUME NEW r \in Calls, SendRequest(r) PROVE UsedInCalls'
    BY <1>3, SendRequestDone, Tokens, Fields DEF Moves
<1>4. ASSUME NEW q \in Calls, NEW r \in Calls, CallAgain(q, r) PROVE UsedInCalls'
    BY <1>4, CallAgainDone, Tokens, Fields DEF Moves
<1>5. ASSUME NEW r \in Calls, Keep(r) PROVE UsedInCalls'
    BY <1>5, KeepDone, Tokens, Fields DEF Moves
<1>6. ASSUME NEW r \in Calls, Verify(r) PROVE UsedInCalls'
    BY <1>6, VerifyDone, Tokens, Fields DEF Moves
<1>7. ASSUME NEW r \in Calls, Blacklist(r) PROVE UsedInCalls'
    BY <1>7, BlacklistDone, Tokens, Fields DEF Moves
<1>8. ASSUME NEW r \in Calls, NEW p \in Pairs, Issue(r, p) PROVE UsedInCalls'
  <2>1. sent[r] \in Pairs
      BY <1>8, Tokens DEF Issue, RequestsHold
  <2> QED BY <1>8, <2>1, IssueDone, Tokens, Fields DEF Moves
<1>9. ASSUME NEW r \in Calls, Reject(r) PROVE UsedInCalls' \/ ~active'
  <2>1. CASE step[r] = "blacklisted" /\ ~active
      BY <1>9, <2>1, RejectDone
  <2>2. CASE step[r] = "called" /\ held[r].state = "in" /\ held[r].pair \in blacklist
    <3>1. Moves(r, part[r], "answered", Error, sent[r]) /\ UNCHANGED <<cookie, blacklist, Spoilt>>
        BY <1>9, RejectDone
    <3> QED BY <2>2, <3>1, Tokens, Fields DEF Moves
  <2> QED BY <1>9, <2>1, <2>2, RejectDone
<1>10. ASSUME NEW r \in Calls, BackendFails(r) PROVE UsedInCalls'
    BY <1>10, BackendFailsDone, Tokens, Fields DEF Moves
<1>11. ASSUME NEW r \in Calls, Respond(r) PROVE UsedInCalls'
    BY <1>11, RespondDone, Tokens, Fields DEF Moves
<1>12. ASSUME NEW r \in Calls, DropAnswer(r) PROVE UsedInCalls'
    BY <1>12, DropAnswerDone, Tokens, Fields DEF Moves
<1>13. ASSUME NEW r \in Calls, Return(r) PROVE UsedInCalls'
    BY <1>13, ReturnDone, Tokens, Fields DEF Moves
<1>14. ASSUME NEW p \in Pairs, Expire(p) PROVE UsedInCalls'
    BY <1>14, ExpireDone, Tokens, Fields
<1>15. ASSUME Deactivate PROVE UsedInCalls'
    BY <1>15, DeactivateDone, Tokens, Fields
<1>16. CASE UNCHANGED sessionVars
    BY <1>16 DEF sessionVars, Spoilt
<1> QED BY <1>1, <1>2, <1>3, <1>4, <1>5, <1>6, <1>7, <1>8, <1>9, <1>10,
           <1>11, <1>12, <1>13, <1>14, <1>15, <1>16 DEF SessionNext

LEMMA SessionHoldsStep ==
    SessionTypeOK /\ RequestsHold /\ PairsKnown /\ NewPairsApart /\ SessionHolds /\ [SessionNext]_sessionVars
        => SessionHolds'
BY SpoiltStep, ErrorsExplainedStep, UsedInCookieStep, UsedInCallsStep DEF SessionHolds

LEMMA SessionInvariant == SessionSpec => []SessionInv
<1>1. SessionInit => SessionInv
  <2> SUFFICES ASSUME SessionInit PROVE SessionInv
      OBVIOUS
  <2>1. /\ cookie = Out /\ blacklist = {} /\ issued = {} /\ heir = [p \in Pairs |-> {}]
        /\ \A r \in Calls : sent[r] = NoPair /\ held[r] = Out /\ step[r] = "idle"
      BY DEF SessionInit
  <2> QED BY <2>1, SessionTypeInit, Fields
          DEF SessionInv, RequestsHold, PairsKnown, OneExchange, NewPairsApart, SessionHolds,
              ErrorsExplained, UsedInCookie, UsedInCalls, NewPair
<1>2. SessionInv /\ [SessionNext]_sessionVars => SessionInv'
    BY SessionTypeStep, RequestsHoldStep, PairsKnownStep, OneExchangeStep, NewPairsApartStep, SessionHoldsStep
       DEF SessionInv
<1> QED BY <1>1, <1>2, PTL DEF SessionSpec

-----------------------------------------------------------------------------
(* What the session promises. *)

\* The cookie, the calls and the tokens stay of their types.
THEOREM SessionTypes == SessionSpec => []SessionTypeOK
<1>1. SessionInv => SessionTypeOK
    BY DEF SessionInv
<1> QED BY <1>1, SessionInvariant, PTL

\* However many requests are under way and however often each calls auth(), a call
\* ends in an error only when the account was deactivated, when the pair it was
\* sent with was spoilt (its exchange failed, was crossed or was made by a page),
\* or when the proxy of its own request had just used the pair (the jwt callback of
\* auth.ts, proxy.ts and the layouts behind it); the cookie, only in the first two.
THEOREM LostForCause == SessionSpec => []SessionLostForCause
<1>1. SessionInv => SessionLostForCause
    BY DEF SessionInv, SessionHolds, ErrorsExplained, SessionLostForCause
<1> QED BY <1>1, SessionInvariant, PTL

\* A refresh token is good for one new pair, unless two calls carried it at
\* once (rotate_refresh_token reads the blacklist before it writes it).
THEOREM OneHeir == SessionSpec => []OneHeirUnlessCrossed
<1>1. SessionInv => OneHeirUnlessCrossed
  <2> SUFFICES ASSUME SessionInv, NEW p \in Pairs, p \notin crossedPairs
               PROVE  ~(Cardinality(heir[p]) > 1)
      BY DEF OneHeirUnlessCrossed
  <2>1. \A q, h \in heir[p] : q = h
      BY DEF SessionInv, OneExchange
  <2>2. CASE heir[p] = {}
      BY <2>2, FS_EmptySet
  <2>3. CASE heir[p] # {}
    <3>1. PICK q \in heir[p] : heir[p] = {q}
        BY <2>1, <2>3
    <3>2. Cardinality(heir[p]) = 1
        BY <3>1, FS_Singleton
    <3> QED BY <3>2
  <2> QED BY <2>2, <2>3
<1> QED BY <1>1, SessionInvariant, PTL

=============================================================================
