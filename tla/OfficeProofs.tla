---------------------------- MODULE OfficeProofs ----------------------------
(***************************************************************************)
(* Proofs about the office: Staffing, StockDesk and SupportChat.           *)
(***************************************************************************)
EXTENDS MCScreens, SessionProofs, JobsProofs, FiniteSetTheorems, TLAPS

-----------------------------------------------------------------------------
(* Members and their invites: the inductive invariant. *)

StaffTyped ==
    /\ staff \in [Members -> Member]
    /\ whose \in [Links -> Members]
    /\ latest \in [Members -> Links \cup {NoLink}]
    /\ good \subseteq Links
    /\ screen \in [Screens -> Screen]
    /\ call \in [Screens -> StaffCall]
    /\ visit \in [Visits -> Visit]
    /\ resets \subseteq Members
    /\ ousted \subseteq Members

\* Calls are about members there are; a tab is idle exactly when it has no link.
StaffKnown ==
    /\ \A s \in Screens : call[s].kind # "none" => staff[call[s].of].known
    /\ \A m \in ousted : staff[m].known
    /\ \A v \in Visits : visit[v].at # "idle" <=> visit[v].link \in Links

Using(v, m) == visit[v].link \in Links /\ whose[visit[v].link] = m
Replacing(s, m) == call[s].kind = "issue" /\ call[s].of = m
LinksOf(m) == {l \in good : whose[l] = m}

\* A member whose invite went its regular way has a password or a way to one:
\* a good link, one screen that replaces it, or one tab that redeems it.
InviteOf(m) ==
    m \notin slips =>
        /\ staff[m].active => staff[m].password
        /\ m \in ousted => staff[m].password /\ ~staff[m].active
        /\ staff[m].password =>
             /\ LinksOf(m) = {}
             /\ \A s \in Screens : ~Replacing(s, m)
             /\ \A v \in Visits : ~Using(v, m)
        /\ LinksOf(m) \subseteq {latest[m]}
        /\ \A s \in Screens : Replacing(s, m) =>
             /\ LinksOf(m) \subseteq {call[s].old}
             /\ \A r \in Screens : Replacing(r, m) => r = s
             /\ \A v \in Visits : ~Using(v, m)
        /\ \A v \in Visits : Using(v, m) =>
             /\ LinksOf(m) \subseteq {visit[v].link}
             /\ visit[v].at = "deleted" => LinksOf(m) = {}
             /\ \A w \in Visits : Using(w, m) => w = v

StaffInv ==
    /\ StaffTyped
    /\ StaffKnown
    /\ \A m \in Members : InviteOf(m)

-----------------------------------------------------------------------------
LEMMA StaffFields ==
    ASSUME StaffTyped
    PROVE  /\ \A m \in Members :
                /\ staff[m].known \in BOOLEAN /\ staff[m].active \in BOOLEAN
                /\ staff[m].password \in BOOLEAN /\ staff[m].stores \in SUBSET Stores
           /\ \A s \in Screens :
                /\ screen[s].of \in Members /\ screen[s].stores \in SUBSET Stores
                /\ screen[s].ticked \in SUBSET Stores /\ screen[s].active \in BOOLEAN
                /\ call[s].of \in Members /\ call[s].stores \in SUBSET Stores
                /\ call[s].rows \in SUBSET Stores /\ call[s].old \in Links \cup {NoLink}
           /\ \A v \in Visits :
                visit[v].link \in Links \cup {NoLink} /\ visit[v].at \in {"idle", "found", "deleted"}
BY DEF StaffTyped, Member, Screen, StaffCall, Visit

LEMMA StaffInvInit == StaffInit => StaffInv
<1> SUFFICES ASSUME StaffInit PROVE StaffInv
    OBVIOUS
<1>0. Someone \in Members
    BY StaffingAssumption DEF Someone
<1>1. StaffTyped
    BY <1>0 DEF StaffInit, StaffTyped, Stranger, NoCall, Member, Screen, StaffCall, Visit
<1>2. /\ \A s \in Screens : call[s].kind = "none"
      /\ \A v \in Visits : visit[v].link \notin Links /\ visit[v].at = "idle"
      /\ \A m \in Members : ~staff[m].active /\ ~staff[m].password /\ staff[m].stores = {}
      /\ good = {} /\ ousted = {}
    BY StaffingAssumption DEF StaffInit, NoCall, Stranger
<1> QED BY <1>1, <1>2 DEF StaffInv, StaffKnown, InviteOf, Using, Replacing, LinksOf

\* A step that gives a member no link, replacement or visit keeps their invite.
LEMMA InviteKept ==
    ASSUME NEW m \in Members, InviteOf(m), slips \subseteq slips',
           staff'[m].active = staff[m].active, staff'[m].password = staff[m].password,
           m \in ousted' => m \in ousted,
           LinksOf(m)' \subseteq LinksOf(m),
           LinksOf(m)' = {} \/ latest'[m] = latest[m],
           \A s \in Screens : Replacing(s, m)' => Replacing(s, m) /\ call'[s].old = call[s].old,
           \A v \in Visits : Using(v, m)' => Using(v, m) /\ visit'[v] = visit[v]
    PROVE  InviteOf(m)'
BY DEF InviteOf

\* The same for a step that leaves the links and the visits as they are.
LEMMA LinksLeft ==
    ASSUME NEW m \in Members, InviteOf(m), slips \subseteq slips',
           staff'[m].active = staff[m].active, staff'[m].password = staff[m].password,
           m \in ousted' => m \in ousted, UNCHANGED <<good, whose, latest, visit>>,
           \A s \in Screens : Replacing(s, m)' => Replacing(s, m) /\ call'[s].old = call[s].old
    PROVE  InviteOf(m)'
<1>1. LinksOf(m)' = LinksOf(m)
    BY DEF LinksOf
<1>2. \A v \in Visits : Using(v, m)' => Using(v, m) /\ visit'[v] = visit[v]
    BY DEF Using
<1> QED BY <1>1, <1>2, InviteKept

\* A call is replaced by one that is not a replacement of a link.
LEMMA NewCall ==
    ASSUME StaffTyped, NEW s \in Screens, NEW c \in StaffCall, c.kind # "issue",
           call' = [call EXCEPT ![s] = c]
    PROVE  /\ call' \in [Screens -> StaffCall] /\ call'[s] = c
           /\ \A r \in Screens \ {s} : call'[r] = call[r]
           /\ \A m \in Members, r \in Screens :
                Replacing(r, m)' => r # s /\ Replacing(r, m) /\ call'[r].old = call[r].old
<1>1. call' \in [Screens -> StaffCall] /\ call'[s] = c /\ \A r \in Screens \ {s} : call'[r] = call[r]
    BY DEF StaffTyped
<1> QED BY <1>1 DEF Replacing

LEMMA DoneCall ==
    ASSUME StaffTyped, NEW s \in Screens, Done(s)
    PROVE  /\ call' \in [Screens -> StaffCall] /\ call'[s].kind = "none"
           /\ \A r \in Screens \ {s} : call'[r] = call[r]
           /\ \A m \in Members, r \in Screens :
                Replacing(r, m)' => r # s /\ Replacing(r, m) /\ call'[r].old = call[r].old
<1> DEFINE c == NoCall(call[s].of)
<1>1. c \in StaffCall /\ c.kind = "none"
    BY StaffFields DEF NoCall, StaffCall
<1>2. call' = [call EXCEPT ![s] = c]
    BY DEF Done
<1> HIDE DEF c
<1> QED BY <1>1, <1>2, NewCall

-----------------------------------------------------------------------------
(* The screens. *)

LEMMA RefetchKeeps ==
    ASSUME StaffInv, NEW s \in Screens, NEW m \in Members, Refetch(s, m)
    PROVE  StaffInv'
<1>1. /\ UNCHANGED <<staff, linkVars, call, visit, noteVars>>
      /\ screen' = [screen EXCEPT ![s] = Copy(m)]
    BY DEF Refetch
<1>2. UNCHANGED <<good, whose, latest, resets, ousted, slips>>
    BY <1>1 DEF linkVars, noteVars
<1>3. Copy(m) \in Screen
    BY StaffFields DEF StaffInv, Copy, Screen
<1>4. StaffTyped'
    BY <1>1, <1>2, <1>3 DEF StaffInv, StaffTyped
<1>5. StaffKnown'
    BY <1>1, <1>2 DEF StaffInv, StaffKnown
<1>6. ASSUME NEW x \in Members PROVE InviteOf(x)'
    BY <1>1, <1>2, LinksLeft DEF StaffInv, Replacing
<1> QED BY <1>4, <1>5, <1>6 DEF StaffInv

LEMMA TickKeeps ==
    ASSUME StaffInv, NEW s \in Screens, NEW b \in Stores, Tick(s, b)
    PROVE  StaffInv'
<1> DEFINE c == [screen[s] EXCEPT !.ticked = (@ \ {b}) \cup ({b} \ @)]
<1>1. /\ UNCHANGED <<staff, linkVars, call, visit, noteVars>>
      /\ screen' = [screen EXCEPT ![s] = c]
    BY DEF Tick
<1>2. UNCHANGED <<good, whose, latest, resets, ousted, slips>>
    BY <1>1 DEF linkVars, noteVars
<1>3. c \in Screen
    BY DEF StaffInv, StaffTyped, Screen
<1> HIDE DEF c
<1>4. StaffTyped'
    BY <1>1, <1>2, <1>3 DEF StaffInv, StaffTyped
<1>5. StaffKnown'
    BY <1>1, <1>2 DEF StaffInv, StaffKnown
<1>6. ASSUME NEW x \in Members PROVE InviteOf(x)'
    BY <1>1, <1>2, LinksLeft DEF StaffInv, Replacing
<1> QED BY <1>4, <1>5, <1>6 DEF StaffInv

LEMMA StartCallKeeps ==
    ASSUME StaffInv, NEW s \in Screens,
           NEW kind \in {"activate", "deactivate", "password", "stores", "invite"},
           StartCall(s, kind)
    PROVE  StaffInv'
<1> DEFINE c == [kind |-> kind, of |-> screen[s].of,
                 stores |-> screen[s].ticked, rows |-> {}, old |-> NoLink]
<1>1. /\ UNCHANGED <<staff, linkVars, screen, visit, noteVars>>
      /\ call' = [call EXCEPT ![s] = c] /\ staff[screen[s].of].known
    BY DEF StartCall
<1>2. UNCHANGED <<good, whose, latest, resets, ousted, slips>>
    BY <1>1 DEF linkVars, noteVars
<1>3. c \in StaffCall /\ c.kind # "issue" /\ c.of = screen[s].of
    BY StaffFields DEF StaffInv, StaffCall
<1> HIDE DEF c
<1>4. /\ call' \in [Screens -> StaffCall] /\ call'[s] = c
      /\ \A r \in Screens \ {s} : call'[r] = call[r]
      /\ \A m \in Members, r \in Screens :
           Replacing(r, m)' => Replacing(r, m) /\ call'[r].old = call[r].old
    BY <1>1, <1>3, NewCall DEF StaffInv
<1>5. StaffTyped'
    BY <1>1, <1>2, <1>4 DEF StaffInv, StaffTyped
<1>6. StaffKnown'
    BY <1>1, <1>2, <1>3, <1>4 DEF StaffInv, StaffKnown
<1>8. ASSUME NEW x \in Members PROVE InviteOf(x)'
    BY <1>1, <1>2, <1>4, LinksLeft DEF StaffInv
<1> QED BY <1>5, <1>6, <1>8 DEF StaffInv

LEMMA FailsKeeps ==
    ASSUME StaffInv, NEW s \in Screens, Fails(s)
    PROVE  StaffInv'
<1>1. UNCHANGED <<staff, linkVars, screen, visit, noteVars>> /\ Done(s)
    BY DEF Fails
<1>2. UNCHANGED <<good, whose, latest, resets, ousted, slips>>
    BY <1>1 DEF linkVars, noteVars
<1>3. /\ call' \in [Screens -> StaffCall] /\ call'[s].kind = "none"
      /\ \A r \in Screens \ {s} : call'[r] = call[r]
      /\ \A m \in Members, r \in Screens :
           Replacing(r, m)' => Replacing(r, m) /\ call'[r].old = call[r].old
    BY <1>1, DoneCall DEF StaffInv
<1>4. StaffTyped'
    BY <1>1, <1>2, <1>3 DEF StaffInv, StaffTyped
<1>5. StaffKnown'
    BY <1>1, <1>2, <1>3 DEF StaffInv, StaffKnown
<1>7. ASSUME NEW x \in Members PROVE InviteOf(x)'
    BY <1>1, <1>2, <1>3, LinksLeft DEF StaffInv
<1> QED BY <1>4, <1>5, <1>7 DEF StaffInv

LEMMA OustedKnown ==
    ASSUME StaffInv
    PROVE  \A m \in ousted : m \in Members /\ staff[m].known
BY DEF StaffInv, StaffTyped, StaffKnown

LEMMA CreateKeeps ==
    ASSUME StaffInv, NEW s \in Screens, NEW m \in Members, CreateManaged(s, m)
    PROVE  StaffInv'
<1> DEFINE c == [NoCall(m) EXCEPT !.kind = "invite"]
<1> DEFINE n == [Stranger EXCEPT !.known = TRUE, !.stores = screen[s].ticked]
<1>1. /\ staff' = [staff EXCEPT ![m] = n] /\ call' = [call EXCEPT ![s] = c]
      /\ ~staff[m].known
      /\ UNCHANGED <<linkVars, screen, visit, ousted, slips>>
    BY DEF CreateManaged
<1>2. UNCHANGED <<good, whose, latest, resets>>
    BY <1>1 DEF linkVars
<1>3. c \in StaffCall /\ c.kind = "invite" /\ c.of = m
    BY DEF NoCall, StaffCall
<1>4. /\ n \in Member /\ n.known /\ ~n.active /\ ~n.password /\ n.stores = screen[s].ticked
    BY StaffFields DEF StaffInv, Stranger, Member
<1> HIDE DEF c, n
<1>5. /\ call' \in [Screens -> StaffCall] /\ call'[s] = c
      /\ \A r \in Screens \ {s} : call'[r] = call[r]
      /\ \A x \in Members, r \in Screens :
           Replacing(r, x)' => Replacing(r, x) /\ call'[r].old = call[r].old
    BY <1>1, <1>3, NewCall DEF StaffInv
<1>6. staff'[m] = n /\ \A x \in Members \ {m} : staff'[x] = staff[x]
    BY <1>1 DEF StaffInv, StaffTyped
<1>7. StaffTyped'
    BY <1>1, <1>2, <1>4, <1>5, StaffFields DEF StaffInv, StaffTyped
<1>8. StaffKnown'
  <2>1. \A x \in Members : staff[x].known => staff'[x].known
      BY <1>4, <1>6
  <2>2. \A r \in Screens : call'[r].kind # "none" => staff'[call'[r].of].known
      BY <1>3, <1>4, <1>5, <1>6, <2>1, StaffFields DEF StaffInv, StaffKnown
  <2>3. \A x \in ousted' : staff'[x].known
      BY <1>1, <2>1, OustedKnown
  <2> QED BY <1>1, <2>2, <2>3 DEF StaffInv, StaffKnown
<1>10. ASSUME NEW x \in Members \ {m} PROVE InviteOf(x)'
    BY <1>1, <1>2, <1>5, <1>6, LinksLeft DEF StaffInv
<1>11. InviteOf(m)'
  <2>1. m \notin ousted' /\ ~staff'[m].active /\ ~staff'[m].password
      BY <1>1, <1>4, <1>6 DEF StaffInv, StaffKnown
  <2>2. LinksOf(m)' = LinksOf(m) /\ \A v \in Visits : Using(v, m)' <=> Using(v, m)
      BY <1>1, <1>2 DEF LinksOf, Using
  <2> QED BY <1>1, <1>2, <1>5, <2>1, <2>2 DEF StaffInv, InviteOf
<1> QED BY <1>7, <1>8, <1>10, <1>11 DEF StaffInv

-----------------------------------------------------------------------------
(* The server. *)

\* A step that changes a member's record and leaves the links and the visits.
LEMMA RecordStep ==
    ASSUME StaffTyped, NEW m \in Members, NEW n \in Member, staff' = [staff EXCEPT ![m] = n]
    PROVE  /\ staff' \in [Members -> Member] /\ staff'[m] = n
           /\ \A x \in Members \ {m} : staff'[x] = staff[x]
BY DEF StaffTyped

LEMMA ActiveKeeps ==
    ASSUME StaffInv, NEW s \in Screens, UpdateActive(s)
    PROVE  StaffInv'
<1>0. PICK m \in Members : m = call[s].of
    BY StaffFields DEF StaffInv
<1> DEFINE value == call[s].kind = "activate"
<1> DEFINE n == [staff[m] EXCEPT !.active = value]
<1>1. /\ staff' = [staff EXCEPT ![m] = n] /\ Done(s)
      /\ call[s].kind \in {"activate", "deactivate"}
      /\ ousted' = IF value THEN ousted \ {m}
                   ELSE IF staff[m].active /\ staff[m].password THEN ousted \cup {m} ELSE ousted
      /\ slips' = IF UnderWay(m) \/ ~staff[m].password THEN slips \cup {m} ELSE slips
      /\ UNCHANGED <<linkVars, screen, visit>>
    BY <1>0 DEF UpdateActive, Noted
<1>2. UNCHANGED <<good, whose, latest, resets>> /\ slips \subseteq slips'
    BY <1>1 DEF linkVars
<1>3. /\ m \in Members /\ value \in BOOLEAN /\ n \in Member /\ n.active = value
      /\ n.password = staff[m].password /\ n.known = staff[m].known /\ n.stores = staff[m].stores
  <2>1. m \in Members /\ staff[m] \in Member
      BY StaffFields DEF StaffInv, StaffTyped
  <2>2. value \in BOOLEAN
      OBVIOUS
  <2> HIDE DEF value
  <2> QED BY <2>1, <2>2 DEF Member
<1>4. staff[m].known
    BY <1>0, <1>1 DEF StaffInv, StaffKnown
<1> HIDE DEF n, value
<1>5. /\ staff' \in [Members -> Member] /\ staff'[m] = n
      /\ \A x \in Members \ {m} : staff'[x] = staff[x]
    BY <1>1, <1>3, RecordStep DEF StaffInv
<1>6. /\ call' \in [Screens -> StaffCall] /\ call'[s].kind = "none"
      /\ \A r \in Screens \ {s} : call'[r] = call[r]
      /\ \A x \in Members, r \in Screens :
           Replacing(r, x)' => Replacing(r, x) /\ call'[r].old = call[r].old
    BY <1>1, DoneCall DEF StaffInv
<1>7. StaffTyped'
    BY <1>1, <1>2, <1>5, <1>6 DEF StaffInv, StaffTyped
<1>8. StaffKnown'
  <2>1. \A x \in Members : staff[x].known => staff'[x].known
      BY <1>3, <1>5
  <2>2. \A r \in Screens : call'[r].kind # "none" => staff'[call'[r].of].known
      BY <1>6, <2>1, StaffFields DEF StaffInv, StaffKnown
  <2>3. \A x \in ousted' : staff'[x].known
      BY <1>1, <1>3, <1>4, <1>5, OustedKnown
  <2> QED BY <1>1, <2>2, <2>3 DEF StaffInv, StaffKnown
<1>10. ASSUME NEW x \in Members \ {m} PROVE InviteOf(x)'
    BY <1>1, <1>2, <1>5, <1>6, LinksLeft DEF StaffInv
<1>11. InviteOf(m)'
  <2>1. CASE m \in slips'
      BY <2>1 DEF InviteOf
  <2>2. CASE m \notin slips'
    <3>1. staff[m].password /\ m \notin slips /\ staff'[m].password /\ staff'[m].active = value
        BY <1>1, <1>2, <1>3, <1>5, <2>2
    <3>2. m \in ousted' => ~staff'[m].active
        BY <1>1, <1>3, <1>5, <3>1 DEF StaffInv, InviteOf
    <3>3. /\ LinksOf(m)' = LinksOf(m) /\ \A v \in Visits : Using(v, m)' <=> Using(v, m)
        BY <1>1, <1>2 DEF LinksOf, Using
    <3>4. /\ LinksOf(m) = {} /\ \A v \in Visits : ~Using(v, m)
          /\ \A r \in Screens : ~Replacing(r, m)
        BY <1>3, <3>1 DEF StaffInv, InviteOf
    <3> QED BY <1>6, <1>3, <3>1, <3>2, <3>3, <3>4 DEF InviteOf
  <2> QED BY <2>1, <2>2
<1> QED BY <1>7, <1>8, <1>10, <1>11 DEF StaffInv

LEMMA PasswordKeeps ==
    ASSUME StaffInv, NEW s \in Screens, SetPassword(s)
    PROVE  StaffInv'
<1>0. PICK m \in Members : m = call[s].of
    BY StaffFields DEF StaffInv
<1> DEFINE n == [staff[m] EXCEPT !.password = TRUE]
<1>1. /\ staff' = [staff EXCEPT ![m] = n] /\ Done(s)
      /\ slips' = IF ~staff[m].password THEN slips \cup {m} ELSE slips
      /\ UNCHANGED <<linkVars, screen, visit, ousted>>
    BY <1>0 DEF SetPassword, Noted
<1>2. UNCHANGED <<good, whose, latest, resets>> /\ slips \subseteq slips'
    BY <1>1 DEF linkVars
<1>3. m \in Members /\ staff[m] \in Member
    BY StaffFields DEF StaffInv, StaffTyped
<1>4. /\ n \in Member /\ n.password /\ n.active = staff[m].active
      /\ n.known = staff[m].known /\ n.stores = staff[m].stores
    BY <1>3 DEF Member
<1> HIDE DEF n
<1>5. /\ staff' \in [Members -> Member] /\ staff'[m] = n
      /\ \A x \in Members \ {m} : staff'[x] = staff[x]
    BY <1>1, <1>3, <1>4, RecordStep DEF StaffInv
<1>6. /\ call' \in [Screens -> StaffCall] /\ call'[s].kind = "none"
      /\ \A r \in Screens \ {s} : call'[r] = call[r]
      /\ \A x \in Members, r \in Screens :
           Replacing(r, x)' => Replacing(r, x) /\ call'[r].old = call[r].old
    BY <1>1, DoneCall DEF StaffInv
<1>7. StaffTyped'
    BY <1>1, <1>2, <1>5, <1>6 DEF StaffInv, StaffTyped
<1>8. StaffKnown'
  <2>1. \A x \in Members : staff[x].known => staff'[x].known
      BY <1>4, <1>5
  <2>2. \A r \in Screens : call'[r].kind # "none" => staff'[call'[r].of].known
      BY <1>6, <2>1, StaffFields DEF StaffInv, StaffKnown
  <2>3. \A x \in ousted' : staff'[x].known
      BY <1>1, <1>4, <1>5 DEF StaffInv, StaffKnown
  <2> QED BY <1>1, <2>2, <2>3 DEF StaffInv, StaffKnown
<1>10. ASSUME NEW x \in Members \ {m} PROVE InviteOf(x)'
    BY <1>1, <1>2, <1>5, <1>6, LinksLeft DEF StaffInv
<1>11. InviteOf(m)'
  <2>1. CASE m \in slips'
      BY <2>1 DEF InviteOf
  <2>2. CASE m \notin slips'
    <3>1. staff[m].password
        BY <1>1, <2>2
    <3>2. staff'[m].active = staff[m].active /\ staff'[m].password = staff[m].password
        BY <1>3, <1>4, <1>5, <3>1 DEF Member
    <3> QED BY <1>1, <1>2, <1>3, <1>6, <3>2, LinksLeft DEF StaffInv
  <2> QED BY <2>1, <2>2
<1> QED BY <1>7, <1>8, <1>10, <1>11 DEF StaffInv

LEMMA ReadKeeps ==
    ASSUME StaffInv, NEW s \in Screens, ReadAssignments(s)
    PROVE  StaffInv'
<1> DEFINE c == [call[s] EXCEPT !.kind = "replace", !.rows = staff[call[s].of].stores]
<1>1. /\ call' = [call EXCEPT ![s] = c] /\ call[s].kind = "stores"
      /\ UNCHANGED <<staff, linkVars, screen, visit, ousted, slips>>
    BY DEF ReadAssignments, StaffInv, StaffTyped
<1>2. UNCHANGED <<good, whose, latest, resets>>
    BY <1>1 DEF linkVars
<1>3. c \in StaffCall /\ c.kind = "replace" /\ c.of = call[s].of
  <2>1. call[s] \in StaffCall /\ staff[call[s].of].stores \in SUBSET Stores
      BY StaffFields DEF StaffInv, StaffTyped
  <2> QED BY <2>1 DEF StaffCall
<1> HIDE DEF c
<1>4. /\ call' \in [Screens -> StaffCall] /\ call'[s] = c
      /\ \A r \in Screens \ {s} : call'[r] = call[r]
      /\ \A m \in Members, r \in Screens :
           Replacing(r, m)' => Replacing(r, m) /\ call'[r].old = call[r].old
    BY <1>1, <1>3, NewCall DEF StaffInv
<1>5. StaffTyped'
    BY <1>1, <1>2, <1>4 DEF StaffInv, StaffTyped
<1>6. StaffKnown'
    BY <1>1, <1>2, <1>3, <1>4 DEF StaffInv, StaffKnown
<1>7. ASSUME NEW x \in Members PROVE InviteOf(x)'
    BY <1>1, <1>2, <1>4, LinksLeft DEF StaffInv
<1> QED BY <1>5, <1>6, <1>7 DEF StaffInv

\* What a save that commits does to the calls: its own is over, those that
\* overlap it lose rows.
LEMMA CommitCalls ==
    ASSUME StaffTyped, NEW s \in Screens, ReplaceAssignments(s)
    PROVE  /\ call' \in [Screens -> StaffCall] /\ call'[s].kind = "none"
           /\ \A r \in Screens \ {s} :
                /\ call'[r].kind = call[r].kind /\ call'[r].of = call[r].of
                /\ call'[r].stores = call[r].stores /\ call'[r].old = call[r].old
                /\ call'[r].rows = IF Overlapping(r, call[s].of) THEN call[r].rows \ call[s].rows
                                   ELSE call[r].rows
<1>1. NoCall(call[s].of) \in StaffCall /\ NoCall(call[s].of).kind = "none"
    BY StaffFields DEF NoCall, StaffCall
<1>2. \A r \in Screens : call[r] \in StaffCall /\ [call[r] EXCEPT !.rows = @ \ call[s].rows] \in StaffCall
    BY DEF StaffTyped, StaffCall
<1>3. \A r \in Screens : call'[r] = IF r = s THEN NoCall(call[s].of)
                                    ELSE IF Overlapping(r, call[s].of)
                                    THEN [call[r] EXCEPT !.rows = @ \ call[s].rows]
                                    ELSE call[r]
    BY DEF ReplaceAssignments
<1>4. call' = [r \in Screens |-> call'[r]]
    BY DEF ReplaceAssignments
<1>5. call' \in [Screens -> StaffCall]
    BY <1>1, <1>2, <1>3, <1>4
<1>6. ASSUME NEW r \in Screens
      PROVE  LET c == [call[r] EXCEPT !.rows = @ \ call[s].rows]
             IN  /\ c.rows = call[r].rows \ call[s].rows /\ c.kind = call[r].kind
                 /\ c.of = call[r].of /\ c.stores = call[r].stores /\ c.old = call[r].old
  <2>1. call[r] \in StaffCall
      BY DEF StaffTyped
  <2> QED BY <2>1 DEF StaffCall
<1>7. call'[s].kind = "none"
    BY <1>1, <1>3
<1>8. ASSUME NEW r \in Screens \ {s}
      PROVE  /\ call'[r].kind = call[r].kind /\ call'[r].of = call[r].of
             /\ call'[r].stores = call[r].stores /\ call'[r].old = call[r].old
             /\ call'[r].rows = IF Overlapping(r, call[s].of) THEN call[r].rows \ call[s].rows
                                ELSE call[r].rows
  <2>1. CASE Overlapping(r, call[s].of)
    <3> DEFINE c == [call[r] EXCEPT !.rows = @ \ call[s].rows]
    <3>1. call'[r] = c
        BY <1>3, <2>1
    <3>2. /\ c.rows = call[r].rows \ call[s].rows /\ c.kind = call[r].kind
          /\ c.of = call[r].of /\ c.stores = call[r].stores /\ c.old = call[r].old
        BY <1>6
    <3> HIDE DEF c
    <3> QED BY <2>1, <3>1, <3>2
  <2>2. CASE ~Overlapping(r, call[s].of)
      BY <1>3, <2>2
  <2> QED BY <2>1, <2>2
<1> QED BY <1>5, <1>7, <1>8

LEMMA ReplaceKeeps ==
    ASSUME StaffInv, NEW s \in Screens, ReplaceAssignments(s)
    PROVE  StaffInv'
<1>0. PICK m \in Members : m = call[s].of
    BY StaffFields DEF StaffInv
<1> DEFINE n == [staff[m] EXCEPT !.stores = (staff[m].stores \ call[s].rows) \cup call[s].stores]
<1>1. /\ staff' = [staff EXCEPT ![m] = n] /\ call[s].kind = "replace"
      /\ UNCHANGED <<linkVars, screen, visit, ousted, slips>>
    BY <1>0 DEF ReplaceAssignments, Assigned
<1>2. UNCHANGED <<good, whose, latest, resets>>
    BY <1>1 DEF linkVars
<1>3. /\ n \in Member /\ n.password = staff[m].password /\ n.active = staff[m].active
      /\ n.known = staff[m].known
  <2>1. staff[m] \in Member /\ call[s].stores \in SUBSET Stores
      BY StaffFields DEF StaffInv, StaffTyped
  <2> QED BY <2>1 DEF Member
<1> HIDE DEF n
<1>4. /\ staff' \in [Members -> Member] /\ staff'[m] = n
      /\ \A x \in Members \ {m} : staff'[x] = staff[x]
    BY <1>1, <1>3, RecordStep DEF StaffInv
<1>5. /\ call' \in [Screens -> StaffCall] /\ call'[s].kind = "none"
      /\ \A r \in Screens \ {s} : call'[r].kind = call[r].kind /\ call'[r].of = call[r].of
                                  /\ call'[r].old = call[r].old
    BY CommitCalls DEF StaffInv
<1>6. StaffTyped'
    BY <1>1, <1>2, <1>4, <1>5 DEF StaffInv, StaffTyped
<1>7. \A x \in Members : staff'[x].known = staff[x].known
    BY <1>3, <1>4
<1>8. StaffKnown'
  <2>1. \A r \in Screens : call'[r].kind # "none" => staff'[call'[r].of].known
      BY <1>5, <1>7, StaffFields DEF StaffInv, StaffKnown
  <2>2. \A x \in ousted' : staff'[x].known
      BY <1>1, <1>7 DEF StaffInv, StaffKnown, StaffTyped
  <2> QED BY <1>1, <2>1, <2>2 DEF StaffInv, StaffKnown
<1>9. ASSUME NEW x \in Members PROVE InviteOf(x)'
  <2>1. staff'[x].active = staff[x].active /\ staff'[x].password = staff[x].password
      BY <1>3, <1>4
  <2>2. \A r \in Screens : Replacing(r, x)' => Replacing(r, x) /\ call'[r].old = call[r].old
      BY <1>1, <1>5 DEF Replacing
  <2> QED BY <1>1, <1>2, <2>1, <2>2, LinksLeft DEF StaffInv
<1> QED BY <1>6, <1>8, <1>9 DEF StaffInv

LEMMA LookUpKeeps ==
    ASSUME StaffInv, NEW s \in Screens, LookUpLink(s)
    PROVE  StaffInv'
<1>0. PICK m \in Members : m = call[s].of
    BY StaffFields DEF StaffInv
<1> DEFINE c == [call[s] EXCEPT !.kind = "issue", !.old = latest[m]]
<1>1. /\ call' = [call EXCEPT ![s] = c] /\ call[s].kind = "invite"
      /\ ~staff[m].active /\ ~staff[m].password
      /\ slips' = IF Redeeming(m) \/ \E r \in Screens \ {s} : Replacing(r, m)
                  THEN slips \cup {m} ELSE slips
      /\ UNCHANGED <<staff, linkVars, screen, visit, ousted>>
    BY <1>0 DEF LookUpLink, IsPendingInvite, Noted, Replacing
<1>2. UNCHANGED <<good, whose, latest, resets>> /\ slips \subseteq slips'
    BY <1>1 DEF linkVars
<1>3. m \in Members /\ call[s] \in StaffCall /\ latest[m] \in Links \cup {NoLink}
    BY StaffFields DEF StaffInv, StaffTyped
<1>4. c \in StaffCall /\ c.kind = "issue" /\ c.of = call[s].of /\ c.old = latest[m]
    BY <1>3 DEF StaffCall
<1> HIDE DEF c
<1>5. call' \in [Screens -> StaffCall] /\ call'[s] = c /\ \A r \in Screens \ {s} : call'[r] = call[r]
    BY <1>1, <1>4 DEF StaffInv, StaffTyped
<1>6. StaffTyped'
    BY <1>1, <1>2, <1>5 DEF StaffInv, StaffTyped
<1>7. StaffKnown'
    BY <1>0, <1>1, <1>2, <1>4, <1>5 DEF StaffInv, StaffKnown
<1>9. ASSUME NEW x \in Members \ {m} PROVE InviteOf(x)'
  <2>1. \A r \in Screens : Replacing(r, x)' => Replacing(r, x) /\ call'[r].old = call[r].old
      BY <1>0, <1>4, <1>5 DEF Replacing
  <2> QED BY <1>1, <1>2, <2>1, LinksLeft DEF StaffInv
<1>10. InviteOf(m)'
  <2>1. CASE m \in slips'
      BY <2>1 DEF InviteOf
  <2>2. CASE m \notin slips'
    <3>1. m \notin slips /\ ~Redeeming(m) /\ \A r \in Screens \ {s} : ~Replacing(r, m)
        BY <1>1, <2>2
    <3>2. /\ LinksOf(m)' = LinksOf(m) /\ \A v \in Visits : ~Using(v, m)'
        BY <1>1, <1>2, <3>1 DEF LinksOf, Using, Redeeming
    <3>3. \A r \in Screens : Replacing(r, m)' => r = s /\ call'[r].old = latest[m]
        BY <1>0, <1>4, <1>5, <3>1 DEF Replacing
    <3>4. LinksOf(m) \subseteq {latest[m]} /\ (m \in ousted => staff[m].password)
        BY <1>3, <3>1 DEF StaffInv, InviteOf
    <3> QED BY <1>1, <1>2, <3>2, <3>3, <3>4 DEF InviteOf
  <2> QED BY <2>1, <2>2
<1> QED BY <1>6, <1>7, <1>9, <1>10 DEF StaffInv

LEMMA IssueKeeps ==
    ASSUME StaffInv, NEW s \in Screens, NEW l \in Links, IssueLink(s, l)
    PROVE  StaffInv'
<1>0. PICK m \in Members : m = call[s].of
    BY StaffFields DEF StaffInv
<1>1. /\ call[s].kind = "issue" /\ whose[l] = m /\ Done(s)
      /\ good' = (good \ {call[s].old}) \cup {l} /\ latest' = [latest EXCEPT ![m] = l]
      /\ UNCHANGED <<staff, whose, resets, screen, visit, ousted, slips>>
    BY <1>0 DEF IssueLink, noteVars
<1>2. m \in Members /\ Replacing(s, m)
    BY <1>0, <1>1, StaffFields DEF StaffInv, Replacing
<1>3. /\ call' \in [Screens -> StaffCall] /\ call'[s].kind = "none"
      /\ \A r \in Screens \ {s} : call'[r] = call[r]
      /\ \A x \in Members, r \in Screens :
           Replacing(r, x)' => r # s /\ Replacing(r, x) /\ call'[r].old = call[r].old
    BY <1>1, DoneCall DEF StaffInv
<1>4. /\ latest' \in [Members -> Links \cup {NoLink}] /\ latest'[m] = l
      /\ \A x \in Members \ {m} : latest'[x] = latest[x]
    BY <1>1, <1>2 DEF StaffInv, StaffTyped
<1>5. StaffTyped'
    BY <1>1, <1>3, <1>4 DEF StaffInv, StaffTyped
<1>6. StaffKnown'
    BY <1>1, <1>3 DEF StaffInv, StaffKnown
<1>8. \A x \in Members, v \in Visits : (Using(v, x)' <=> Using(v, x)) /\ visit'[v] = visit[v]
    BY <1>1 DEF Using
<1>9. ASSUME NEW x \in Members \ {m} PROVE InviteOf(x)'
  <2>1. LinksOf(x)' \subseteq LinksOf(x)
      BY <1>1 DEF LinksOf
  <2> QED BY <1>1, <1>3, <1>4, <1>8, <2>1, InviteKept DEF StaffInv
<1>10. InviteOf(m)'
  <2>1. CASE m \in slips
      BY <1>1, <2>1 DEF InviteOf
  <2>2. CASE m \notin slips
    <3>1. /\ LinksOf(m) \subseteq {call[s].old} /\ ~staff[m].password
          /\ \A r \in Screens : Replacing(r, m) => r = s
          /\ \A v \in Visits : ~Using(v, m)
          /\ staff[m].active => staff[m].password
          /\ m \in ousted => staff[m].password
        BY <1>2, <2>2 DEF StaffInv, InviteOf
    <3>2. LinksOf(m)' \subseteq {l}
        BY <1>1, <3>1 DEF LinksOf
    <3>3. \A r \in Screens : ~Replacing(r, m)'
        BY <1>2, <1>3, <3>1
    <3> QED BY <1>1, <1>4, <1>8, <3>1, <3>2, <3>3 DEF InviteOf
  <2> QED BY <2>1, <2>2
<1> QED BY <1>5, <1>6, <1>9, <1>10 DEF StaffInv

-----------------------------------------------------------------------------
(* Redeeming a link. *)

\* A tab's visit is replaced.
LEMMA VisitStep ==
    ASSUME StaffTyped, NEW v \in Visits, NEW n \in Visit, visit' = [visit EXCEPT ![v] = n], whose' = whose
    PROVE  /\ visit' \in [Visits -> Visit] /\ visit'[v] = n
           /\ \A w \in Visits \ {v} : visit'[w] = visit[w]
           /\ \A x \in Members, w \in Visits \ {v} : Using(w, x)' <=> Using(w, x)
           /\ \A x \in Members : Using(v, x)' <=> n.link \in Links /\ whose[n.link] = x
<1>1. visit' \in [Visits -> Visit] /\ visit'[v] = n /\ \A w \in Visits \ {v} : visit'[w] = visit[w]
    BY DEF StaffTyped
<1> QED BY <1>1 DEF Using

LEMMA OpenKeeps ==
    ASSUME StaffInv, NEW v \in Visits, NEW l \in Links, OpenLink(v, l)
    PROVE  StaffInv'
<1> DEFINE n == [link |-> l, at |-> "found"]
<1>1. /\ l \in good /\ visit' = [visit EXCEPT ![v] = n]
      /\ slips' = IF UnderWay(whose[l]) THEN slips \cup {whose[l]} ELSE slips
      /\ UNCHANGED <<staff, linkVars, screen, call, ousted>>
    BY DEF OpenLink, Noted
<1>2. UNCHANGED <<good, whose, latest, resets>> /\ slips \subseteq slips'
    BY <1>1 DEF linkVars
<1>3. n \in Visit /\ n.link = l /\ n.at = "found"
    BY DEF Visit
<1> HIDE DEF n
<1>4. PICK m \in Members : m = whose[l]
    BY DEF StaffInv, StaffTyped
<1>5. /\ visit' \in [Visits -> Visit] /\ visit'[v] = n
      /\ \A w \in Visits \ {v} : visit'[w] = visit[w]
      /\ \A x \in Members, w \in Visits \ {v} : Using(w, x)' <=> Using(w, x)
      /\ \A x \in Members : Using(v, x)' <=> x = m
    BY <1>1, <1>2, <1>3, <1>4, VisitStep DEF StaffInv
<1>6. StaffTyped'
    BY <1>1, <1>2, <1>5 DEF StaffInv, StaffTyped
<1>7. StaffKnown'
    BY <1>1, <1>2, <1>3, <1>5 DEF StaffInv, StaffKnown
<1>9. \A x \in Members : LinksOf(x)' = LinksOf(x) /\ \A s \in Screens : Replacing(s, x)' <=> Replacing(s, x)
    BY <1>1, <1>2 DEF LinksOf, Replacing
<1>10. ASSUME NEW x \in Members \ {m} PROVE InviteOf(x)'
    BY <1>1, <1>2, <1>5, <1>9, InviteKept DEF StaffInv
<1>11. InviteOf(m)'
  <2>1. CASE m \in slips'
      BY <2>1 DEF InviteOf
  <2>2. CASE m \notin slips'
    <3>1. m \notin slips /\ ~UnderWay(m)
        BY <1>1, <1>4, <2>2
    <3>2. (\A w \in Visits : ~Using(w, m)) /\ \A s \in Screens : ~Replacing(s, m)
        BY <3>1 DEF UnderWay, Redeeming, Issuing, Using, Replacing
    <3>3. l \in LinksOf(m)
        BY <1>1, <1>4 DEF LinksOf
    <3>4. LinksOf(m) \subseteq {l} /\ ~staff[m].password
        BY <3>1, <3>3 DEF StaffInv, InviteOf
    <3>5. \A w \in Visits : Using(w, m)' => w = v
        BY <1>5, <3>2
    <3>6. (staff[m].active => staff[m].password) /\ (m \in ousted => staff[m].password)
          /\ LinksOf(m) \subseteq {latest[m]}
        BY <3>1 DEF StaffInv, InviteOf
    <3> QED BY <1>1, <1>2, <1>3, <1>5, <1>9, <3>2, <3>4, <3>5, <3>6 DEF InviteOf
  <2> QED BY <2>1, <2>2
<1> QED BY <1>6, <1>7, <1>10, <1>11 DEF StaffInv

LEMMA ConsumeKeeps ==
    ASSUME StaffInv, NEW v \in Visits, Consume(v)
    PROVE  StaffInv'
<1>0. PICK l : l = visit[v].link
    OBVIOUS
<1> DEFINE n == [visit[v] EXCEPT !.at = "deleted"]
<1>1. /\ visit[v].at = "found" /\ good' = good \ {l}
      /\ latest' = [latest EXCEPT ![whose[l]] = NoLink] /\ visit' = [visit EXCEPT ![v] = n]
      /\ UNCHANGED <<staff, whose, resets, screen, call, ousted, slips>>
    BY <1>0 DEF Consume, Consumed, noteVars
<1>2. l \in Links
    BY <1>0, <1>1 DEF StaffInv, StaffKnown
<1>3. PICK m \in Members : m = whose[l]
    BY <1>2 DEF StaffInv, StaffTyped
<1>4. n \in Visit /\ n.link = l /\ n.at = "deleted"
    BY <1>0 DEF StaffInv, StaffTyped, Visit
<1> HIDE DEF n
<1>5. /\ visit' \in [Visits -> Visit] /\ visit'[v] = n
      /\ \A w \in Visits \ {v} : visit'[w] = visit[w]
      /\ \A x \in Members, w \in Visits \ {v} : Using(w, x)' <=> Using(w, x)
      /\ \A x \in Members : Using(v, x)' <=> x = m
    BY <1>1, <1>2, <1>3, <1>4, VisitStep DEF StaffInv
<1>6. /\ latest' \in [Members -> Links \cup {NoLink}]
      /\ \A x \in Members \ {m} : latest'[x] = latest[x]
    BY <1>1, <1>3 DEF StaffInv, StaffTyped
<1>7. StaffTyped'
    BY <1>1, <1>5, <1>6 DEF StaffInv, StaffTyped
<1>8. StaffKnown'
    BY <1>1, <1>2, <1>4, <1>5 DEF StaffInv, StaffKnown
<1>10. /\ \A x \in Members : LinksOf(x)' = LinksOf(x) \ {l}
       /\ \A x \in Members, s \in Screens : (Replacing(s, x)' <=> Replacing(s, x)) /\ call'[s] = call[s]
    BY <1>1 DEF LinksOf, Replacing
<1>11. ASSUME NEW x \in Members \ {m} PROVE InviteOf(x)'
    BY <1>1, <1>5, <1>6, <1>10, InviteKept DEF StaffInv
<1>12. InviteOf(m)'
  <2>1. CASE m \in slips
      BY <1>1, <2>1 DEF InviteOf
  <2>2. CASE m \notin slips
    <3>1. Using(v, m)
        BY <1>0, <1>2, <1>3 DEF Using
    <3>2. /\ LinksOf(m) \subseteq {l} /\ \A w \in Visits : Using(w, m) => w = v
          /\ ~staff[m].password /\ \A s \in Screens : ~Replacing(s, m)
          /\ staff[m].active => staff[m].password
          /\ m \in ousted => staff[m].password
        BY <1>0, <2>2, <3>1 DEF StaffInv, InviteOf
    <3>3. LinksOf(m)' = {} /\ \A w \in Visits : Using(w, m)' => w = v
        BY <1>5, <1>10, <3>2
    <3> QED BY <1>1, <1>10, <3>2, <3>3 DEF InviteOf
  <2> QED BY <2>1, <2>2
<1> QED BY <1>7, <1>8, <1>11, <1>12 DEF StaffInv

\* A tab is idle again.
LEMMA Idled ==
    ASSUME StaffTyped, NEW v \in Visits, whose' = whose,
           visit' = [visit EXCEPT ![v] = [link |-> NoLink, at |-> "idle"]]
    PROVE  /\ visit' \in [Visits -> Visit] /\ visit'[v].link = NoLink /\ visit'[v].at = "idle"
           /\ \A w \in Visits \ {v} : visit'[w] = visit[w]
           /\ \A x \in Members, w \in Visits : Using(w, x)' => w # v /\ Using(w, x) /\ visit'[w] = visit[w]
<1> DEFINE n == [link |-> NoLink, at |-> "idle"]
<1>1. n \in Visit /\ n.link = NoLink /\ n.at = "idle" /\ NoLink \notin Links
    BY StaffingAssumption DEF Visit
<1>2. visit' = [visit EXCEPT ![v] = n]
    OBVIOUS
<1> HIDE DEF n
<1>3. /\ visit' \in [Visits -> Visit] /\ visit'[v] = n
      /\ \A w \in Visits \ {v} : visit'[w] = visit[w]
      /\ \A x \in Members, w \in Visits \ {v} : Using(w, x)' <=> Using(w, x)
      /\ \A x \in Members : Using(v, x)' <=> n.link \in Links /\ whose[n.link] = x
    BY <1>1, <1>2, VisitStep
<1>4. \A x \in Members : ~Using(v, x)'
    BY <1>1, <1>3
<1> QED BY <1>1, <1>3, <1>4

LEMMA AcceptKeeps ==
    ASSUME StaffInv, NEW v \in Visits, AcceptInvite(v)
    PROVE  StaffInv'
<1>0. PICK l : l = visit[v].link
    OBVIOUS
<1>1. l \in Links
    BY <1>0 DEF StaffInv, StaffKnown, AcceptInvite
<1>2. PICK m \in Members : m = whose[l]
    BY <1>1 DEF StaffInv, StaffTyped
<1> DEFINE n == IF staff[m].active /\ staff[m].password THEN staff[m]
                ELSE [staff[m] EXCEPT !.active = TRUE, !.password = TRUE]
<1>3. /\ visit[v].at = "deleted" /\ visit' = [visit EXCEPT ![v] = [link |-> NoLink, at |-> "idle"]]
      /\ staff' = [staff EXCEPT ![m] = n]
      /\ UNCHANGED <<linkVars, screen, call, noteVars>>
    BY <1>0, <1>2 DEF AcceptInvite, StaffInv, StaffTyped
<1>4. UNCHANGED <<good, whose, latest, resets, ousted, slips>>
    BY <1>3 DEF linkVars, noteVars
<1>5. n \in Member /\ n.active /\ n.password /\ n.known = staff[m].known /\ n.stores = staff[m].stores
  <2>1. staff[m] \in Member
      BY DEF StaffInv, StaffTyped
  <2>2. CASE staff[m].active /\ staff[m].password
      BY <2>1, <2>2
  <2>3. CASE ~(staff[m].active /\ staff[m].password)
      BY <2>1, <2>3 DEF Member
  <2> QED BY <2>2, <2>3
<1> HIDE DEF n
<1>6. /\ staff' \in [Members -> Member] /\ staff'[m] = n
      /\ \A x \in Members \ {m} : staff'[x] = staff[x]
    BY <1>3, <1>5, RecordStep DEF StaffInv
<1>7. /\ visit' \in [Visits -> Visit] /\ visit'[v].link = NoLink /\ visit'[v].at = "idle"
      /\ \A w \in Visits \ {v} : visit'[w] = visit[w]
      /\ \A x \in Members, w \in Visits : Using(w, x)' => w # v /\ Using(w, x) /\ visit'[w] = visit[w]
    BY <1>3, <1>4, Idled DEF StaffInv
<1>8. StaffTyped'
    BY <1>3, <1>4, <1>6, <1>7 DEF StaffInv, StaffTyped
<1>9. StaffKnown'
  <2>1. \A x \in Members : staff[x].known => staff'[x].known
      BY <1>5, <1>6
  <2>2. \A r \in Screens : call'[r].kind # "none" => staff'[call'[r].of].known
      BY <1>3, <2>1, StaffFields DEF StaffInv, StaffKnown
  <2>3. \A x \in ousted' : staff'[x].known
      BY <1>4, <1>5, <1>6, OustedKnown
  <2>4. \A w \in Visits : visit'[w].at # "idle" <=> visit'[w].link \in Links
      BY <1>7, StaffingAssumption DEF StaffInv, StaffKnown
  <2> QED BY <2>2, <2>3, <2>4 DEF StaffKnown
<1>11. /\ \A x \in Members : LinksOf(x)' = LinksOf(x)
       /\ \A x \in Members, s \in Screens : (Replacing(s, x)' <=> Replacing(s, x)) /\ call'[s] = call[s]
    BY <1>3, <1>4 DEF LinksOf, Replacing
<1>12. ASSUME NEW x \in Members \ {m} PROVE InviteOf(x)'
    BY <1>4, <1>6, <1>7, <1>11, InviteKept DEF StaffInv
<1>13. InviteOf(m)'
  <2>1. CASE m \in slips
      BY <1>4, <2>1 DEF InviteOf
  <2>2. CASE m \notin slips
    <3>1. Using(v, m)
        BY <1>0, <1>1, <1>2 DEF Using
    <3>2. /\ LinksOf(m) = {} /\ \A w \in Visits : Using(w, m) => w = v
          /\ ~staff[m].password /\ \A s \in Screens : ~Replacing(s, m)
          /\ m \in ousted => staff[m].password
        BY <1>3, <2>2, <3>1 DEF StaffInv, InviteOf
    <3>3. LinksOf(m)' = {} /\ \A w \in Visits : ~Using(w, m)'
        BY <1>7, <1>11, <3>2
    <3> QED BY <1>4, <1>5, <1>6, <1>11, <3>2, <3>3 DEF InviteOf
  <2> QED BY <2>1, <2>2
<1> QED BY <1>8, <1>9, <1>12, <1>13 DEF StaffInv

LEMMA AbandonKeeps ==
    ASSUME StaffInv, NEW v \in Visits, Abandon(v)
    PROVE  StaffInv'
<1>1. /\ visit' = [visit EXCEPT ![v] = [link |-> NoLink, at |-> "idle"]]
      /\ UNCHANGED <<staff, linkVars, screen, call, noteVars>>
    BY DEF Abandon
<1>2. UNCHANGED <<good, whose, latest, resets, ousted, slips>>
    BY <1>1 DEF linkVars, noteVars
<1>3. /\ visit' \in [Visits -> Visit] /\ visit'[v].link = NoLink /\ visit'[v].at = "idle"
      /\ \A w \in Visits \ {v} : visit'[w] = visit[w]
      /\ \A x \in Members, w \in Visits : Using(w, x)' => w # v /\ Using(w, x) /\ visit'[w] = visit[w]
    BY <1>1, <1>2, Idled DEF StaffInv
<1>4. StaffTyped'
    BY <1>1, <1>2, <1>3 DEF StaffInv, StaffTyped
<1>5. StaffKnown'
    BY <1>1, <1>2, <1>3, StaffingAssumption DEF StaffInv, StaffKnown
<1>6. \A x \in Members : LinksOf(x)' = LinksOf(x) /\ \A s \in Screens : Replacing(s, x)' <=> Replacing(s, x)
    BY <1>1, <1>2 DEF LinksOf, Replacing
<1>7. ASSUME NEW x \in Members PROVE InviteOf(x)'
    BY <1>1, <1>2, <1>3, <1>6, InviteKept DEF StaffInv
<1> QED BY <1>4, <1>5, <1>7 DEF StaffInv

LEMMA ExpiresKeeps ==
    ASSUME StaffInv, NEW l \in Links, LinkExpires(l)
    PROVE  StaffInv'
<1>1. /\ good' = good \ {l}
      /\ latest' = [m \in Members |-> IF latest[m] = l THEN NoLink ELSE latest[m]]
      /\ UNCHANGED <<staff, whose, resets, screen, call, visit, ousted, slips>>
    BY DEF LinkExpires, noteVars
<1>2. StaffTyped'
    BY <1>1 DEF StaffInv, StaffTyped
<1>3. StaffKnown'
    BY <1>1 DEF StaffInv, StaffKnown
<1>4. /\ \A x \in Members : LinksOf(x)' = LinksOf(x) \ {l}
      /\ \A x \in Members, s \in Screens : Replacing(s, x)' <=> Replacing(s, x)
      /\ \A x \in Members, v \in Visits : Using(v, x)' <=> Using(v, x)
    BY <1>1 DEF LinksOf, Replacing, Using
<1>5. ASSUME NEW x \in Members PROVE InviteOf(x)'
  <2>1. CASE x \in slips
      BY <1>1, <2>1 DEF InviteOf
  <2>2. CASE x \notin slips
    <3>1. LinksOf(x)' = {} \/ latest'[x] = latest[x]
        BY <1>1, <1>4, <2>2 DEF StaffInv, InviteOf
    <3> QED BY <1>1, <1>4, <3>1, InviteKept DEF StaffInv
  <2> QED BY <2>1, <2>2
<1> QED BY <1>2, <1>3, <1>5 DEF StaffInv

-----------------------------------------------------------------------------
(* Resetting a password. *)

LEMMA ResetsKeep ==
    ASSUME StaffInv, NEW m \in Members, RequestReset(m) \/ ResetEnds(m)
    PROVE  StaffInv'
<1>1. UNCHANGED <<staff, good, whose, latest, screen, call, visit, ousted, slips>>
    BY DEF RequestReset, ResetEnds, noteVars
<1>2. resets' \subseteq Members
    BY DEF RequestReset, ResetEnds, StaffInv, StaffTyped
<1>3. StaffTyped' /\ StaffKnown'
    BY <1>1, <1>2 DEF StaffInv, StaffTyped, StaffKnown
<1>4. ASSUME NEW x \in Members PROVE InviteOf(x)'
    BY <1>1, LinksLeft DEF StaffInv, Replacing
<1> QED BY <1>3, <1>4 DEF StaffInv

\* A use of a reset link that leaves the member's record as it should be.
LEMMA ResetUsed ==
    ASSUME StaffInv, NEW m \in Members, NEW n \in Member, UseReset(m),
           staff' = [staff EXCEPT ![m] = n], n.known = staff[m].known, slips \subseteq slips',
           m \in slips' \/ (n.active = staff[m].active /\ n.password = staff[m].password)
    PROVE  StaffInv'
<1>1. UNCHANGED <<good, whose, latest, screen, call, visit, ousted>> /\ resets' \subseteq Members
    BY DEF UseReset, StaffInv, StaffTyped
<1>2. /\ staff' \in [Members -> Member] /\ staff'[m] = n
      /\ \A x \in Members \ {m} : staff'[x] = staff[x]
    BY RecordStep DEF StaffInv
<1>3. \A x \in Members : staff'[x].known = staff[x].known
    BY <1>2
<1>4. StaffTyped'
    BY <1>1, <1>2 DEF StaffInv, StaffTyped
<1>5. StaffKnown'
    BY <1>1, <1>3, StaffFields, OustedKnown DEF StaffInv, StaffKnown
<1>6. ASSUME NEW x \in Members PROVE InviteOf(x)'
  <2>1. CASE x \in slips'
      BY <2>1 DEF InviteOf
  <2>2. CASE x \notin slips'
    <3>1. staff'[x].active = staff[x].active /\ staff'[x].password = staff[x].password
        BY <1>2, <2>2
    <3> QED BY <1>1, <3>1, LinksLeft DEF StaffInv, Replacing
  <2> QED BY <2>1, <2>2
<1> QED BY <1>4, <1>5, <1>6 DEF StaffInv

LEMMA ConfirmKeeps ==
    ASSUME StaffInv, NEW m \in Members, ConfirmReset(m)
    PROVE  StaffInv'
<1> DEFINE n == [staff[m] EXCEPT !.password = TRUE]
<1>1. staff' = [staff EXCEPT ![m] = n] /\ UseReset(m)
    BY DEF ConfirmReset
<1>2. slips \subseteq slips' /\ (staff[m].password \/ m \in slips')
    BY DEF ConfirmReset, Noted
<1>3. staff[m] \in Member
    BY DEF StaffInv, StaffTyped
<1>4. n \in Member /\ n.known = staff[m].known /\ n.active = staff[m].active /\ n.password
    BY <1>3 DEF Member
<1>5. m \in slips' \/ n.password = staff[m].password
    BY <1>2, <1>3, <1>4 DEF Member
<1> HIDE DEF n
<1> QED BY <1>1, <1>2, <1>4, <1>5, ResetUsed

LEMMA OnboardingKeeps ==
    ASSUME StaffInv, NEW m \in Members, FinishOnboarding(m)
    PROVE  StaffInv'
<1> DEFINE n == [staff[m] EXCEPT !.active = TRUE, !.password = TRUE]
<1>1. staff' = [staff EXCEPT ![m] = n] /\ UseReset(m) /\ slips' = slips \cup {m}
    BY DEF FinishOnboarding, Noted
<1>2. n \in Member /\ n.known = staff[m].known
    BY DEF StaffInv, StaffTyped, Member
<1> HIDE DEF n
<1> QED BY <1>1, <1>2, ResetUsed

-----------------------------------------------------------------------------
LEMMA StaffInvStep == StaffInv /\ [StaffNext]_staffVars => StaffInv'
<1> SUFFICES ASSUME StaffInv, [StaffNext]_staffVars PROVE StaffInv'
    OBVIOUS
<1>1. ASSUME NEW s \in Screens, NEW m \in Members, Refetch(s, m) \/ CreateManaged(s, m) PROVE StaffInv'
    BY <1>1, RefetchKeeps, CreateKeeps
<1>2. ASSUME NEW s \in Screens, NEW b \in Stores, Tick(s, b) PROVE StaffInv'
    BY <1>2, TickKeeps
<1>3. ASSUME NEW s \in Screens, ToggleActive(s) \/ SaveStores(s) \/ ResetPassword(s) \/ ResendInvite(s)
      PROVE  StaffInv'
    BY <1>3, StartCallKeeps DEF ToggleActive, SaveStores, ResetPassword, ResendInvite
<1>4. ASSUME NEW s \in Screens,
             \/ UpdateActive(s) \/ SetPassword(s) \/ LookUpLink(s) \/ Fails(s)
             \/ ReadAssignments(s) \/ ReplaceAssignments(s)
      PROVE  StaffInv'
    BY <1>4, ActiveKeeps, PasswordKeeps, ReadKeeps, ReplaceKeeps, LookUpKeeps, FailsKeeps
<1>5. ASSUME NEW s \in Screens, NEW l \in Links, IssueLink(s, l) PROVE StaffInv'
    BY <1>5, IssueKeeps
<1>6. ASSUME NEW v \in Visits, NEW l \in Links, OpenLink(v, l) PROVE StaffInv'
    BY <1>6, OpenKeeps
<1>7. ASSUME NEW v \in Visits, Consume(v) \/ AcceptInvite(v) \/ Abandon(v) PROVE StaffInv'
    BY <1>7, ConsumeKeeps, AcceptKeeps, AbandonKeeps
<1>8. ASSUME NEW l \in Links, LinkExpires(l) PROVE StaffInv'
    BY <1>8, ExpiresKeeps
<1>9. ASSUME NEW m \in Members,
             RequestReset(m) \/ ConfirmReset(m) \/ FinishOnboarding(m) \/ ResetEnds(m)
      PROVE  StaffInv'
    BY <1>9, ResetsKeep, ConfirmKeeps, OnboardingKeeps
<1>10. CASE UNCHANGED staffVars
  <2>1. UNCHANGED <<staff, good, whose, latest, resets, screen, call, visit, ousted, slips>>
      BY <1>10 DEF staffVars, linkVars, noteVars
  <2>2. StaffTyped' /\ StaffKnown'
      BY <2>1 DEF StaffInv, StaffTyped, StaffKnown
  <2>3. ASSUME NEW x \in Members PROVE InviteOf(x)'
      BY <2>1, LinksLeft DEF StaffInv, Replacing, linkVars
  <2> QED BY <2>2, <2>3 DEF StaffInv
<1> QED BY <1>1, <1>2, <1>3, <1>4, <1>5, <1>6, <1>7, <1>8, <1>9, <1>10 DEF StaffNext

LEMMA StaffInvariant == StaffSpec => []StaffInv
BY StaffInvInit, StaffInvStep, PTL DEF StaffSpec

-----------------------------------------------------------------------------
(* The stores of the members. *)

\* A save that has read the rows knows those that are there, but for the ones
\* other saves have written since.
SavesInv ==
    /\ saved \in [Members -> SUBSET Stores]
    /\ meanwhile \in [Screens -> SUBSET Stores]
    /\ beside \in [Members -> SUBSET Stores]
    /\ \A s \in Screens : call[s].kind = "replace" =>
         /\ call[s].rows \subseteq staff[call[s].of].stores
         /\ staff[call[s].of].stores \ call[s].rows \subseteq meanwhile[s]
    /\ LastSaveDecides

LEMMA SavesInvInit == StaffInit => SavesInv
BY DEF StaffInit, SavesInv, NoCall, Stranger, LastSaveDecides

\* A step that saves no stores and reads none.
LEMMA SavesLeft ==
    ASSUME StaffInv, SavesInv, UNCHANGED storeNotes,
           \A m \in Members : staff'[m].stores = staff[m].stores,
           \A s \in Screens : call'[s].kind = "replace" => call'[s] = call[s]
    PROVE  SavesInv'
BY StaffFields DEF StaffInv, SavesInv, storeNotes, LastSaveDecides

\* A member's record is changed in other fields than the stores.
LEMMA StoresLeft ==
    ASSUME StaffTyped, NEW m \in Members, NEW n \in Member, n.stores = staff[m].stores,
           staff' = [staff EXCEPT ![m] = n]
    PROVE  \A x \in Members : staff'[x].stores = staff[x].stores
BY RecordStep

LEMMA SavesInvStep ==
    ASSUME StaffInv, SavesInv, [StaffNext]_staffVars
    PROVE  SavesInv'
<1>0. /\ \A m \in Members : staff[m] \in Member
      /\ \A s \in Screens : call[s] \in StaffCall /\ call[s].of \in Members
    BY StaffFields DEF StaffInv, StaffTyped
<1>1. ASSUME NEW s \in Screens, Done(s)
      PROVE  \A r \in Screens : call'[r].kind = "replace" => call'[r] = call[r]
    BY <1>1, DoneCall DEF StaffInv
<1>2. ASSUME NEW s \in Screens, NEW c \in StaffCall, c.kind \notin {"replace", "issue"},
             call' = [call EXCEPT ![s] = c]
      PROVE  \A r \in Screens : call'[r].kind = "replace" => call'[r] = call[r]
    BY <1>2, NewCall DEF StaffInv
<1>3. ASSUME NEW s \in Screens,
             \/ \E m \in Members : Refetch(s, m)
             \/ \E b \in Stores : Tick(s, b)
             \/ Fails(s)
             \/ \E l \in Links : IssueLink(s, l)
      PROVE  SavesInv'
  <2>1. UNCHANGED <<staff, storeNotes>>
      BY <1>3 DEF Refetch, Tick, Fails, IssueLink, noteVars
  <2>2. UNCHANGED call \/ Done(s)
      BY <1>3 DEF Refetch, Tick, Fails, IssueLink
  <2> QED BY <1>1, <2>1, <2>2, SavesLeft
<1>4. ASSUME NEW s \in Screens, NEW kind \in {"activate", "deactivate", "password", "stores", "invite"},
             StartCall(s, kind)
      PROVE  SavesInv'
  <2> DEFINE c == [kind |-> kind, of |-> screen[s].of, stores |-> screen[s].ticked,
                   rows |-> {}, old |-> NoLink]
  <2>1. call' = [call EXCEPT ![s] = c] /\ UNCHANGED <<staff, storeNotes>>
      BY <1>4 DEF StartCall, noteVars
  <2>2. c \in StaffCall /\ c.kind \notin {"replace", "issue"}
      BY StaffFields DEF StaffInv, StaffCall
  <2> HIDE DEF c
  <2> QED BY <1>2, <2>1, <2>2, SavesLeft
<1>5. ASSUME NEW s \in Screens, NEW m \in Members, CreateManaged(s, m) PROVE SavesInv'
  <2> DEFINE c == [NoCall(m) EXCEPT !.kind = "invite"]
  <2> DEFINE n == [Stranger EXCEPT !.known = TRUE, !.stores = screen[s].ticked]
  <2>1. /\ staff' = [staff EXCEPT ![m] = n] /\ call' = [call EXCEPT ![s] = c]
        /\ saved' = [saved EXCEPT ![m] = screen[s].ticked]
        /\ UNCHANGED <<meanwhile, beside>> /\ ~staff[m].known
      BY <1>5 DEF CreateManaged
  <2>2. c \in StaffCall /\ c.kind \notin {"replace", "issue"}
      BY DEF NoCall, StaffCall
  <2>3. n \in Member /\ n.stores = screen[s].ticked /\ screen[s].ticked \in SUBSET Stores
      BY StaffFields DEF StaffInv, Stranger, Member
  <2> HIDE DEF c, n
  <2>4. /\ staff'[m] = n /\ saved'[m] = screen[s].ticked /\ saved' \in [Members -> SUBSET Stores]
        /\ \A x \in Members \ {m} : staff'[x] = staff[x] /\ saved'[x] = saved[x]
      BY <2>1, <2>3 DEF StaffInv, StaffTyped, SavesInv
  <2>5. \A r \in Screens : call'[r].kind = "replace" => call'[r] = call[r] /\ call[r].of # m
      BY <1>2, <2>1, <2>2 DEF StaffInv, StaffKnown
  <2>6. LastSaveDecides'
      BY <2>1, <2>3, <2>4 DEF SavesInv, LastSaveDecides
  <2> QED BY <1>0, <2>1, <2>4, <2>5, <2>6 DEF SavesInv
<1>6. ASSUME NEW s \in Screens, UpdateActive(s) \/ SetPassword(s) PROVE SavesInv'
  <2> DEFINE m == call[s].of
  <2>1. UNCHANGED storeNotes /\ Done(s)
      BY <1>6 DEF UpdateActive, SetPassword
  <2>2. \/ staff' = [staff EXCEPT ![m] = [staff[m] EXCEPT !.active = (call[s].kind = "activate")]]
        \/ staff' = [staff EXCEPT ![m] = [staff[m] EXCEPT !.password = TRUE]]
      BY <1>0, <1>6 DEF UpdateActive, SetPassword
  <2>3. /\ [staff[m] EXCEPT !.active = (call[s].kind = "activate")] \in Member
        /\ [staff[m] EXCEPT !.active = (call[s].kind = "activate")].stores = staff[m].stores
        /\ [staff[m] EXCEPT !.password = TRUE] \in Member
        /\ [staff[m] EXCEPT !.password = TRUE].stores = staff[m].stores
      BY <1>0 DEF Member
  <2>4. \A x \in Members : staff'[x].stores = staff[x].stores
      BY <1>0, <2>2, <2>3, StoresLeft DEF StaffInv
  <2> QED BY <1>1, <2>1, <2>4, SavesLeft
<1>7. ASSUME NEW s \in Screens, LookUpLink(s) PROVE SavesInv'
  <2>1. /\ UNCHANGED <<staff, storeNotes>>
        /\ call' = [call EXCEPT ![s] = [call[s] EXCEPT !.kind = "issue", !.old = latest[call[s].of]]]
      BY <1>7 DEF LookUpLink
  <2>2. [call[s] EXCEPT !.kind = "issue", !.old = latest[call[s].of]].kind = "issue"
      BY <1>0 DEF StaffCall
  <2>3. \A r \in Screens : call'[r].kind = "replace" => call'[r] = call[r]
      BY <2>1, <2>2 DEF StaffInv, StaffTyped
  <2> QED BY <2>1, <2>3, SavesLeft
<1>8. ASSUME NEW s \in Screens, ReadAssignments(s) PROVE SavesInv'
  <2> DEFINE c == [call[s] EXCEPT !.kind = "replace", !.rows = staff[call[s].of].stores]
  <2>1. /\ call' = [call EXCEPT ![s] = c] /\ meanwhile' = [meanwhile EXCEPT ![s] = {}]
        /\ UNCHANGED <<staff, saved, beside>>
      BY <1>0, <1>8 DEF ReadAssignments
  <2>2. c.of = call[s].of /\ c.rows = staff[call[s].of].stores
      BY <1>0 DEF StaffCall
  <2> HIDE DEF c
  <2>3. /\ call'[s] = c /\ meanwhile' \in [Screens -> SUBSET Stores]
        /\ \A r \in Screens \ {s} : call'[r] = call[r] /\ meanwhile'[r] = meanwhile[r]
      BY <2>1 DEF StaffInv, StaffTyped, SavesInv
  <2> QED BY <2>1, <2>2, <2>3 DEF SavesInv, LastSaveDecides
<1>9. ASSUME NEW s \in Screens, ReplaceAssignments(s) PROVE SavesInv'
  <2>0. PICK m \in Members : m = call[s].of
      BY <1>0
  <2> DEFINE left == staff[m].stores \ call[s].rows
  <2>1. /\ \A x \in Members : staff'[x].stores = IF x = m THEN left \cup call[s].stores
                                                 ELSE staff[x].stores
        /\ saved' = [saved EXCEPT ![m] = call[s].stores]
        /\ beside' = [beside EXCEPT ![m] = meanwhile[s]]
      BY <1>0, <1>9, <2>0 DEF ReplaceAssignments, Assigned, Member, StaffInv, StaffTyped
  <2>2. call[s].kind = "replace" /\ call[s].stores \in SUBSET Stores
      BY <1>9, StaffFields DEF ReplaceAssignments, StaffInv
  <2>3. left \subseteq meanwhile[s]
      BY <2>0, <2>2 DEF SavesInv
  <2>4. /\ meanwhile' \in [Screens -> SUBSET Stores]
        /\ \A r \in Screens \ {s} :
             meanwhile'[r] = IF Overlapping(r, m) THEN meanwhile[r] \cup call[s].stores
                             ELSE meanwhile[r]
      BY <1>9, <2>0, <2>2 DEF ReplaceAssignments, SavesInv
  <2>5. /\ call'[s].kind = "none"
        /\ \A r \in Screens \ {s} :
             /\ call'[r].kind = call[r].kind /\ call'[r].of = call[r].of
             /\ call'[r].rows = IF Overlapping(r, m) THEN call[r].rows \ call[s].rows
                                ELSE call[r].rows
      BY <1>9, <2>0, CommitCalls DEF StaffInv
  <2>6. saved' \in [Members -> SUBSET Stores] /\ beside' \in [Members -> SUBSET Stores]
      BY <2>1, <2>2 DEF SavesInv
  <2>7. LastSaveDecides'
      BY <2>1, <2>3 DEF SavesInv, LastSaveDecides
  <2>8. ASSUME NEW r \in Screens \ {s}, call'[r].kind = "replace"
        PROVE  /\ call'[r].rows \subseteq staff'[call'[r].of].stores
               /\ staff'[call'[r].of].stores \ call'[r].rows \subseteq meanwhile'[r]
    <3>1. /\ call[r].rows \subseteq staff[call[r].of].stores
          /\ staff[call[r].of].stores \ call[r].rows \subseteq meanwhile[r]
          /\ call[r].of \in Members /\ call'[r].of = call[r].of
        BY <1>0, <2>5, <2>8 DEF SavesInv
    <3>2. Overlapping(r, m) <=> call[r].of = m
        BY <2>5, <2>8 DEF Overlapping
    <3>3. CASE call[r].of = m
        BY <2>1, <2>4, <2>5, <3>1, <3>2, <3>3
    <3>4. CASE call[r].of # m
        BY <2>1, <2>4, <2>5, <3>1, <3>2, <3>4
    <3> QED BY <3>3, <3>4
  <2> QED BY <2>4, <2>5, <2>6, <2>7, <2>8 DEF SavesInv
<1>10. ASSUME NEW v \in Visits, AcceptInvite(v) PROVE SavesInv'
  <2> DEFINE m == whose[visit[v].link]
  <2>1. UNCHANGED <<call, storeNotes>> /\ m \in Members
      BY <1>10 DEF AcceptInvite, noteVars, StaffInv, StaffKnown, StaffTyped
  <2>2. \/ UNCHANGED staff
        \/ staff' = [staff EXCEPT ![m] = [staff[m] EXCEPT !.active = TRUE, !.password = TRUE]]
      BY <1>10, <2>1 DEF AcceptInvite
  <2>3. /\ [staff[m] EXCEPT !.active = TRUE, !.password = TRUE] \in Member
        /\ [staff[m] EXCEPT !.active = TRUE, !.password = TRUE].stores = staff[m].stores
      BY <1>0, <2>1 DEF Member
  <2>4. \A x \in Members : staff'[x].stores = staff[x].stores
      BY <2>1, <2>2, <2>3, StoresLeft DEF StaffInv
  <2> QED BY <2>1, <2>4, SavesLeft
<1>11. ASSUME NEW m \in Members, ConfirmReset(m) \/ FinishOnboarding(m) PROVE SavesInv'
  <2>1. UNCHANGED <<call, storeNotes>>
      BY <1>11 DEF ConfirmReset, FinishOnboarding, UseReset
  <2>2. \/ staff' = [staff EXCEPT ![m] = [staff[m] EXCEPT !.password = TRUE]]
        \/ staff' = [staff EXCEPT ![m] = [staff[m] EXCEPT !.active = TRUE, !.password = TRUE]]
      BY <1>11 DEF ConfirmReset, FinishOnboarding
  <2>3. /\ [staff[m] EXCEPT !.password = TRUE] \in Member
        /\ [staff[m] EXCEPT !.password = TRUE].stores = staff[m].stores
        /\ [staff[m] EXCEPT !.active = TRUE, !.password = TRUE] \in Member
        /\ [staff[m] EXCEPT !.active = TRUE, !.password = TRUE].stores = staff[m].stores
      BY <1>0 DEF Member
  <2>4. \A x \in Members : staff'[x].stores = staff[x].stores
      BY <2>2, <2>3, StoresLeft DEF StaffInv
  <2> QED BY <2>1, <2>4, SavesLeft
<1>12. CASE \/ \E v \in Visits : Consume(v) \/ Abandon(v) \/ \E l \in Links : OpenLink(v, l)
            \/ \E l \in Links : LinkExpires(l)
            \/ \E m \in Members : RequestReset(m) \/ ResetEnds(m)
            \/ UNCHANGED staffVars
  <2>1. UNCHANGED <<staff, call, storeNotes>>
      BY <1>12 DEF Consume, Abandon, OpenLink, LinkExpires, RequestReset, ResetEnds, staffVars, noteVars
  <2> QED BY <2>1, SavesLeft
<1>13. ASSUME NEW s \in Screens, ToggleActive(s) \/ SaveStores(s) \/ ResetPassword(s) \/ ResendInvite(s)
       PROVE  SavesInv'
    BY <1>4, <1>13 DEF ToggleActive, SaveStores, ResetPassword, ResendInvite
<1> QED
    BY <1>3, <1>5, <1>6, <1>7, <1>8, <1>9, <1>10, <1>11, <1>12, <1>13 DEF StaffNext

LEMMA SavesInvariant == StaffSpec => []SavesInv
<1>1. StaffInv /\ SavesInv /\ [StaffNext]_staffVars => SavesInv'
    BY SavesInvStep
<1> QED BY <1>1, SavesInvInit, StaffInvariant, PTL DEF StaffSpec

-----------------------------------------------------------------------------
(* What the office promises. *)

\* The history variables name members there are.
StaffNotesTyped == slips \subseteq Members

LEMMA StaffNotesStep ==
    ASSUME StaffInv, StaffNotesTyped, [StaffNext]_staffVars
    PROVE  StaffNotesTyped'
<1>0. ASSUME NEW m \in Members, NEW irregular, Noted(m, irregular)
      PROVE  slips' \subseteq Members
    BY <1>0 DEF Noted, StaffNotesTyped
<1>1. ASSUME NEW s \in Screens PROVE call[s].of \in Members
    BY StaffFields DEF StaffInv
<1>2. ASSUME NEW s \in Screens, UpdateActive(s) \/ SetPassword(s) \/ LookUpLink(s)
      PROVE  StaffNotesTyped'
    BY <1>0, <1>1, <1>2 DEF UpdateActive, SetPassword, LookUpLink, StaffNotesTyped
<1>3. ASSUME NEW m \in Members, ConfirmReset(m) \/ FinishOnboarding(m) PROVE StaffNotesTyped'
    BY <1>0, <1>3 DEF ConfirmReset, FinishOnboarding, StaffNotesTyped
<1>4. ASSUME NEW v \in Visits, NEW l \in Links, OpenLink(v, l) PROVE StaffNotesTyped'
    BY <1>0, <1>4 DEF OpenLink, StaffNotesTyped, StaffInv, StaffTyped
<1>5. ASSUME UNCHANGED slips PROVE StaffNotesTyped'
    BY <1>5 DEF StaffNotesTyped
<1>6. ASSUME NEW s \in Screens,
             \/ \E m \in Members : Refetch(s, m) \/ CreateManaged(s, m)
             \/ \E b \in Stores : Tick(s, b)
             \/ ToggleActive(s) \/ SaveStores(s) \/ ResetPassword(s) \/ ResendInvite(s)
             \/ ReadAssignments(s) \/ ReplaceAssignments(s) \/ Fails(s)
             \/ \E l \in Links : IssueLink(s, l)
      PROVE  UNCHANGED slips
    BY <1>6 DEF Refetch, CreateManaged, Tick, ToggleActive, SaveStores, ResetPassword,
                ResendInvite, StartCall, ReadAssignments, ReplaceAssignments, Fails,
                IssueLink, noteVars
<1>7. ASSUME \/ \E v \in Visits : Consume(v) \/ AcceptInvite(v) \/ Abandon(v)
             \/ \E l \in Links : LinkExpires(l)
             \/ \E m \in Members : RequestReset(m) \/ ResetEnds(m)
             \/ UNCHANGED staffVars
      PROVE  UNCHANGED slips
    BY <1>7 DEF Consume, AcceptInvite, Abandon, LinkExpires, RequestReset, ResetEnds,
                noteVars, staffVars
<1> QED BY <1>2, <1>3, <1>4, <1>5, <1>6, <1>7 DEF StaffNext

\* Members, links, screens and tabs keep their types, however many there are.
THEOREM StaffTypes == StaffSpec => []StaffTypeOK
<1>1. StaffInit => StaffNotesTyped
    BY DEF StaffInit, StaffNotesTyped
<1>2. StaffInv /\ SavesInv /\ StaffNotesTyped => StaffTypeOK
    BY DEF StaffInv, StaffTyped, SavesInv, StaffNotesTyped, StaffTypeOK
<1>3. StaffInv /\ StaffNotesTyped /\ [StaffNext]_staffVars => StaffNotesTyped'
    BY StaffNotesStep
<1> QED BY <1>1, <1>2, <1>3, StaffInvariant, SavesInvariant, PTL DEF StaffSpec


\* However many screens, tabs and links there are, a member who had a password
\* and was deactivated does not become active by an invite, unless it took an
\* irregular course (accept_invite, resend_invite).
THEOREM StaysOut == StaffSpec => []OustedStaysOut
<1>1. StaffInv => OustedStaysOut
  <2> SUFFICES ASSUME StaffInv, NEW m \in ousted, staff[m].active, m \notin slips PROVE FALSE
      BY DEF OustedStaysOut
  <2>1. m \in Members
      BY DEF StaffInv, StaffKnown, StaffTyped
  <2> QED BY <2>1 DEF StaffInv, InviteOf
<1> QED BY <1>1, StaffInvariant, PTL

\* However saves from several screens come and overlap, a member has every store
\* ticked in the last one, and besides at most what other saves wrote between its
\* read and its commit (set_businesses).
THEOREM StoresDecided == StaffSpec => []LastSaveDecides
<1>1. SavesInv => LastSaveDecides
    BY DEF SavesInv
<1> QED BY <1>1, SavesInvariant, PTL

-----------------------------------------------------------------------------
(* The stock desk: the inductive invariant. *)

DeskTyped ==
    /\ book \in Int
    /\ shelf \in Nat
    /\ note \in [Notes -> Note]
    /\ desk \in [Desks -> Desk]
    /\ misbooked \in BOOLEAN

\* A note is entered by one screen at a time, after it was written and before
\* it is filed.
NotesHeld ==
    /\ \A d \in Desks :
        /\ desk[d].call = "enter" => desk[d].note \in Notes
        /\ desk[d].call # "enter" => desk[d].note = NoNote
        /\ desk[d].served => desk[d].call # "none"
    /\ \A k \in Notes :
        /\ note[k].kind = "blank" => ~note[k].entered /\ ~note[k].filed
        /\ \A d \in Desks : desk[d].note = k => note[k].kind # "blank" /\ ~note[k].filed
        /\ \A d, e \in Desks : desk[d].note = k /\ desk[e].note = k => d = e

\* The number of a screen since which nothing has moved is up to date.
NumbersCurrent == \A d \in Desks : d \in current => desk[d].number \in {book, shelf}

\* While nothing was misbooked, a note that was entered and kept is one whose
\* screen has not had its answer.
EntriesKnown ==
    ~misbooked =>
        \A k \in Notes : note[k].entered /\ ~note[k].filed =>
            \E d \in Desks : desk[d].note = k /\ desk[d].call = "enter" /\ desk[d].served

DeskInv == DeskTyped /\ NotesHeld /\ NumbersCurrent /\ EntriesKnown /\ BookMatchesShelf

Deliveries == {k \in OpenNotes : note[k].kind = "delivery"}
Breakages == {k \in OpenNotes : note[k].kind = "breakage"}

LEMMA Counts ==
    /\ IsFiniteSet(Deliveries) /\ IsFiniteSet(Breakages)
    /\ Cardinality(Deliveries) \in Nat /\ Cardinality(Breakages) \in Nat
    /\ Owed = Cardinality(Deliveries) - Cardinality(Breakages)
<1>1. Deliveries \in SUBSET Notes /\ Breakages \in SUBSET Notes
    BY DEF Deliveries, Breakages, OpenNotes
<1>2. IsFiniteSet(Deliveries) /\ IsFiniteSet(Breakages)
    BY <1>1, FS_Subset, StockDeskAssumption
<1>3. Owed = Cardinality(Deliveries) - Cardinality(Breakages)
    BY DEF Owed, Deliveries, Breakages
<1> QED BY <1>2, <1>3, FS_CardinalityType

LEMMA NewCounts ==
    /\ IsFiniteSet(Deliveries') /\ IsFiniteSet(Breakages')
    /\ Cardinality(Deliveries') \in Nat /\ Cardinality(Breakages') \in Nat
    /\ Owed' = Cardinality(Deliveries') - Cardinality(Breakages')
<1>1. Deliveries' \in SUBSET Notes /\ Breakages' \in SUBSET Notes
    BY DEF Deliveries, Breakages, OpenNotes
<1>2. IsFiniteSet(Deliveries') /\ IsFiniteSet(Breakages')
    BY <1>1, FS_Subset, StockDeskAssumption
<1>3. Owed' = Cardinality(Deliveries') - Cardinality(Breakages')
    BY DEF Owed, Deliveries, Breakages
<1> QED BY <1>2, <1>3, FS_CardinalityType

LEMMA OneMore ==
    ASSUME NEW S, IsFiniteSet(S), NEW k, k \notin S
    PROVE  Cardinality(S \cup {k}) = Cardinality(S) + 1
BY FS_AddElement

LEMMA OneLess ==
    ASSUME NEW S, IsFiniteSet(S), NEW k, k \in S
    PROVE  Cardinality(S \ {k}) = Cardinality(S) - 1
BY FS_RemoveElement

\* What a step does to the notes, seen by what is owed.
LEMMA OwedKept ==
    ASSUME \A k \in Notes : /\ note'[k].kind = note[k].kind
                            /\ (note'[k].entered <=> note[k].entered)
    PROVE  Owed' = Owed
    <1>1. Deliveries' = Deliveries /\ Breakages' = Breakages
        BY DEF Deliveries, Breakages, OpenNotes
    <1> QED BY <1>1, Counts, NewCounts

\* k is written down: a blank note becomes one of this kind.
LEMMA OwedWritten ==
    ASSUME NEW k \in Notes, NEW kind \in {"delivery", "breakage"},
           note[k].kind = "blank", ~note[k].entered,
           note'[k].kind = kind, ~note'[k].entered,
           \A j \in Notes \ {k} : note'[j] = note[j]
    PROVE  Owed' = IF kind = "delivery" THEN Owed + 1 ELSE Owed - 1
<1>1. CASE kind = "delivery"
  <2>1. Deliveries' = Deliveries \cup {k} /\ Breakages' = Breakages /\ k \notin Deliveries
      BY <1>1 DEF Deliveries, Breakages, OpenNotes
  <2>2. Cardinality(Deliveries') = Cardinality(Deliveries) + 1
      BY <2>1, Counts, OneMore
  <2> QED BY <1>1, <2>1, <2>2, Counts, NewCounts
<1>2. CASE kind = "breakage"
  <2>1. Breakages' = Breakages \cup {k} /\ Deliveries' = Deliveries /\ k \notin Breakages
      BY <1>2 DEF Deliveries, Breakages, OpenNotes
  <2>2. Cardinality(Breakages') = Cardinality(Breakages) + 1
      BY <2>1, Counts, OneMore
  <2> QED BY <1>2, <2>1, <2>2, Counts, NewCounts
<1> QED BY <1>1, <1>2

\* k is entered: an open note is settled.
LEMMA OwedEntered ==
    ASSUME NEW k \in Notes, note[k].kind \in {"delivery", "breakage"}, ~note[k].entered,
           note'[k].entered, \A j \in Notes : note'[j].kind = note[j].kind,
           \A j \in Notes \ {k} : note'[j].entered <=> note[j].entered
    PROVE  Owed' = IF note[k].kind = "delivery" THEN Owed - 1 ELSE Owed + 1
<1>1. CASE note[k].kind = "delivery"
  <2>1. Deliveries' = Deliveries \ {k} /\ Breakages' = Breakages /\ k \in Deliveries
      BY <1>1 DEF Deliveries, Breakages, OpenNotes
  <2>2. Cardinality(Deliveries') = Cardinality(Deliveries) - 1
      BY <2>1, Counts, OneLess
  <2> QED BY <1>1, <2>1, <2>2, Counts, NewCounts
<1>2. CASE note[k].kind = "breakage"
  <2>1. Breakages' = Breakages \ {k} /\ Deliveries' = Deliveries /\ k \in Breakages
      BY <1>2 DEF Deliveries, Breakages, OpenNotes
  <2>2. Cardinality(Breakages') = Cardinality(Breakages) - 1
      BY <2>1, Counts, OneLess
  <2> QED BY <1>2, <2>1, <2>2, Counts, NewCounts
<1> QED BY <1>1, <1>2

LEMMA NothingOwed == OpenNotes = {} => Owed = 0
<1> SUFFICES ASSUME OpenNotes = {} PROVE Owed = 0
    OBVIOUS
<1>1. Deliveries = {} /\ Breakages = {}
    BY DEF Deliveries, Breakages
<1> QED BY <1>1, Counts, FS_EmptySet

LEMMA DeskInvInit == DeskInit => DeskInv
<1> SUFFICES ASSUME DeskInit PROVE DeskInv
    OBVIOUS
<1>1. Blank \in Note
    BY DEF Blank, Note
<1>2. DeskTyped
  <2>1. [number |-> Opening, call |-> "none", note |-> NoNote, served |-> FALSE] \in Desk
      BY StockDeskAssumption DEF Desk
  <2>2. note \in [Notes -> Note] /\ desk \in [Desks -> Desk]
      BY <1>1, <2>1 DEF DeskInit
  <2>3. book \in Int /\ shelf \in Nat
      BY StockDeskAssumption DEF DeskInit
  <2>4. misbooked \in BOOLEAN
      BY DEF DeskInit
  <2> QED BY <2>2, <2>3, <2>4 DEF DeskTyped
<1>3. NotesHeld
    BY StockDeskAssumption DEF DeskInit, NotesHeld, Blank
<1>4. NumbersCurrent
    BY DEF DeskInit, NumbersCurrent
<1>5. EntriesKnown
    BY DEF DeskInit, EntriesKnown, Blank
<1>6. OpenNotes = {}
    BY DEF DeskInit, OpenNotes, Blank
<1>7. BookMatchesShelf
    BY <1>6, NothingOwed, StockDeskAssumption DEF DeskInit, BookMatchesShelf
<1> QED BY <1>2, <1>3, <1>4, <1>5, <1>7 DEF DeskInv

LEMMA TakeNumberKeeps ==
    ASSUME DeskInv, NEW d \in Desks, NEW n, TakeNumber(d, n)
    PROVE  DeskInv'
<1>1. /\ n \in Int /\ n \in {book, shelf}
      /\ desk' = [desk EXCEPT ![d].number = n] /\ current' = current \cup {d}
      /\ book' = book /\ shelf' = shelf /\ note' = note /\ misbooked' = misbooked
    BY DEF TakeNumber, DeskInv, DeskTyped
<1>2. DeskTyped'
    BY <1>1 DEF DeskInv, DeskTyped, Desk
<1>3. \A e \in Desks : /\ desk'[e].call = desk[e].call /\ desk'[e].note = desk[e].note
                       /\ (desk'[e].served <=> desk[e].served)
                       /\ desk'[e].number = IF e = d THEN n ELSE desk[e].number
    BY <1>1 DEF DeskInv, DeskTyped, Desk
<1>4. NotesHeld' /\ EntriesKnown'
    BY <1>1, <1>3 DEF DeskInv, NotesHeld, EntriesKnown
<1>5. NumbersCurrent'
    BY <1>1, <1>3 DEF DeskInv, NumbersCurrent
<1>6. BookMatchesShelf'
    BY <1>1, OwedKept DEF DeskInv, BookMatchesShelf
<1> QED BY <1>2, <1>4, <1>5, <1>6 DEF DeskInv

LEMMA EnterKeeps ==
    ASSUME DeskInv, NEW d \in Desks, NEW k \in Notes, Enter(d, k)
    PROVE  DeskInv'
<1>1. /\ desk[d].call = "none" /\ note[k].kind # "blank" /\ ~note[k].filed
      /\ \A e \in Desks : desk[e].note # k
      /\ desk' = [desk EXCEPT ![d].call = "enter", ![d].note = k]
      /\ book' = book /\ shelf' = shelf /\ note' = note /\ misbooked' = misbooked
      /\ current' = current
    BY DEF Enter
<1>2. DeskTyped'
    BY <1>1 DEF DeskInv, DeskTyped, Desk
<1>3. \A e \in Desks : /\ desk'[e].call = IF e = d THEN "enter" ELSE desk[e].call
                       /\ desk'[e].note = IF e = d THEN k ELSE desk[e].note
                       /\ (desk'[e].served <=> desk[e].served)
                       /\ desk'[e].number = desk[e].number
    BY <1>1 DEF DeskInv, DeskTyped, Desk
<1>4. NotesHeld'
  <2>1. ASSUME NEW e \in Desks
        PROVE  /\ desk'[e].call = "enter" => desk'[e].note \in Notes
               /\ desk'[e].call # "enter" => desk'[e].note = NoNote
               /\ desk'[e].served => desk'[e].call # "none"
    <3>1. CASE e = d
        BY <1>1, <1>3, <3>1, ZenonT(30) DEF DeskInv, NotesHeld
    <3>2. CASE e # d
        BY <1>3, <3>2 DEF DeskInv, NotesHeld
    <3> QED BY <3>1, <3>2
  <2>2. ASSUME NEW j \in Notes, NEW e \in Desks, desk'[e].note = j
        PROVE  note'[j].kind # "blank" /\ ~note'[j].filed
    <3>1. CASE e = d
        BY <1>1, <1>3, <2>2, <3>1
    <3>2. CASE e # d
        BY <1>1, <1>3, <2>2, <3>2 DEF DeskInv, NotesHeld
    <3> QED BY <3>1, <3>2
  <2>3. ASSUME NEW j \in Notes, NEW e \in Desks, NEW f \in Desks,
               desk'[e].note = j, desk'[f].note = j
        PROVE  e = f
    <3>1. CASE j = k
        BY <1>1, <1>3, <2>3, <3>1
    <3>2. CASE j # k
        BY <1>3, <2>3, <3>2 DEF DeskInv, NotesHeld
    <3> QED BY <3>1, <3>2
  <2>4. \A j \in Notes : note'[j].kind = "blank" => ~note'[j].entered /\ ~note'[j].filed
      BY <1>1 DEF DeskInv, NotesHeld
  <2> QED BY <2>1, <2>2, <2>3, <2>4 DEF NotesHeld
<1>5. NumbersCurrent'
    BY <1>1, <1>3 DEF DeskInv, NumbersCurrent
<1>6. EntriesKnown'
  <2> SUFFICES ASSUME ~misbooked, NEW j \in Notes, note[j].entered, ~note[j].filed
               PROVE  \E e \in Desks : desk'[e].note = j /\ desk'[e].call = "enter"
                                       /\ desk'[e].served
      BY <1>1 DEF EntriesKnown
  <2>1. PICK e \in Desks : desk[e].note = j /\ desk[e].call = "enter" /\ desk[e].served
      BY DEF DeskInv, EntriesKnown
  <2>2. e # d
      BY <1>1, <2>1
  <2> QED BY <1>3, <2>1, <2>2
<1>7. BookMatchesShelf'
    BY <1>1, OwedKept DEF DeskInv, BookMatchesShelf
<1> QED BY <1>2, <1>4, <1>5, <1>6, <1>7 DEF DeskInv

LEMMA CountKeeps ==
    ASSUME DeskInv, NEW d \in Desks, Count(d)
    PROVE  DeskInv'
<1>1. /\ desk[d].call = "none" /\ desk' = [desk EXCEPT ![d].call = "count"]
      /\ book' = book /\ shelf' = shelf /\ note' = note /\ misbooked' = misbooked
      /\ current' = current
    BY DEF Count
<1>2. DeskTyped'
    BY <1>1 DEF DeskInv, DeskTyped, Desk
<1>3. \A e \in Desks : /\ desk'[e].call = IF e = d THEN "count" ELSE desk[e].call
                       /\ desk'[e].note = desk[e].note
                       /\ (desk'[e].served <=> desk[e].served)
                       /\ desk'[e].number = desk[e].number
    BY <1>1 DEF DeskInv, DeskTyped, Desk
<1>4. NotesHeld' /\ EntriesKnown'
    BY <1>1, <1>3 DEF DeskInv, NotesHeld, EntriesKnown
<1>5. NumbersCurrent'
    BY <1>1, <1>3 DEF DeskInv, NumbersCurrent
<1>6. BookMatchesShelf'
    BY <1>1, OwedKept DEF DeskInv, BookMatchesShelf
<1> QED BY <1>2, <1>4, <1>5, <1>6 DEF DeskInv

\* What moves while nobody watches: after it no screen's number is current.
LEMMA MovedCurrent == ASSUME Moved PROVE NumbersCurrent'
BY DEF Moved, NumbersCurrent

LEMMA WrittenKeeps ==
    ASSUME DeskInv, NEW k \in Notes, Deliver(k) \/ Break(k)
    PROVE  DeskInv'
<1>1. PICK kd \in {"delivery", "breakage"} :
          /\ note[k].kind = "blank" /\ note' = [note EXCEPT ![k].kind = kd]
          /\ shelf' = IF kd = "delivery" THEN shelf + 1 ELSE shelf - 1
          /\ kd = "breakage" => shelf > 0
          /\ book' = book /\ desk' = desk /\ misbooked' = misbooked /\ Moved
    BY DEF Deliver, Break
<1>2. DeskTyped'
    BY <1>1 DEF DeskInv, DeskTyped, Note
<1>3. /\ note'[k].kind = kd /\ (note'[k].entered <=> note[k].entered)
      /\ note'[k].filed = note[k].filed
      /\ \A j \in Notes \ {k} : note'[j] = note[j]
    BY <1>1 DEF DeskInv, DeskTyped, Note
<1>4. ~note[k].entered /\ ~note[k].filed /\ \A e \in Desks : desk[e].note # k
    BY <1>1 DEF DeskInv, NotesHeld
<1>5. NotesHeld'
  <2>1. \A j \in Notes : note'[j].kind = "blank" => ~note'[j].entered /\ ~note'[j].filed
      BY <1>1, <1>3, <1>4 DEF DeskInv, NotesHeld
  <2>2. \A j \in Notes : \A e \in Desks :
            desk'[e].note = j => note'[j].kind # "blank" /\ ~note'[j].filed
      BY <1>1, <1>3, <1>4 DEF DeskInv, NotesHeld
  <2> QED BY <1>1, <2>1, <2>2 DEF DeskInv, NotesHeld
<1>6. EntriesKnown'
    BY <1>1, <1>3, <1>4 DEF DeskInv, EntriesKnown
<1>7. Owed' = IF kd = "delivery" THEN Owed + 1 ELSE Owed - 1
    BY <1>1, <1>3, <1>4, OwedWritten
<1>8. BookMatchesShelf'
    BY <1>1, <1>7, Counts DEF DeskInv, DeskTyped, BookMatchesShelf
<1> QED BY <1>1, <1>2, <1>5, <1>6, <1>8, MovedCurrent DEF DeskInv

LEMMA SellKeeps ==
    ASSUME DeskInv, Sell
    PROVE  DeskInv'
<1>1. /\ shelf > 0 /\ book > 0 /\ shelf' = shelf - 1 /\ book' = book - 1
      /\ note' = note /\ desk' = desk /\ misbooked' = misbooked /\ Moved
    BY DEF Sell
<1>2. DeskTyped'
    BY <1>1 DEF DeskInv, DeskTyped
<1>3. NotesHeld' /\ EntriesKnown'
    BY <1>1 DEF DeskInv, NotesHeld, EntriesKnown
<1>4. BookMatchesShelf'
    BY <1>1, OwedKept, Counts DEF DeskInv, DeskTyped, BookMatchesShelf
<1> QED BY <1>1, <1>2, <1>3, <1>4, MovedCurrent DEF DeskInv

LEMMA ServeEnterKeeps ==
    ASSUME DeskInv, NEW d \in Desks, ServeEnter(d)
    PROVE  DeskInv'
<1>1. PICK k : k = desk[d].note
    OBVIOUS
<1>2. /\ desk[d].call = "enter" /\ ~desk[d].served
      /\ book' = book + Change(k) /\ note' = [note EXCEPT ![k].entered = TRUE]
      /\ desk' = [desk EXCEPT ![d].served = TRUE]
      /\ shelf' = shelf /\ misbooked' = misbooked /\ Moved
    BY <1>1 DEF ServeEnter
<1>3. k \in Notes /\ note[k].kind \in {"delivery", "breakage"} /\ ~note[k].filed
    BY <1>1, <1>2 DEF DeskInv, DeskTyped, Note, NotesHeld
<1>4. Change(k) \in Int /\ Change(k) = IF note[k].kind = "delivery" THEN 1 ELSE -1
    BY <1>3 DEF Change
<1>5. DeskTyped'
  <2>1. note' \in [Notes -> Note]
      BY <1>2, <1>3 DEF DeskInv, DeskTyped, Note
  <2>2. desk' \in [Desks -> Desk]
      BY <1>2 DEF DeskInv, DeskTyped, Desk
  <2>3. book' \in Int
      BY <1>2, <1>4 DEF DeskInv, DeskTyped
  <2> QED BY <1>2, <2>1, <2>2, <2>3 DEF DeskInv, DeskTyped
<1>6. /\ \A j \in Notes : /\ note'[j].kind = note[j].kind /\ (note'[j].filed <=> note[j].filed)
                          /\ (note'[j].entered <=> (j = k \/ note[j].entered))
      /\ \A e \in Desks : /\ desk'[e].call = desk[e].call /\ desk'[e].note = desk[e].note
                          /\ (desk'[e].served <=> (e = d \/ desk[e].served))
    BY <1>2, <1>3 DEF DeskInv, DeskTyped, Note, Desk
<1>7. NotesHeld'
  <2>1. \A e \in Desks : /\ desk'[e].call = "enter" => desk'[e].note \in Notes
                         /\ desk'[e].call # "enter" => desk'[e].note = NoNote
                         /\ desk'[e].served => desk'[e].call # "none"
      BY <1>2, <1>6 DEF DeskInv, NotesHeld
  <2>2. \A j \in Notes :
            /\ note'[j].kind = "blank" => ~note'[j].entered /\ ~note'[j].filed
            /\ \A e \in Desks : desk'[e].note = j => note'[j].kind # "blank" /\ ~note'[j].filed
            /\ \A e, f \in Desks : desk'[e].note = j /\ desk'[f].note = j => e = f
      BY <1>3, <1>6 DEF DeskInv, NotesHeld
  <2> QED BY <2>1, <2>2 DEF NotesHeld
<1>8. EntriesKnown'
    BY <1>1, <1>2, <1>6 DEF DeskInv, EntriesKnown
<1>9. BookMatchesShelf'
  <2> SUFFICES ASSUME ~misbooked PROVE (book + Owed = shelf)'
      BY <1>2 DEF BookMatchesShelf
  <2>1. ~note[k].entered
      BY <1>1, <1>2, <1>3 DEF DeskInv, EntriesKnown, NotesHeld
  <2>2. Owed' = IF note[k].kind = "delivery" THEN Owed - 1 ELSE Owed + 1
    <3>1. note'[k].entered /\ \A j \in Notes : note'[j].kind = note[j].kind
        BY <1>3, <1>6
    <3>2. \A j \in Notes \ {k} : (note'[j].entered <=> note[j].entered)
        BY <1>3, <1>6 DEF DeskInv, DeskTyped, Note
    <3> QED BY <1>3, <2>1, <3>1, <3>2, OwedEntered
  <2>3. book + Owed = shelf
      BY DEF DeskInv, BookMatchesShelf
  <2> QED BY <1>2, <1>4, <2>2, <2>3, Counts DEF DeskInv, DeskTyped
<1> QED BY <1>2, <1>5, <1>7, <1>8, <1>9, MovedCurrent DEF DeskInv

LEMMA ServeCountKeeps ==
    ASSUME DeskInv, NEW d \in Desks, ServeCount(d)
    PROVE  DeskInv'
<1>1. /\ desk[d].call = "count" /\ ~desk[d].served /\ book' = desk[d].number
      /\ desk' = [desk EXCEPT ![d].served = TRUE]
      /\ misbooked' = (misbooked \/ d \notin current \/ OpenNotes # {})
      /\ Moved /\ shelf' = shelf /\ note' = note
    BY DEF ServeCount
<1>2. DeskTyped'
    BY <1>1 DEF DeskInv, DeskTyped, Desk
<1>3. \A e \in Desks : /\ desk'[e].call = desk[e].call /\ desk'[e].note = desk[e].note
                       /\ (desk'[e].served <=> (e = d \/ desk[e].served))
    BY <1>1 DEF DeskInv, DeskTyped, Desk
<1>4. NotesHeld'
  <2>1. \A e \in Desks : /\ desk'[e].call = "enter" => desk'[e].note \in Notes
                         /\ desk'[e].call # "enter" => desk'[e].note = NoNote
                         /\ desk'[e].served => desk'[e].call # "none"
      BY <1>1, <1>3 DEF DeskInv, NotesHeld
  <2> QED BY <1>1, <1>3, <2>1 DEF DeskInv, NotesHeld
<1>5. EntriesKnown'
  <2> SUFFICES ASSUME ~misbooked', NEW k \in Notes, note[k].entered, ~note[k].filed
               PROVE  \E e \in Desks : desk'[e].note = k /\ desk'[e].call = "enter"
                                       /\ desk'[e].served
      BY <1>1 DEF EntriesKnown
  <2>1. ~misbooked
      BY <1>1 DEF DeskInv, DeskTyped
  <2>2. PICK e \in Desks : desk[e].note = k /\ desk[e].call = "enter" /\ desk[e].served
      BY <2>1 DEF DeskInv, EntriesKnown
  <2> QED BY <1>3, <2>2
<1>6. BookMatchesShelf'
  <2> SUFFICES ASSUME ~misbooked' PROVE (book + Owed = shelf)'
      BY DEF BookMatchesShelf
  <2>1. ~misbooked /\ d \in current /\ OpenNotes = {}
      BY <1>1 DEF DeskInv, DeskTyped
  <2>2. Owed = 0 /\ Owed' = Owed
      BY <1>1, <2>1, NothingOwed, OwedKept
  <2>3. book = shelf /\ desk[d].number = shelf
      BY <2>1, <2>2 DEF DeskInv, DeskTyped, BookMatchesShelf, NumbersCurrent
  <2> QED BY <1>1, <2>2, <2>3 DEF DeskInv, DeskTyped
<1> QED BY <1>1, <1>2, <1>4, <1>5, <1>6, MovedCurrent DEF DeskInv

LEMMA Idling ==
    ASSUME DeskTyped, NEW d \in Desks
    PROVE  /\ Idle(d) \in [Desks -> Desk]
           /\ \A e \in Desks :
                /\ Idle(d)[e].call = IF e = d THEN "none" ELSE desk[e].call
                /\ Idle(d)[e].note = IF e = d THEN NoNote ELSE desk[e].note
                /\ (Idle(d)[e].served <=> e # d /\ desk[e].served)
                /\ Idle(d)[e].number = desk[e].number
BY DEF DeskTyped, Idle, Desk

LEMMA AnsweredKeeps ==
    ASSUME DeskInv, NEW d \in Desks, Answered(d)
    PROVE  DeskInv'
<1>1. /\ desk[d].served /\ desk' = [Idle(d) EXCEPT ![d].number = book]
      /\ note' = [k \in Notes |-> IF k = desk[d].note THEN [note[k] EXCEPT !.filed = TRUE]
                                  ELSE note[k]]
      /\ current' = current \cup {d}
      /\ book' = book /\ shelf' = shelf /\ misbooked' = misbooked
    BY DEF Answered
<1>2. /\ desk' \in [Desks -> Desk]
      /\ \A e \in Desks :
           /\ desk'[e].call = IF e = d THEN "none" ELSE desk[e].call
           /\ desk'[e].note = IF e = d THEN NoNote ELSE desk[e].note
           /\ (desk'[e].served <=> e # d /\ desk[e].served)
           /\ desk'[e].number = IF e = d THEN book ELSE desk[e].number
  <2>1. book \in Int /\ Idle(d) \in [Desks -> Desk]
      BY Idling DEF DeskInv, DeskTyped
  <2>2. /\ desk' \in [Desks -> Desk]
        /\ \A e \in Desks :
             /\ desk'[e].call = Idle(d)[e].call /\ desk'[e].note = Idle(d)[e].note
             /\ (desk'[e].served <=> Idle(d)[e].served)
             /\ desk'[e].number = IF e = d THEN book ELSE Idle(d)[e].number
      BY <1>1, <2>1 DEF Desk
  <2> QED BY <2>2, Idling DEF DeskInv
<1>3. /\ note' \in [Notes -> Note]
      /\ \A k \in Notes : /\ note'[k].kind = note[k].kind
                          /\ (note'[k].entered <=> note[k].entered)
                          /\ (note'[k].filed <=> (k = desk[d].note \/ note[k].filed))
    BY <1>1 DEF DeskInv, DeskTyped, Note
<1>4. DeskTyped'
    BY <1>1, <1>2, <1>3 DEF DeskInv, DeskTyped
<1>5. NotesHeld'
  <2>1. \A e \in Desks : /\ desk'[e].call = "enter" => desk'[e].note \in Notes
                         /\ desk'[e].call # "enter" => desk'[e].note = NoNote
                         /\ desk'[e].served => desk'[e].call # "none"
      BY <1>2 DEF DeskInv, NotesHeld
  <2>2. \A j \in Notes :
            /\ note'[j].kind = "blank" => ~note'[j].entered /\ ~note'[j].filed
            /\ \A e \in Desks : desk'[e].note = j => note'[j].kind # "blank" /\ ~note'[j].filed
            /\ \A e, f \in Desks : desk'[e].note = j /\ desk'[f].note = j => e = f
      BY <1>2, <1>3, StockDeskAssumption DEF DeskInv, NotesHeld
  <2> QED BY <2>1, <2>2 DEF NotesHeld
<1>6. NumbersCurrent'
    BY <1>1, <1>2 DEF DeskInv, NumbersCurrent
<1>7. EntriesKnown'
  <2> SUFFICES ASSUME ~misbooked, NEW k \in Notes, note'[k].entered, ~note'[k].filed
               PROVE  \E e \in Desks : desk'[e].note = k /\ desk'[e].call = "enter"
                                       /\ desk'[e].served
      BY <1>1 DEF EntriesKnown
  <2>1. note[k].entered /\ ~note[k].filed /\ k # desk[d].note
      BY <1>3
  <2>2. PICK e \in Desks : desk[e].note = k /\ desk[e].call = "enter" /\ desk[e].served
      BY <2>1 DEF DeskInv, EntriesKnown
  <2> QED BY <1>2, <2>1, <2>2
<1>8. BookMatchesShelf'
    BY <1>1, <1>3, OwedKept DEF DeskInv, BookMatchesShelf
<1> QED BY <1>4, <1>5, <1>6, <1>7, <1>8 DEF DeskInv

LEMMA FailedKeeps ==
    ASSUME DeskInv, NEW d \in Desks, Failed(d)
    PROVE  DeskInv'
<1>1. /\ desk' = Idle(d)
      /\ misbooked' = (misbooked \/ (desk[d].served /\ desk[d].call = "enter"))
      /\ book' = book /\ shelf' = shelf /\ note' = note /\ current' = current
    BY DEF Failed
<1>2. /\ desk' \in [Desks -> Desk]
      /\ \A e \in Desks :
           /\ desk'[e].call = IF e = d THEN "none" ELSE desk[e].call
           /\ desk'[e].note = IF e = d THEN NoNote ELSE desk[e].note
           /\ (desk'[e].served <=> e # d /\ desk[e].served)
           /\ desk'[e].number = desk[e].number
    BY <1>1, Idling DEF DeskInv
<1>3. DeskTyped'
    BY <1>1, <1>2 DEF DeskInv, DeskTyped
<1>4. NotesHeld'
  <2>1. \A e \in Desks : /\ desk'[e].call = "enter" => desk'[e].note \in Notes
                         /\ desk'[e].call # "enter" => desk'[e].note = NoNote
                         /\ desk'[e].served => desk'[e].call # "none"
      BY <1>2 DEF DeskInv, NotesHeld
  <2>2. \A j \in Notes :
            /\ note'[j].kind = "blank" => ~note'[j].entered /\ ~note'[j].filed
            /\ \A e \in Desks : desk'[e].note = j => note'[j].kind # "blank" /\ ~note'[j].filed
            /\ \A e, f \in Desks : desk'[e].note = j /\ desk'[f].note = j => e = f
      BY <1>1, <1>2, StockDeskAssumption DEF DeskInv, NotesHeld
  <2> QED BY <2>1, <2>2 DEF NotesHeld
<1>5. NumbersCurrent'
    BY <1>1, <1>2 DEF DeskInv, NumbersCurrent
<1>6. EntriesKnown'
  <2> SUFFICES ASSUME ~misbooked', NEW k \in Notes, note'[k].entered, ~note'[k].filed
               PROVE  \E e \in Desks : desk'[e].note = k /\ desk'[e].call = "enter"
                                       /\ desk'[e].served
      BY DEF EntriesKnown
  <2>1. ~misbooked /\ ~(desk[d].served /\ desk[d].call = "enter")
      BY <1>1 DEF DeskInv, DeskTyped
  <2>2. PICK e \in Desks : desk[e].note = k /\ desk[e].call = "enter" /\ desk[e].served
      BY <1>1, <2>1 DEF DeskInv, EntriesKnown
  <2> QED BY <1>2, <2>1, <2>2
<1>7. BookMatchesShelf'
  <2>1. ~misbooked' => ~misbooked
      BY <1>1 DEF DeskInv, DeskTyped
  <2> QED BY <1>1, <2>1, OwedKept DEF DeskInv, BookMatchesShelf
<1> QED BY <1>3, <1>4, <1>5, <1>6, <1>7 DEF DeskInv

LEMMA DeskInvStep == DeskInv /\ [DeskNext]_deskVars => DeskInv'
<1> SUFFICES ASSUME DeskInv, [DeskNext]_deskVars PROVE DeskInv'
    OBVIOUS
<1>1. CASE Sell
    BY <1>1, SellKeeps
<1>2. CASE \E k \in Notes : Deliver(k) \/ Break(k)
    BY <1>2, WrittenKeeps
<1>3. CASE \E d \in Desks : TakeNumber(d, book) \/ TakeNumber(d, shelf)
    BY <1>3, TakeNumberKeeps
<1>4. CASE \E d \in Desks : \E k \in Notes : Enter(d, k)
    BY <1>4, EnterKeeps
<1>5. CASE \E d \in Desks : Count(d)
    BY <1>5, CountKeeps
<1>6. CASE \E d \in Desks : ServeEnter(d)
    BY <1>6, ServeEnterKeeps
<1>7. CASE \E d \in Desks : ServeCount(d)
    BY <1>7, ServeCountKeeps
<1>8. CASE \E d \in Desks : Answered(d)
    BY <1>8, AnsweredKeeps
<1>9. CASE \E d \in Desks : Failed(d)
    BY <1>9, FailedKeeps
<1>10. CASE UNCHANGED deskVars
  <2>1. /\ book' = book /\ shelf' = shelf /\ note' = note /\ desk' = desk
        /\ current' = current /\ misbooked' = misbooked
      BY <1>10 DEF deskVars
  <2>2. DeskTyped' /\ NotesHeld' /\ NumbersCurrent' /\ EntriesKnown'
      BY <2>1 DEF DeskInv, DeskTyped, NotesHeld, NumbersCurrent, EntriesKnown
  <2>3. BookMatchesShelf'
      BY <2>1, OwedKept DEF DeskInv, BookMatchesShelf
  <2> QED BY <2>2, <2>3 DEF DeskInv
<1> QED
    BY <1>1, <1>2, <1>3, <1>4, <1>5, <1>6, <1>7, <1>8, <1>9, <1>10 DEF DeskNext

LEMMA DeskInvariant == DeskSpec => []DeskInv
BY DeskInvInit, DeskInvStep, PTL DEF DeskSpec

\* However deliveries, breakages, counts and sales on any number of screens
\* interleave, the book and the notes still open give the goods on the shelf,
\* unless an entry's answer was lost or a count came at the wrong time
\* (restock, adjust_stock, count_stock and postStock together).
THEOREM BookKept == DeskSpec => []BookMatchesShelf
<1>1. DeskInv => BookMatchesShelf
    BY DEF DeskInv
<1> QED BY <1>1, DeskInvariant, PTL

\* The book is a number, and the screens keep their calls and notes apart.
THEOREM DeskTypes == DeskSpec => []DeskTypeOK
<1>1. DeskInit => current \subseteq Desks
    BY DEF DeskInit
<1>2. DeskInv /\ current \subseteq Desks => DeskTypeOK
    BY DEF DeskInv, DeskTyped, DeskTypeOK
<1>3. current \subseteq Desks /\ [DeskNext]_deskVars => (current \subseteq Desks)'
  <2> SUFFICES ASSUME current \subseteq Desks, DeskNext PROVE current' \subseteq Desks
      BY DEF deskVars
  <2>1. ASSUME Moved PROVE current' \subseteq Desks
      BY <2>1 DEF Moved
  <2>2. CASE Sell \/ \E k \in Notes : Deliver(k) \/ Break(k)
      BY <2>1, <2>2 DEF Sell, Deliver, Break
  <2>3. ASSUME NEW d \in Desks, ServeEnter(d) \/ ServeCount(d) PROVE current' \subseteq Desks
      BY <2>1, <2>3 DEF ServeEnter, ServeCount
  <2>4. ASSUME NEW d \in Desks, TakeNumber(d, book) \/ TakeNumber(d, shelf) \/ Answered(d)
        PROVE  current' \subseteq Desks
      BY <2>4 DEF TakeNumber, Answered
  <2>5. ASSUME NEW d \in Desks, Count(d) \/ Failed(d) \/ \E k \in Notes : Enter(d, k)
        PROVE  current' \subseteq Desks
      BY <2>5 DEF Count, Failed, Enter
  <2> QED BY <2>2, <2>3, <2>4, <2>5 DEF DeskNext
<1> QED BY <1>1, <1>2, <1>3, DeskInvariant, PTL DEF DeskSpec

-----------------------------------------------------------------------------
(* The support inbox: the inductive invariant. *)

\* Conversations, fetches and the reply refer to each other as they should.
ThreadsKnown ==
    /\ log \in [Conversations -> SUBSET Messages]
    /\ selected \in Thread /\ joined \in Thread
    /\ loads \subseteq Fetch
    /\ joined = NoConversation => wire = {} /\ socket = "none"
    /\ selected = NoConversation => shown = {} /\ joined = NoConversation
    /\ reply.sending => reply.to \in Conversations /\ selected # NoConversation
    /\ reply.message # NoMessage => reply.sending /\ reply.message \in log[reply.to]

\* What a fetch has read, and what is on the wire, is of its conversation; the
\* wire is of the one the socket has joined.
NothingForeign ==
    /\ \A f \in loads : f.answered => f.seen \subseteq log[f.of]
    /\ joined # NoConversation => wire \subseteq log[joined]
    /\ selected # NoConversation => shown \subseteq log[selected] \cup strays
    /\ reply.message # NoMessage => reply.to = selected \/ reply.message \in strays

\* What a fetch has not read is still to be published, or counted as unheard:
\* the fetch will replace the screen.
NothingForgotten ==
    /\ \A f \in loads : f.answered => log[f.of] \subseteq f.seen \cup unpublished \cup unheard
    /\ NothingElseMissed

ChatInv == ThreadsKnown /\ NothingForeign /\ NothingForgotten

-----------------------------------------------------------------------------
LEMMA ChatInvInit == ChatInit => ChatInv
BY DEF ChatInit, ChatInv, ThreadsKnown, NothingForeign, NothingForgotten, NothingElseMissed,
       Thread, NoReply

\* A message that is committed is in one more log.
LEMMA MessageCommitted ==
    ASSUME ThreadsKnown, NEW c \in Conversations, NEW m \in Messages, Commit(c, m)
    PROVE  /\ log' \in [Conversations -> SUBSET Messages]
           /\ m \in log'[c]
           /\ \A d \in Conversations : log[d] \subseteq log'[d] /\ log'[d] \subseteq log[d] \cup {m}
           /\ unpublished' = unpublished \cup {m}
BY DEF ThreadsKnown, Commit

LEMMA ChatInvStep == ChatInv /\ [ChatNext]_chatVars => ChatInv'
<1> SUFFICES ASSUME ChatInv, [ChatNext]_chatVars PROVE ChatInv'
    OBVIOUS
<1> USE SupportAssumption
<1> USE DEF ChatInv, ThreadsKnown, NothingForeign, NothingForgotten, NothingElseMissed, Thread
<1>0. \A f \in loads : f.of \in Conversations
    BY DEF Fetch
<1>1. ASSUME NEW c \in Conversations, LoadThread(c) PROVE ChatInv'
  <2> DEFINE g == [of |-> c, answered |-> FALSE, seen |-> {}]
  <2>1. g \in Fetch /\ ~g.answered
      BY DEF Fetch
  <2>2. loads' = loads \cup {g}
      BY <1>1 DEF LoadThread
  <2>3. UNCHANGED <<log, unpublished, selected, shown, joined, socket, wire, reply, unheard, strays>>
      BY <1>1 DEF LoadThread
  <2> HIDE DEF g
  <2> QED BY <2>1, <2>2, <2>3
<1>2. ASSUME NEW c \in Conversations, NEW m \in Messages, OthersWrite(c, m) PROVE ChatInv'
  <2>1. Commit(c, m) /\ UNCHANGED <<selected, shown, joined, socket, wire, loads, reply, unheard, strays>>
      BY <1>2 DEF OthersWrite
  <2>2. ThreadsKnown'
      BY <2>1, MessageCommitted
  <2>3. NothingForeign'
      BY <2>1, <1>0, MessageCommitted
  <2>4. NothingForgotten'
      BY <2>1, <1>0, MessageCommitted
  <2> QED BY <2>2, <2>3, <2>4
<1>3. ASSUME NEW m \in Messages, NEW works \in BOOLEAN, PublishMessage(m, works) PROVE ChatInv'
  <2>1. /\ Carried(m) => /\ Hears(m) /\ \A f \in loads : f.answered => m \in f.seen
        /\ Hears(m) => m \in log[joined] /\ socket = "open"
      BY DEF Carried, Hears
  <2>2. ~Carried(m) \/ ~works => unheard' = unheard \cup {m}
      BY <1>3 DEF PublishMessage
  <2>3. Carried(m) /\ works => unheard' = unheard /\ wire' = wire \cup {m}
      BY <1>3, <2>1 DEF PublishMessage
  <2>4. /\ unpublished' = unpublished \ {m}
        /\ wire \subseteq wire' /\ wire' \subseteq wire \cup {m} /\ (m \in wire' => m \in wire \/ m \in log[joined])
        /\ UNCHANGED <<log, selected, shown, joined, socket, loads, reply, strays>>
      BY <1>3, <2>1 DEF PublishMessage
  <2>5. NothingForgotten'
      BY <2>1, <2>2, <2>3, <2>4
  <2>6. joined = NoConversation => wire' = {}
      BY <1>3, <2>1 DEF PublishMessage
  <2> QED BY <2>4, <2>5, <2>6
<1>4. ASSUME NEW m \in Messages, DeliverMessage(m) PROVE ChatInv'
    BY <1>4 DEF DeliverMessage, With
<1>5. ASSUME NEW m \in Messages, ServeReply(m) PROVE ChatInv'
  <2>1. reply.to \in Conversations /\ Commit(reply.to, m)
      BY <1>5 DEF ServeReply
  <2>2. reply'.message = m /\ reply'.to = reply.to /\ reply'.sending
      BY <1>5 DEF ServeReply
  <2>3. UNCHANGED <<selected, shown, joined, socket, wire, loads, unheard>>
      BY <1>5 DEF ServeReply
  <2>4. strays \subseteq strays' /\ (reply.to # selected => m \in strays')
      BY <1>5 DEF ServeReply
  <2>5. ThreadsKnown'
      BY <1>5, <2>1, <2>2, <2>3, MessageCommitted DEF ServeReply
  <2>6. NothingForeign'
      BY <1>0, <2>1, <2>2, <2>3, <2>4, MessageCommitted
  <2>7. NothingForgotten'
      BY <1>0, <2>1, <2>3, MessageCommitted
  <2> QED BY <2>5, <2>6, <2>7
<1>6. ASSUME NEW f \in loads, ServeThread(f) PROVE ChatInv'
  <2> DEFINE g == [f EXCEPT !.answered = TRUE, !.seen = log[f.of]]
  <2>1. g \in Fetch /\ g.of = f.of /\ g.answered /\ g.seen = log[f.of]
      BY DEF Fetch
  <2>2. loads' = (loads \ {f}) \cup {g}
      BY <1>6 DEF ServeThread
  <2>3. UNCHANGED <<log, unpublished, selected, shown, joined, socket, wire, reply, unheard, strays>>
      BY <1>6 DEF ServeThread
  <2> HIDE DEF g
  <2> QED BY <2>1, <2>2, <2>3
<1>7. ASSUME NEW f \in loads, ShowThread(f) PROVE ChatInv'
  <2>1. /\ f.answered /\ f.of \in Conversations
        /\ loads' = loads \ {f} /\ selected' = f.of /\ shown' = f.seen
        /\ joined = selected
        /\ UNCHANGED <<log, unpublished, joined, socket, wire, reply>>
      BY <1>7 DEF ShowThread, ReplacedBy, Fetch
  <2>4. reply.to # f.of /\ reply.message # NoMessage => reply.message \in strays'
      BY <1>7 DEF ShowThread
  <2>5. unheard' = unheard \ Secured(f)
      BY <1>7 DEF ShowThread
  <2>6. \A m \in Secured(f) : m \in f.seen /\ \A g \in loads \ {f} : g.answered => m \in g.seen
      BY DEF Secured
  <2>7. log[f.of] \subseteq f.seen \cup unpublished \cup unheard
      BY <2>1
  <2>8. NothingForgotten'
      BY <2>1, <2>5, <2>6, <2>7
  <2>9. NothingForeign' /\ ThreadsKnown'
      BY <2>1, <2>4
  <2> QED BY <2>8, <2>9
<1>8. ASSUME NEW f \in loads, LoadFails(f) PROVE ChatInv'
    BY <1>8 DEF LoadFails
<1>9. CASE SwitchSocket \/ Connect \/ Disconnect
    BY <1>9 DEF SwitchSocket, Connect, Disconnect
<1>10. CASE SendReply
    BY <1>10 DEF SendReply
<1>11. CASE ReplyAnswered
    BY <1>11 DEF ReplyAnswered, NoReply
<1>12. CASE ReplyFails
    BY <1>12 DEF ReplyFails, NoReply
<1>13. CASE UNCHANGED chatVars
    BY <1>13 DEF chatVars
<1> QED BY <1>1, <1>2, <1>3, <1>4, <1>5, <1>6, <1>7, <1>8, <1>9, <1>10, <1>11, <1>12, <1>13
        DEF ChatNext

LEMMA ChatInvariant == ChatSpec => []ChatInv
BY ChatInvInit, ChatInvStep, PTL DEF ChatSpec

-----------------------------------------------------------------------------
(* What the page promises. *)

\* No message of another conversation gets to the screen, in whatever order
\* conversations are opened and their answers come, except replies that were on
\* their way and what the former socket brought before the effect closed it
\* (setSelected, sendReply, subscribeSupportConversation).
THEOREM Unmixed == ChatSpec => []ThreadUnmixed
<1>1. ChatInv => ThreadUnmixed
    BY DEF ChatInv, NothingForeign, ThreadUnmixed
<1> QED BY <1>1, ChatInvariant, PTL

\* Every message of the selected conversation is on the screen, on its way, or
\* was published while no socket or answer could bring it (ws.onmessage).
THEOREM NothingMissed == ChatSpec => []NothingElseMissed
<1>1. ChatInv => NothingElseMissed
    BY DEF ChatInv, NothingForgotten
<1> QED BY <1>1, ChatInvariant, PTL

LEMMA ChatTypeStep ==
    ASSUME ChatInv, ChatTypeOK, [ChatNext]_chatVars
    PROVE  ChatTypeOK'
<1> USE SupportAssumption DEF ChatTypeOK, Thread
<1>1. ASSUME NEW c \in Conversations, LoadThread(c) PROVE ChatTypeOK'
  <2>1. [of |-> c, answered |-> FALSE, seen |-> {}] \in Fetch
      BY DEF Fetch
  <2> QED BY <1>1, <2>1 DEF LoadThread
<1>2. ASSUME NEW c \in Conversations, NEW m \in Messages, OthersWrite(c, m) PROVE ChatTypeOK'
    BY <1>2 DEF OthersWrite, Commit
<1>3. ASSUME NEW m \in Messages, NEW works \in BOOLEAN, PublishMessage(m, works) PROVE ChatTypeOK'
    BY <1>3 DEF PublishMessage
<1>4. ASSUME NEW m \in Messages, DeliverMessage(m) PROVE ChatTypeOK'
    BY <1>4 DEF DeliverMessage, With
<1>5. ASSUME NEW m \in Messages, ServeReply(m) PROVE ChatTypeOK'
  <2>1. reply.to \in Conversations
      BY <1>5 DEF ServeReply, ChatInv, ThreadsKnown
  <2>2. log' \in [Conversations -> SUBSET Messages] /\ unpublished' \in SUBSET Messages
      BY <1>5, <2>1 DEF ServeReply, Commit
  <2>3. reply' \in Reply /\ strays' \in SUBSET Messages
      BY <1>5 DEF ServeReply, Reply
  <2> QED BY <1>5, <2>2, <2>3 DEF ServeReply
<1>6. ASSUME NEW f \in loads, ServeThread(f) PROVE ChatTypeOK'
  <2>1. [f EXCEPT !.answered = TRUE, !.seen = log[f.of]] \in Fetch
      BY DEF Fetch
  <2> QED BY <1>6, <2>1 DEF ServeThread
<1>7. ASSUME NEW f \in loads, ShowThread(f) PROVE ChatTypeOK'
  <2>1. f.of \in Conversations /\ f.seen \in SUBSET Messages
      BY DEF Fetch
  <2>2. reply.message \in Messages \cup {NoMessage}
      BY DEF Reply
  <2> QED BY <1>7, <2>1, <2>2 DEF ShowThread, ReplacedBy, Secured
<1>8. ASSUME NEW f \in loads, LoadFails(f) PROVE ChatTypeOK'
    BY <1>8 DEF LoadFails
<1>9. CASE SwitchSocket \/ Connect \/ Disconnect
    BY <1>9 DEF SwitchSocket, Connect, Disconnect
<1>10. CASE SendReply \/ ReplyAnswered \/ ReplyFails
  <2>1. NoReply \in Reply
      BY DEF NoReply, Reply
  <2>2. [to |-> selected, message |-> NoMessage, sending |-> TRUE] \in Reply
      BY DEF Reply
  <2>3. reply.message \in Messages \cup {NoMessage}
      BY DEF Reply
  <2> QED BY <1>10, <2>1, <2>2, <2>3 DEF SendReply, ReplyAnswered, ReplyFails
<1>11. CASE UNCHANGED chatVars
    BY <1>11 DEF chatVars
<1> QED
    BY <1>1, <1>2, <1>3, <1>4, <1>5, <1>6, <1>7, <1>8, <1>9, <1>10, <1>11 DEF ChatNext

\* Threads, fetches and the reply keep their types, for any number of messages.
THEOREM ChatTypes == ChatSpec => []ChatTypeOK
<1>1. ChatInit => ChatTypeOK
    BY DEF ChatInit, ChatTypeOK, Thread, NoReply, Reply
<1>2. ChatInv /\ ChatTypeOK /\ [ChatNext]_chatVars => ChatTypeOK'
    BY ChatTypeStep
<1> QED BY <1>1, <1>2, ChatInvariant, PTL DEF ChatSpec

-----------------------------------------------------------------------------
(* MCScreens: what it runs are behaviours of each of its modules.            *)

LEMMA ScreensRuns ==
    ScreensSpec => SessionSpec /\ ChatSpec /\ JobsSpec /\ StaffSpec /\ DeskSpec
<1>1. ScreensInit => SessionInit /\ ChatInit /\ JobsInit /\ StaffInit /\ DeskInit
    BY DEF ScreensInit
<1>2. [ScreensNext]_screensVars =>
          /\ [SessionNext]_sessionVars /\ [ChatNext]_chatVars /\ [JobsNext]_jobsVars
          /\ [StaffNext]_staffVars /\ [DeskNext]_deskVars
  <2>1. CASE UNCHANGED screensVars
      BY <2>1 DEF screensVars
  <2>2. CASE SessionMoves \/ ChatMoves \/ JobsMove \/ StaffMoves \/ DeskMoves
      BY <2>2 DEF SessionMoves, ChatMoves, JobsMove, StaffMoves, DeskMoves
  <2> QED BY <2>1, <2>2 DEF ScreensNext
<1> QED BY <1>1, <1>2, PTL
       DEF ScreensSpec, SessionSpec, ChatSpec, JobsSpec, StaffSpec, DeskSpec

\* Whichever screen moves, its variables and the server's keep their types.
THEOREM ScreensTypes == ScreensSpec => []ScreensTypeOK
<1>1. ScreensInit => task \in Tasks
    BY DEF ScreensInit
<1>2. task \in Tasks /\ [ScreensNext]_screensVars => (task \in Tasks)'
    BY DEF ScreensNext, screensVars
<1>3. /\ task \in Tasks
      /\ SessionTypeOK /\ ChatTypeOK /\ JobsTypeOK /\ StaffTypeOK /\ DeskTypeOK
      => ScreensTypeOK
    BY DEF ScreensTypeOK
<1> QED BY <1>1, <1>2, <1>3, ScreensRuns, SessionTypes, ChatTypes, JobsTypes, StaffTypes,
           DeskTypes, PTL DEF ScreensSpec
=============================================================================
