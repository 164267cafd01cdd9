-------------------------------- MODULE Staffing --------------------------------
(***************************************************************************)
(* The members of an organisation, managed from several screens            *)
(* (StaffMemberWorkspace.tsx, TeamDirectory.tsx) over crud/staff.py, and   *)
(* the invite links by which they set a password (AcceptInviteForm.tsx,    *)
(* core/security.py).                                                      *)
(*                                                                         *)
(* A screen shows a copy of the member, which is fetched when the screen   *)
(* opens, when its window gets the focus, and after each of its own calls. *)
(* A new link replaces the last one: which that is, is read before the new *)
(* one is written.  A link is looked up, then deleted, then the member is  *)
(* given the password and becomes active.  A link to reset a password ends *)
(* as a new password or, at the end of onboarding, with the member active. *)
(*                                                                         *)
(* The stores of a member are rows of their own: a save reads them, then   *)
(* deletes the rows it read and inserts one for each store that is ticked. *)
(***************************************************************************)
EXTENDS FiniteSets

CONSTANTS
    Screens,          \* managers' screens
    Visits,           \* tabs in which a link is opened
    Members,
    Stores,
    Links, NoLink     \* bounds how many links are issued

ASSUME StaffingAssumption ==
    /\ NoLink \notin Links
    /\ Members # {}

VARIABLES
    staff,       \* the members
    good,        \* links in Redis that can be used
    whose,       \* the member of each link
    latest,      \* each member's last link, as Redis has it
    resets,      \* members with a link in Redis to reset the password
    screen,      \* each screen's copy of its member
    call,        \* each screen's call in flight
    visit,       \* the link each tab is redeeming
    ousted,      \* history: members a manager deactivated after they had a password
    slips,       \* history: members whose invite took an irregular course
    saved,       \* history: the stores ticked in each member's last save
    meanwhile,   \* history: the stores other saves wrote since a screen's save read
    beside       \* history: what meanwhile was for each member's last save

linkVars == <<good, whose, latest, resets>>
storeNotes == <<saved, meanwhile, beside>>
noteVars == <<ousted, slips, storeNotes>>
staffVars == <<staff, linkVars, screen, call, visit, noteVars>>

-----------------------------------------------------------------------------
Member == [known : BOOLEAN, active : BOOLEAN, password : BOOLEAN, stores : SUBSET Stores]

Stranger == [known |-> FALSE, active |-> FALSE, password |-> FALSE, stores |-> {}]

\* The member on the screen, the copy of it, and the stores ticked.
Screen == [of : Members, active : BOOLEAN, stores : SUBSET Stores, ticked : SUBSET Stores]

StaffCall == [kind : {"none", "activate", "deactivate", "password", "stores", "replace",
                      "invite", "issue"},
         of : Members,
         stores : SUBSET Stores,              \* the stores that were ticked
         rows : SUBSET Stores,                \* the rows a save has read and not lost
         old : Links \cup {NoLink}]           \* the last link, as it was looked up

NoCall(m) == [kind |-> "none", of |-> m, stores |-> {}, rows |-> {}, old |-> NoLink]

Visit == [link : Links \cup {NoLink}, at : {"idle", "found", "deleted"}]

StaffTypeOK ==
    /\ staff \in [Members -> Member]
    /\ good \subseteq Links
    /\ whose \in [Links -> Members]
    /\ latest \in [Members -> Links \cup {NoLink}]
    /\ resets \subseteq Members
    /\ screen \in [Screens -> Screen]
    /\ call \in [Screens -> StaffCall]
    /\ visit \in [Visits -> Visit]
    /\ ousted \subseteq Members
    /\ slips \subseteq Members
    /\ saved \in [Members -> SUBSET Stores]
    /\ meanwhile \in [Screens -> SUBSET Stores]
    /\ beside \in [Members -> SUBSET Stores]

Someone == CHOOSE m \in Members : TRUE

StaffInit ==
    /\ staff = [m \in Members |-> Stranger]
    /\ good = {}
    /\ whose \in [Links -> Members]
    /\ latest = [m \in Members |-> NoLink]
    /\ resets = {}
    /\ screen = [s \in Screens |-> [of |-> Someone, active |-> FALSE, stores |-> {}, ticked |-> {}]]
    /\ call = [s \in Screens |-> NoCall(Someone)]
    /\ visit = [v \in Visits |-> [link |-> NoLink, at |-> "idle"]]
    /\ ousted = {}
    /\ slips = {}
    /\ saved = [m \in Members |-> {}]
    /\ meanwhile = [s \in Screens |-> {}]
    /\ beside = [m \in Members |-> {}]

-----------------------------------------------------------------------------
\* Someone is issuing a link for m, or redeeming one.
Issuing(m) == \E s \in Screens : call[s].kind \in {"invite", "issue"} /\ call[s].of = m
Redeeming(m) == \E v \in Visits : visit[v].link \in Links /\ whose[visit[v].link] = m
UnderWay(m) == Issuing(m) \/ Redeeming(m)

\* is_pending_invite
IsPendingInvite(m) == ~staff[m].active /\ ~staff[m].password

Done(s) == call' = [call EXCEPT ![s] = NoCall(@.of)]
Noted(m, irregular) == slips' = IF irregular THEN slips \cup {m} ELSE slips

Copy(m) == [of |-> m, active |-> staff[m].active, stores |-> staff[m].stores,
            ticked |-> staff[m].stores]

\* useStaffMember fetches: the screen opens, its window gets the focus, or one
\* of its calls was answered.  A copy that changed resets the boxes.
Refetch(s, m) ==
    /\ staff[m].known
    /\ m = screen[s].of \/ call[s].kind = "none"
    /\ screen' = [screen EXCEPT ![s] = Copy(m)]
    /\ UNCHANGED <<staff, linkVars, call, visit, noteVars>>

Tick(s, b) ==
    /\ staff[screen[s].of].known
    /\ screen' = [screen EXCEPT ![s].ticked = (@ \ {b}) \cup ({b} \ @)]
    /\ UNCHANGED <<staff, linkVars, call, visit, noteVars>>

-----------------------------------------------------------------------------
(* Calls of a screen. *)

StartCall(s, kind) ==
    /\ call[s].kind = "none"
    /\ staff[screen[s].of].known
    /\ call' = [call EXCEPT ![s] = [kind |-> kind, of |-> screen[s].of,
                                    stores |-> screen[s].ticked, rows |-> {}, old |-> NoLink]]
    /\ UNCHANGED <<staff, linkVars, screen, visit, noteVars>>

\* toggleActive sends the opposite of what the screen shows.
ToggleActive(s) == StartCall(s, IF screen[s].active THEN "deactivate" ELSE "activate")
SaveStores(s) == StartCall(s, "stores")
ResetPassword(s) == StartCall(s, "password")

\* The button is shown for a member the screen has as inactive.
ResendInvite(s) == ~screen[s].active /\ StartCall(s, "invite")

\* create_managed, and then the link: the member is inactive, without password.
CreateManaged(s, m) ==
    /\ call[s].kind = "none"
    /\ ~staff[m].known
    /\ staff' = [staff EXCEPT ![m] = [Stranger EXCEPT !.known = TRUE, !.stores = screen[s].ticked]]
    /\ saved' = [saved EXCEPT ![m] = screen[s].ticked]
    /\ call' = [call EXCEPT ![s] = [NoCall(m) EXCEPT !.kind = "invite"]]
    /\ UNCHANGED <<linkVars, screen, visit, ousted, slips, meanwhile, beside>>

-----------------------------------------------------------------------------
(* The server. *)

\* update_managed with active.
UpdateActive(s) ==
    LET m == call[s].of
        value == call[s].kind = "activate"
    IN
    /\ call[s].kind \in {"activate", "deactivate"}
    /\ staff' = [staff EXCEPT ![m].active = value]
    /\ ousted' = IF value THEN ousted \ {m}
                 ELSE IF staff[m].active /\ staff[m].password THEN ousted \cup {m} ELSE ousted
    /\ Noted(m, UnderWay(m) \/ ~staff[m].password)
    /\ Done(s)
    /\ UNCHANGED <<linkVars, screen, visit, storeNotes>>

\* reset_password; the member may still be invited.
SetPassword(s) ==
    LET m == call[s].of IN
    /\ call[s].kind = "password"
    /\ staff' = [staff EXCEPT ![m].password = TRUE]
    /\ Noted(m, ~staff[m].password)
    /\ Done(s)
    /\ UNCHANGED <<linkVars, screen, visit, ousted, storeNotes>>

\* set_businesses reads the rows of the member,
ReadAssignments(s) ==
    /\ call[s].kind = "stores"
    /\ call' = [call EXCEPT ![s].kind = "replace", ![s].rows = staff[call[s].of].stores]
    /\ meanwhile' = [meanwhile EXCEPT ![s] = {}]
    /\ UNCHANGED <<staff, linkVars, screen, visit, ousted, slips, saved, beside>>

\* Another save of m is between its read and its commit.
Overlapping(r, m) == call[r].kind = "replace" /\ call[r].of = m

\* Mutant: the rows are not deleted.
AssignedAlso(m, rows, stores) == staff[m].stores \cup stores

\* The rows that were read are deleted, where another save has not deleted them
\* yet; rows that another save has inserted stay.
Assigned(m, rows, stores) == (staff[m].stores \ rows) \cup stores

\* and replaces them in one transaction.  A row that another save has inserted
\* for a ticked store breaks the primary key (member, store): the save Fails.
ReplaceAssignments(s) ==
    LET m == call[s].of
        ticked == call[s].stores
        others == {r \in Screens \ {s} : Overlapping(r, m)}
    IN
    /\ call[s].kind = "replace"
    /\ ticked \cap (staff[m].stores \ call[s].rows) = {}
    /\ staff' = [staff EXCEPT ![m].stores = Assigned(m, call[s].rows, ticked)]
    /\ call' = [r \in Screens |-> IF r = s THEN NoCall(m)
                                  ELSE IF r \in others
                                  THEN [call[r] EXCEPT !.rows = @ \ call[s].rows]
                                  ELSE call[r]]
    /\ saved' = [saved EXCEPT ![m] = ticked]
    /\ beside' = [beside EXCEPT ![m] = meanwhile[s]]
    /\ meanwhile' = [r \in Screens |-> IF r \in others THEN meanwhile[r] \cup ticked
                                       ELSE meanwhile[r]]
    /\ UNCHANGED <<linkVars, screen, visit, ousted, slips>>

\* resend_invite and create_staff_invite_token: only for a pending member, whose
\* last link is looked up.
LookUpLink(s) ==
    LET m == call[s].of IN
    /\ call[s].kind = "invite"
    /\ IsPendingInvite(m)
    /\ call' = [call EXCEPT ![s].kind = "issue", ![s].old = latest[m]]
    /\ Noted(m, \/ Redeeming(m)
                \/ \E r \in Screens \ {s} : call[r].kind = "issue" /\ call[r].of = m)
    /\ UNCHANGED <<staff, linkVars, screen, visit, ousted, storeNotes>>

\* The old link is deleted, the new one written.
IssueLink(s, l) ==
    LET m == call[s].of IN
    /\ call[s].kind = "issue"
    /\ whose[l] = m
    /\ l \notin good
    /\ \A n \in Members : latest[n] # l
    /\ \A v \in Visits : visit[v].link # l
    /\ good' = (good \ {call[s].old}) \cup {l}
    /\ latest' = [latest EXCEPT ![m] = l]
    /\ Done(s)
    /\ UNCHANGED <<staff, whose, resets, screen, visit, noteVars>>

\* A refusal, an error, or no answer to a call that was or was not served.
Fails(s) ==
    /\ call[s].kind # "none"
    /\ Done(s)
    /\ UNCHANGED <<staff, linkVars, screen, visit, noteVars>>

-----------------------------------------------------------------------------
(* Redeeming a link. *)

\* verify_and_consume_staff_invite_token: the link is looked up
OpenLink(v, l) ==
    /\ visit[v].at = "idle"
    /\ l \in good
    /\ visit' = [visit EXCEPT ![v] = [link |-> l, at |-> "found"]]
    /\ Noted(whose[l], UnderWay(whose[l]))
    /\ UNCHANGED <<staff, linkVars, screen, call, ousted, storeNotes>>

\* Mutant: the link is not deleted.
ConsumedNot(l) == good

Consumed(l) == good \ {l}

\* and deleted, with the note which the last link is.
Consume(v) ==
    LET l == visit[v].link IN
    /\ visit[v].at = "found"
    /\ good' = Consumed(l)
    /\ latest' = [latest EXCEPT ![whose[l]] = NoLink]
    /\ visit' = [visit EXCEPT ![v].at = "deleted"]
    /\ UNCHANGED <<staff, whose, resets, screen, call, noteVars>>

\* accept_invite: refused only when the member is active and has a password.
AcceptInvite(v) ==
    LET m == whose[visit[v].link] IN
    /\ visit[v].at = "deleted"
    /\ visit' = [visit EXCEPT ![v] = [link |-> NoLink, at |-> "idle"]]
    /\ staff' = IF staff[m].active /\ staff[m].password THEN staff
                ELSE [staff EXCEPT ![m].active = TRUE, ![m].password = TRUE]
    /\ UNCHANGED <<linkVars, screen, call, noteVars>>

\* The call ends with an error.
Abandon(v) ==
    /\ visit[v].at # "idle"
    /\ visit' = [visit EXCEPT ![v] = [link |-> NoLink, at |-> "idle"]]
    /\ UNCHANGED <<staff, linkVars, screen, call, noteVars>>

\* 48 hours.
LinkExpires(l) ==
    /\ l \in good
    /\ good' = good \ {l}
    /\ latest' = [m \in Members |-> IF latest[m] = l THEN NoLink ELSE latest[m]]
    /\ UNCHANGED <<staff, whose, resets, screen, call, visit, noteVars>>

-----------------------------------------------------------------------------
(* Resetting a password. *)

\* forgot-password answers everyone, and sends a link to active members.
RequestReset(m) ==
    /\ staff[m].known /\ staff[m].active
    /\ resets' = resets \cup {m}
    /\ UNCHANGED <<staff, good, whose, latest, screen, call, visit, noteVars>>

\* A link is used once; the member may have asked for another one.
UseReset(m) ==
    /\ m \in resets
    /\ resets' \in {resets, resets \ {m}}
    /\ UNCHANGED <<good, whose, latest, screen, call, visit, ousted, storeNotes>>

\* confirm_password_reset: for an active member.
ConfirmReset(m) ==
    /\ UseReset(m)
    /\ staff[m].active
    /\ staff' = [staff EXCEPT ![m].password = TRUE]
    /\ Noted(m, ~staff[m].password)

\* onboarding_set_password takes the same link: refused only when the member is
\* active and has a password.
FinishOnboarding(m) ==
    /\ UseReset(m)
    /\ ~(staff[m].active /\ staff[m].password)
    /\ staff' = [staff EXCEPT ![m].active = TRUE, ![m].password = TRUE]
    /\ Noted(m, TRUE)

\* 15 minutes, or a use that ends with a refusal.
ResetEnds(m) ==
    /\ m \in resets
    /\ resets' = resets \ {m}
    /\ UNCHANGED <<staff, good, whose, latest, screen, call, visit, noteVars>>

StaffNext ==
    \/ \E s \in Screens :
        \/ \E m \in Members : Refetch(s, m) \/ CreateManaged(s, m)
        \/ \E b \in Stores : Tick(s, b)
        \/ ToggleActive(s) \/ SaveStores(s) \/ ResetPassword(s) \/ ResendInvite(s)
        \/ UpdateActive(s) \/ SetPassword(s)
        \/ ReadAssignments(s) \/ ReplaceAssignments(s)
        \/ LookUpLink(s) \/ Fails(s)
        \/ \E l \in Links : IssueLink(s, l)
    \/ \E v \in Visits :
        \/ \E l \in Links : OpenLink(v, l)
        \/ Consume(v) \/ AcceptInvite(v) \/ Abandon(v)
    \/ \E l \in Links : LinkExpires(l)
    \/ \E m \in Members :
        RequestReset(m) \/ ConfirmReset(m) \/ FinishOnboarding(m) \/ ResetEnds(m)

StaffSpec == StaffInit /\ [][StaffNext]_staffVars

-----------------------------------------------------------------------------
\* StaffMemberWorkspace.tsx "previous links stop working": a member who had a
\* password and was deactivated stays inactive until a manager activates them
\* again, unless links were issued or redeemed at the same time, the member was
\* activated or given a password by a manager before an invite was accepted, or
\* the member finished onboarding with a link to reset the password.
OustedStaysOut == \A m \in ousted : staff[m].active => m \in slips

\* A member has the stores that were ticked in the last save, every one of them,
\* and besides at most stores that other saves wrote between its read and its
\* commit (set_businesses takes no lock on the rows it replaces).
LastSaveDecides ==
    \A m \in Members : /\ saved[m] \subseteq staff[m].stores
                        /\ staff[m].stores \subseteq saved[m] \cup beside[m]
=============================================================================
