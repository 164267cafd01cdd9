------------------------------ MODULE MCScreens ------------------------------
(***************************************************************************)
(* The office screens, checked in one run: `task` says which module moves  *)
(* in a behaviour; the variables of the others keep their initial values.  *)
(* The modules share no state in the code either: they are pages that talk *)
(* to different parts of the server.                                       *)
(***************************************************************************)
EXTENDS Session, SupportChat, LiveJobs, Staffing, StockDesk

CONSTANTS r1, r2, r3, p1, p2, p3, m1, m2, l1, l2, n1, n2

VARIABLE task

screensVars == <<sessionVars, chatVars, jobsVars, staffVars, deskVars, task>>

Tasks == {"session", "request", "support", "jobs", "invites", "stores", "stock"}

\* The type invariant of the module that moves.
ScreensTypeOK ==
    /\ task \in Tasks
    /\ task \in {"session", "request"} => SessionTypeOK
    /\ task = "support" => ChatTypeOK
    /\ task = "jobs" => JobsTypeOK
    /\ task \in {"invites", "stores"} => StaffTypeOK
    /\ task = "stock" => DeskTypeOK

ScreensInit ==
    /\ task \in Tasks
    /\ SessionInit /\ ChatInit /\ JobsInit /\ StaffInit /\ DeskInit

\* Calls, pairs, messages, links and notes are interchangeable: the next one is
\* taken in a fixed order.
Started == {r \in Calls : step[r] = "idle" /\ step'[r] # "idle"}
LinksInUse == good \cup {latest[m] : m \in Members} \cup {visit[v].link : v \in Visits}
NotesInUse == {k \in Notes : note[k].kind # "blank"}

\* Two calls at once and two pairs, or three unless a call to the backend fails;
\* or three calls and two pairs without a failure, a logout or a deactivation.
SessionMoves ==
    /\ task \in {"session", "request"} /\ SessionNext
    /\ (p2 \in issued' => p1 \in issued') /\ (p3 \in issued' => p2 \in issued')
    /\ (r2 \in Started => step[r1] # "idle") /\ (r3 \in Started => step[r2] # "idle")
    /\ \/ /\ task = "session"
          /\ step'[r3] = "idle"
          /\ p3 \in issued' => active' /\ failedPairs' = {}
       \/ /\ task = "request"
          /\ p3 \notin issued' /\ active' /\ failedPairs' = {}
          /\ issued' # {} => cookie'.state # "out"
    /\ UNCHANGED <<chatVars, jobsVars, staffVars, deskVars>>

ChatMoves ==
    /\ task = "support" /\ ChatNext
    /\ m2 \in Written' => m1 \in Written'
    /\ UNCHANGED <<sessionVars, jobsVars, staffVars, deskVars>>

JobsMove ==
    /\ task = "jobs" /\ JobsNext
    /\ UNCHANGED <<sessionVars, chatVars, staffVars, deskVars>>

\* Members are invited and come and go; or they are given stores.
StaffMoves ==
    /\ task \in {"invites", "stores"}
    /\ StaffNext
    /\ l2 \in good' \ good => l1 \in LinksInUse
    /\ \/ /\ task = "invites"
          /\ \A s \in Screens : screen'[s].ticked = {}
       \/ /\ task = "stores"
          /\ good' = {}
          /\ resets' = {}
          /\ \A s \in Screens : call'[s].kind \in {"none", "stores", "replace", "deactivate", "invite"}
    /\ UNCHANGED <<sessionVars, chatVars, jobsVars, deskVars>>

DeskMoves ==
    /\ task = "stock" /\ DeskNext
    /\ n2 \in NotesInUse' => n1 \in NotesInUse'
    /\ UNCHANGED <<sessionVars, chatVars, jobsVars, staffVars>>

ScreensNext ==
    /\ \/ SessionMoves \/ ChatMoves
       \/ JobsMove \/ StaffMoves \/ DeskMoves
    /\ UNCHANGED task

ScreensSpec == ScreensInit /\ [][ScreensNext]_screensVars

=============================================================================
