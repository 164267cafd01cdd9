-------------------------------- MODULE LiveJobs --------------------------------
(***************************************************************************)
(* Background jobs queued from the jobs panel (JobsPanel.tsx), the rows    *)
(* that record them (services/background_jobs.py) and the panel that shows *)
(* the rows.                                                               *)
(*                                                                         *)
(* Two processes record the events of one job: the route that queued it    *)
(* writes PENDING after the task was sent, and the worker, which may have  *)
(* the task by then, writes how it begins and ends.  An event is recorded  *)
(* in three steps: the row is looked up by the task's key (which is not    *)
(* unique), it is inserted or its status overwritten, and the row as it is *)
(* by then is published.  Errors are logged and forgotten.                 *)
(***************************************************************************)
EXTENDS Naturals, Sequences, FiniteSets

CONSTANTS
    Jobs,          \* task keys
    MaxRuns,       \* how often Celery runs a task; bounds redelivery too
    MaxHistories,      \* bounds the fetches of the history in flight
    MaxWire        \* bounds the updates on the wire

ASSUME LiveJobsAssumption == MaxRuns \in Nat /\ MaxHistories \in Nat /\ MaxWire \in Nat

VARIABLES
    rows,       \* each job's rows: their statuses, in the order of insertion
    run,        \* each job's task in Celery
    event,      \* the event each writer of a job is recording
    panel,      \* the rows on the panel
    stream,     \* whether the panel's event stream is subscribed
    updates,       \* updates published to the stream and not delivered
    history,    \* fetches of the history in flight
    lost,       \* history variable: jobs of which an event was not recorded
    overlapped,    \* history variable: jobs whose events overlapped, or came in the wrong order
    untold      \* history variable: rows whose last update did not reach the panel for good

jobsVars == <<rows, run, event, panel, stream, updates, history, lost, overlapped, untold>>
taskVars == <<rows, run, event, lost, overlapped>>
panelVars == <<panel, stream, updates, history, untold>>

-----------------------------------------------------------------------------
Writers == {"route", "worker"}
Outcomes == {"SUCCESS", "FAILURE"}
Statuses == {"PENDING", "STARTED", "RETRY"} \cup Outcomes

\* A row: a job's first, or the second that a race inserted.
RowIds == Jobs \X {1, 2}
HasRow(x) == x[2] \in DOMAIN rows[x[1]]
StatusOf(x) == rows[x[1]][x[2]]

Run == [at : {"none", "queued", "running", "ending", "over"}, times : Nat,
        outcome : Outcomes \cup {"none"}]

\* found is the row the look-up found, 0 when there is none.
Event == [at : {"none", "new", "read", "committed"}, status : Statuses, found : 0..2]

NoEvent == [at |-> "none", status |-> "PENDING", found |-> 0]
NewEvent(status) == [at |-> "new", status |-> status, found |-> 0]

Update == [row : RowIds, status : Statuses]
Fetched == [answered : BOOLEAN, seen : [RowIds -> Statuses \cup {"absent"}]]
NothingSeen == [x \in RowIds |-> "absent"]

JobsTypeOK ==
    /\ \A j \in Jobs : rows[j] \in Seq(Statuses) /\ Len(rows[j]) <= 2
    /\ run \in [Jobs -> Run]
    /\ event \in [Jobs -> [Writers -> Event]]
    /\ panel \in [RowIds -> Statuses \cup {"absent"}]
    /\ stream \in {"closed", "open"}
    /\ \A i \in DOMAIN updates : updates[i] \in Update
    /\ \A f \in history : f \in Fetched
    /\ lost \subseteq Jobs
    /\ overlapped \subseteq Jobs
    /\ untold \subseteq RowIds

JobsInit ==
    /\ rows = [j \in Jobs |-> <<>>]
    /\ run = [j \in Jobs |-> [at |-> "none", times |-> 0, outcome |-> "none"]]
    /\ event = [j \in Jobs |-> [w \in Writers |-> NoEvent]]
    /\ panel = NothingSeen
    /\ stream = "closed"
    /\ updates = <<>>
    /\ history = {}
    /\ lost = {}
    /\ overlapped = {}
    /\ untold = {}

-----------------------------------------------------------------------------
(* The panel asks for the history: when it opens, "Refresh", a new filter, *)
(* and the answer to a replay or a retry.                                  *)

MoreHistory == history' = history \cup {[answered |-> FALSE, seen |-> NothingSeen]}

LoadHistory ==
    /\ Cardinality(history) < MaxHistories
    /\ MoreHistory
    /\ UNCHANGED <<taskVars, panel, stream, updates, untold>>

\* The rows of the filter, or all of them.
ServeHistory(f, filter) ==
    /\ ~f.answered
    /\ history' = (history \ {f}) \cup
         {[answered |-> TRUE,
           seen |-> [x \in RowIds |->
                       IF HasRow(x) /\ StatusOf(x) \in filter THEN StatusOf(x) ELSE "absent"]]}
    /\ UNCHANGED <<taskVars, panel, stream, updates, untold>>

\* A fetch shows the row as it is now, or not at all.
Agrees(f, x) == f.answered => f.seen[x] \in {"absent", StatusOf(x)}

Waiting(x) == \E i \in DOMAIN updates : updates[i].row = x

\* What the panel has by f for good: nothing older is still to come.
Told(f) == {x \in RowIds :
              /\ HasRow(x)
              /\ ~Waiting(x)
              /\ \A g \in history : Agrees(g, x)}

ShowHistory(f) ==
    /\ f.answered
    /\ panel' = f.seen
    /\ history' = history \ {f}
    /\ untold' = untold \ Told(f)
    /\ UNCHANGED <<taskVars, stream, updates>>

\* An error empties the panel.
HistoryFails(f) ==
    /\ panel' = NothingSeen
    /\ history' = history \ {f}
    /\ UNCHANGED <<taskVars, stream, updates, untold>>

-----------------------------------------------------------------------------
(* Queueing a job. *)

\* "Queue", whose button is never disabled, or "Retry" on a row that shows
\* FAILURE, which queues a job of its own: the route sends the task and then
\* has its event to record.
Queue(j) ==
    /\ run[j].at = "none"
    /\ run' = [run EXCEPT ![j].at = "queued"]
    /\ event' = [event EXCEPT ![j]["route"] = NewEvent("PENDING")]
    /\ UNCHANGED <<rows, lost, overlapped, panelVars>>

-----------------------------------------------------------------------------
(* The worker. *)

\* Celery delivers the task: STARTED, or RETRY.
StartTask(j, status) ==
    /\ run[j].at = "queued"
    /\ run[j].times < MaxRuns
    /\ status = "RETRY" => run[j].times > 0
    /\ run' = [run EXCEPT ![j].at = "running", ![j].times = @ + 1, ![j].outcome = "none"]
    /\ event' = [event EXCEPT ![j]["worker"] = NewEvent(status)]
    /\ UNCHANGED <<rows, lost, overlapped, panelVars>>

EndTask(j, outcome) ==
    /\ run[j].at = "running"
    /\ event[j]["worker"].at = "none"
    /\ run' = [run EXCEPT ![j].at = "ending", ![j].outcome = outcome]
    /\ event' = [event EXCEPT ![j]["worker"] = NewEvent(outcome)]
    /\ UNCHANGED <<rows, lost, overlapped, panelVars>>

\* The task is acknowledged; a backfill that failed is run again.
Acknowledge(j) ==
    /\ run[j].at = "ending"
    /\ event[j]["worker"].at = "none"
    /\ \/ run' = [run EXCEPT ![j].at = "over"]
       \/ run[j].outcome = "FAILURE" /\ run' = [run EXCEPT ![j].at = "queued"]
    /\ UNCHANGED <<rows, event, lost, overlapped, panelVars>>

\* task_acks_late, task_reject_on_worker_lost: the task of a worker that died
\* is delivered again.  A row it committed is not published.
WorkerLost(j) ==
    /\ run[j].at \in {"running", "ending"}
    /\ run' = [run EXCEPT ![j].at = "queued"]
    /\ event' = [event EXCEPT ![j]["worker"] = NoEvent]
    /\ untold' = IF event[j]["worker"].at = "committed"
                 THEN untold \cup {<<j, event[j]["worker"].found>>} ELSE untold
    /\ UNCHANGED <<rows, lost, overlapped, panel, stream, updates, history>>

-----------------------------------------------------------------------------
(* record_job_event. *)

EventDone(j, w) == event' = [event EXCEPT ![j][w] = NoEvent]

\* The other writer is in the middle of an event, or w is the route and late.
Meets(j, w) ==
    \/ \E other \in Writers \ {w} : event[j][other].at \in {"read", "committed"}
    \/ w = "route" /\ run[j].at \in {"ending", "over"}

\* The rows with the task's key; two of them are an error.
Look(j, w) ==
    /\ event[j][w].at = "new"
    /\ overlapped' = IF Meets(j, w) THEN overlapped \cup {j} ELSE overlapped
    /\ IF Len(rows[j]) = 2
       THEN /\ EventDone(j, w)
            /\ lost' = lost \cup {j}
       ELSE /\ event' = [event EXCEPT ![j][w] = [@ EXCEPT !.at = "read", !.found = Len(rows[j])]]
            /\ lost' = lost
    /\ UNCHANGED <<rows, run, panelVars>>

\* Mutant: a row that was found is left as it is.
RecordedOnce(j, e) == IF e.found = 0 THEN Append(rows[j], e.status) ELSE rows[j]

\* Mutant: a row is inserted although one was found.
RecordedAnew(j, e) == Append(rows[j], e.status)

\* The row that was found gets the status; without one a row is inserted.
Recorded(j, e) ==
    IF e.found = 0 THEN Append(rows[j], e.status) ELSE [rows[j] EXCEPT ![e.found] = e.status]

Record(j, w) ==
    LET e == event[j][w] IN
    /\ e.at = "read"
    /\ rows' = [rows EXCEPT ![j] = Recorded(j, e)]
    /\ event' = [event EXCEPT ![j][w] =
                    [e EXCEPT !.at = "committed",
                              !.found = IF e.found = 0 THEN Len(rows[j]) + 1 ELSE e.found]]
    /\ UNCHANGED <<run, lost, overlapped, panelVars>>

EventLost(j, w) ==
    /\ event[j][w].at \in {"new", "read"}
    /\ EventDone(j, w)
    /\ lost' = lost \cup {j}
    /\ UNCHANGED <<rows, run, overlapped, panelVars>>

\* The row is read again and published, or the publication fails.
PublishRow(j, w, works) ==
    LET x == <<j, event[j][w].found>>
        heard == works /\ stream = "open"
    IN
    /\ event[j][w].at = "committed"
    /\ heard => Len(updates) < MaxWire
    /\ EventDone(j, w)
    /\ updates' = IF heard THEN Append(updates, [row |-> x, status |-> StatusOf(x)]) ELSE updates
    /\ untold' = IF heard /\ \A f \in history : Agrees(f, x)
                 THEN untold \ {x} ELSE untold \cup {x}
    /\ UNCHANGED <<rows, run, lost, overlapped, panel, stream, history>>

-----------------------------------------------------------------------------
(* The stream. *)

Subscribe ==
    /\ stream = "closed"
    /\ stream' = "open"
    /\ UNCHANGED <<taskVars, panel, updates, history, untold>>

\* It is opened again after a while; nothing is sent or fetched anew.
StreamDrops ==
    /\ stream = "open"
    /\ stream' = "closed"
    /\ updates' = <<>>
    /\ untold' = untold \cup {updates[i].row : i \in DOMAIN updates}
    /\ UNCHANGED <<taskVars, panel, history>>

\* Mutant: an update adds a row the panel does not have, and changes none it has.
MergedAnew(u) == IF panel[u.row] = "absent" THEN [panel EXCEPT ![u.row] = u.status] ELSE panel

\* applyJobUpdate
Merged(u) == [panel EXCEPT ![u.row] = u.status]

ApplyUpdate ==
    /\ updates # <<>>
    /\ panel' = Merged(Head(updates))
    /\ updates' = Tail(updates)
    /\ UNCHANGED <<taskVars, stream, history, untold>>

JobsNext ==
    \/ LoadHistory
    \/ \E f \in history :
        \/ \E s \in Statuses : ServeHistory(f, {s})
        \/ ServeHistory(f, Statuses)
        \/ ShowHistory(f) \/ HistoryFails(f)
    \/ \E j \in Jobs :
        \/ Queue(j) \/ StartTask(j, "STARTED") \/ StartTask(j, "RETRY")
        \/ \E s \in Outcomes : EndTask(j, s)
        \/ Acknowledge(j) \/ WorkerLost(j)
        \/ \E w \in Writers :
            Look(j, w) \/ Record(j, w) \/ EventLost(j, w)
            \/ PublishRow(j, w, TRUE) \/ PublishRow(j, w, FALSE)
    \/ Subscribe \/ StreamDrops \/ ApplyUpdate

JobsSpec == JobsInit /\ [][JobsNext]_jobsVars

-----------------------------------------------------------------------------
\* document_tasks.py:4 "Jobs table (background_jobs) is the durable source of
\* truth for status": when a task is over and its events recorded, it has one
\* row, with its outcome, whatever was redelivered and retried, unless an event
\* was lost, or the route's event met one of the worker's or came when the task
\* had ended.
FinishedIsFinal ==
    \A j \in Jobs :
        run[j].at = "over" /\ event[j]["route"].at = "none" /\ j \notin lost \cup overlapped
            => rows[j] = <<run[j].outcome>>

\* The panel's status of a row is the row's, or an update is on its way, unless
\* the job's events met, or the row's last update was not published, or was
\* published while the stream was down or an older history on its way.
PanelSettles ==
    \A x \in RowIds :
        panel[x] # "absent" =>
            \/ panel[x] = StatusOf(x)
            \/ Waiting(x) \/ x \in untold \/ x[1] \in overlapped
            \/ \E w \in Writers : event[x[1]][w].at = "committed"
=============================================================================
