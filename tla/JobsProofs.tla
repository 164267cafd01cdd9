----------------------------- MODULE JobsProofs -----------------------------
(***************************************************************************)
(* Proofs about LiveJobs.                                                  *)
(***************************************************************************)
EXTENDS LiveJobs, TLAPS

-----------------------------------------------------------------------------
(* The inductive invariant, one job at a time. *)

TasksTyped ==
    /\ rows \in [Jobs -> Seq(Statuses)]
    /\ run \in [Jobs -> Run]
    /\ event \in [Jobs -> [Writers -> Event]]

Found(j, w) == event[j][w].found
Read(j, w) == event[j][w].at = "read"
Committed(j, w) == event[j][w].at = "committed"
Busy(j, w) == Read(j, w) \/ Committed(j, w)

\* A row is inserted by a writer that found none; there are two at most.
RowsCounted(j) ==
    /\ Len(rows[j]) <= 2
    /\ \A w \in Writers :
        /\ Read(j, w) => Found(j, w) <= Len(rows[j])
        /\ Read(j, w) /\ Found(j, w) = 0 => Len(rows[j]) <= 1
        /\ Committed(j, w) => Found(j, w) \in 1..Len(rows[j])
    /\ (\A w \in Writers : Read(j, w) /\ Found(j, w) = 0) => Len(rows[j]) = 0

\* While no event was lost and none met, the writers take turns, what they
\* found is what there is, and the worker's last event is the task's outcome.
EventsInTurn(j) ==
    LET row == rows[j]
        worker == event[j]["worker"] IN
    j \notin lost \cup overlapped =>
        /\ ~(Busy(j, "route") /\ Busy(j, "worker"))
        /\ Len(row) <= 1
        /\ \A w \in Writers : Read(j, w) => Found(j, w) = Len(row)
        /\ \A w \in Writers : Committed(j, w) => Found(j, w) = 1 /\ Len(row) = 1
        /\ run[j].at = "over" => worker.at = "none"
        /\ run[j].at \in {"ending", "over"} /\ worker.at # "new" => ~Busy(j, "route")
        /\ run[j].at = "ending" /\ worker.at # "none" => worker.status = run[j].outcome
        /\ run[j].at \in {"ending", "over"} /\ worker.at \in {"committed", "none"}
             => Len(row) = 1 /\ row[1] = run[j].outcome

\* A writer has an event only while its process is under way.
WritersIdle(j) ==
    /\ run[j].at = "none" => event[j]["route"].at = "none"
    /\ run[j].at \in {"none", "queued", "over"} => event[j]["worker"].at = "none"

JobInv(j) == RowsCounted(j) /\ EventsInTurn(j) /\ WritersIdle(j)

TasksInv == TasksTyped /\ \A j \in Jobs : JobInv(j)

-----------------------------------------------------------------------------
LEMMA EventFields ==
    ASSUME TasksTyped, NEW k \in Jobs, NEW w \in Writers
    PROVE  /\ event[k][w] \in Event
           /\ event[k][w].at \in {"none", "new", "read", "committed"}
           /\ event[k][w].status \in Statuses
           /\ event[k][w].found \in 0..2
           /\ rows[k] \in Seq(Statuses)
           /\ Len(rows[k]) \in Nat
           /\ run[k] \in Run
<1>1. event[k][w] \in Event
    BY DEF TasksTyped
<1>2. rows[k] \in Seq(Statuses) /\ run[k] \in Run
    BY DEF TasksTyped
<1>3. Len(rows[k]) \in Nat
    BY <1>2
<1> QED BY <1>1, <1>2, <1>3 DEF Event

LEMMA TasksInvInit == JobsInit => TasksInv
<1> SUFFICES ASSUME JobsInit PROVE TasksInv
    OBVIOUS
<1>1. TasksTyped
    BY DEF JobsInit, TasksTyped, Run, Event, NoEvent, Statuses, Outcomes
<1>2. ASSUME NEW j \in Jobs PROVE JobInv(j)
  <2>1. Len(rows[j]) = 0 /\ run[j].at = "none" /\ \A w \in Writers : event[j][w].at = "none"
      BY DEF JobsInit, NoEvent
  <2>2. RowsCounted(j)
      BY <1>1, <2>1, EventFields DEF RowsCounted, Read, Committed, Found, Writers
  <2>3. EventsInTurn(j)
      BY <1>1, <2>1, EventFields DEF EventsInTurn, Read, Committed, Busy, Found, Writers
  <2>4. WritersIdle(j)
      BY <2>1 DEF WritersIdle, Writers
  <2> QED BY <2>2, <2>3, <2>4 DEF JobInv
<1> QED BY <1>1, <1>2 DEF TasksInv

\* What a step leaves of a job keeps its invariant.
LEMMA JobLeft ==
    ASSUME NEW j \in Jobs, JobInv(j),
           rows'[j] = rows[j], run'[j] = run[j],
           \A w \in Writers : event'[j][w] = event[j][w],
           lost \subseteq lost', overlapped \subseteq overlapped'
    PROVE  JobInv(j)'
BY DEF JobInv, RowsCounted, EventsInTurn, WritersIdle, Read, Committed, Busy, Found, Writers

LEMMA Events ==
    /\ NoEvent \in Event /\ NoEvent.at = "none"
    /\ \A s \in Statuses : /\ NewEvent(s) \in Event
                           /\ NewEvent(s).at = "new" /\ NewEvent(s).status = s
BY DEF NoEvent, NewEvent, Event, Statuses

LEMMA Runs ==
    ASSUME NEW r \in Run
    PROVE  /\ \A at \in {"queued", "running", "ending", "over"} : [r EXCEPT !.at = at] \in Run
           /\ [r EXCEPT !.at = "running", !.times = @ + 1, !.outcome = "none"] \in Run
           /\ \A o \in Outcomes : [r EXCEPT !.at = "ending", !.outcome = o] \in Run
<1>1. r.at \in {"none", "queued", "running", "ending", "over"} /\ r.times \in Nat
      /\ r.times + 1 \in Nat /\ r.outcome \in Outcomes \cup {"none"}
    BY DEF Run
<1> QED BY <1>1 DEF Run

LEMMA Counted ==
    ASSUME TasksInv, NEW k \in Jobs, NEW w \in Writers
    PROVE  /\ Len(rows[k]) \in 0..2
           /\ event[k][w].at = "read" => event[k][w].found <= Len(rows[k])
           /\ event[k][w].at = "read" /\ event[k][w].found = 0 => Len(rows[k]) <= 1
           /\ event[k][w].at = "committed" => event[k][w].found \in 1..Len(rows[k])
<1>1. RowsCounted(k) /\ TasksTyped
    BY DEF TasksInv, JobInv
<1>2. Len(rows[k]) \in Nat /\ Len(rows[k]) <= 2
    BY <1>1, EventFields DEF RowsCounted
<1>3. /\ Read(k, w) => Found(k, w) <= Len(rows[k])
      /\ Read(k, w) /\ Found(k, w) = 0 => Len(rows[k]) <= 1
      /\ Committed(k, w) => Found(k, w) \in 1..Len(rows[k])
    BY <1>1 DEF RowsCounted
<1>5. Len(rows[k]) \in 0..2
  <2>1. \A n : n \in Nat /\ n <= 2 => n \in 0..2
      OBVIOUS
  <2> QED BY <2>1, <1>2, Zenon
<1>6. /\ event[k][w].at = "read" => event[k][w].found <= Len(rows[k])
      /\ event[k][w].at = "read" /\ event[k][w].found = 0 => Len(rows[k]) <= 1
      /\ event[k][w].at = "committed" => event[k][w].found \in 1..Len(rows[k])
    BY <1>3, Zenon DEF Read, Committed, Found
<1> QED BY <1>5, <1>6

Other(w) == IF w = "route" THEN "worker" ELSE "route"

LEMMA Writing == "route" \in Writers /\ "worker" \in Writers
BY DEF Writers

\* A step writes one event, one run and one job's rows, and nothing of the others.
Writes(k, w, e, t, s) ==
    /\ event' = [event EXCEPT ![k][w] = e]
    /\ run' = [run EXCEPT ![k] = t]
    /\ rows' = [rows EXCEPT ![k] = s]
    /\ lost \subseteq lost'
    /\ overlapped \subseteq overlapped'

LEMMA JobStep ==
    ASSUME TasksInv, NEW k \in Jobs, NEW w \in Writers,
           NEW e \in Event, NEW t \in Run, NEW s \in Seq(Statuses),
           Writes(k, w, e, t, s)
    PROVE  /\ TasksTyped'
           /\ event'[k][w] = e /\ run'[k] = t /\ rows'[k] = s
           /\ \A v \in Writers \ {w} : event'[k][v] = event[k][v]
           /\ JobInv(k)' => TasksInv'
<1>1. TasksTyped' /\ event'[k][w] = e /\ run'[k] = t /\ rows'[k] = s
      /\ \A v \in Writers \ {w} : event'[k][v] = event[k][v]
    BY DEF TasksInv, TasksTyped, Writes
<1>2. ASSUME NEW j \in Jobs \ {k} PROVE JobInv(j)'
  <2>1. rows'[j] = rows[j] /\ run'[j] = run[j] /\ \A v \in Writers : event'[j][v] = event[j][v]
      BY DEF TasksInv, TasksTyped, Writes
  <2> QED BY <2>1, JobLeft DEF TasksInv, Writes
<1> QED BY <1>1, <1>2 DEF TasksInv

LEMMA Same ==
    ASSUME TasksTyped, NEW k \in Jobs
    PROVE  run = [run EXCEPT ![k] = run[k]] /\ rows = [rows EXCEPT ![k] = rows[k]]
BY DEF TasksTyped

-----------------------------------------------------------------------------
(* One lemma per action. *)

LEMMA QueueKeeps ==
    ASSUME TasksInv, NEW k \in Jobs, Queue(k)
    PROVE  TasksInv'
<1> DEFINE e == NewEvent("PENDING")
<1> DEFINE t == [run[k] EXCEPT !.at = "queued"]
<1> DEFINE s == rows[k]
<1>1. e \in Event
    BY Events DEF Statuses
<1>2. t \in Run
    BY EventFields, Writing, Runs DEF TasksInv
<1>3. s \in Seq(Statuses) /\ "route" \in Writers
    BY EventFields, Writing DEF TasksInv
<1>4. Writes(k, "route", e, t, s)
    BY Same DEF Queue, TasksInv, Writes
<1>5. /\ e.at = "new" /\ t.at = "queued" /\ s = rows[k]
      /\ run[k].at = "none"
    BY EventFields, Writing DEF Queue, NewEvent, TasksInv, Run
<1> HIDE DEF e, t, s
<1>6. /\ event'[k]["route"] = e /\ run'[k] = t /\ rows'[k] = s
      /\ \A v \in Writers \ {"route"} : event'[k][v] = event[k][v]
      /\ JobInv(k)' => TasksInv'
    BY <1>1, <1>2, <1>3, <1>4, JobStep
<1>7. RowsCounted(k) /\ EventsInTurn(k) /\ WritersIdle(k)
    BY DEF TasksInv, JobInv
<1>8. RowsCounted(k)'
    BY <1>1, <1>3, <1>5, <1>6, <1>7 DEF RowsCounted, Read, Committed, Found, Writers
<1>9. EventsInTurn(k)'
    BY <1>3, <1>4, <1>5, <1>6, <1>7 DEF Writes, EventsInTurn, Read, Committed, Busy, Found, Writers
<1>10. WritersIdle(k)'
    BY <1>5, <1>6, <1>7 DEF WritersIdle, Writers
<1> QED BY <1>6, <1>8, <1>9, <1>10 DEF JobInv

LEMMA StartKeeps ==
    ASSUME TasksInv, NEW k \in Jobs, NEW status \in {"STARTED", "RETRY"}, StartTask(k, status)
    PROVE  TasksInv'
<1> DEFINE e == NewEvent(status)
<1> DEFINE t == [run[k] EXCEPT !.at = "running", !.times = @ + 1, !.outcome = "none"]
<1> DEFINE s == rows[k]
<1>1. e \in Event
    BY Events DEF Statuses
<1>2. t \in Run
    BY EventFields, Writing, Runs DEF TasksInv
<1>3. s \in Seq(Statuses) /\ "worker" \in Writers
    BY EventFields, Writing DEF TasksInv
<1>4. Writes(k, "worker", e, t, s)
    BY Same DEF StartTask, TasksInv, Writes
<1>5. e.at = "new" /\ t.at = "running" /\ s = rows[k]
    BY EventFields, Writing DEF NewEvent, TasksInv, Run
<1> HIDE DEF e, t, s
<1>6. /\ event'[k]["worker"] = e /\ run'[k] = t /\ rows'[k] = s
      /\ \A v \in Writers \ {"worker"} : event'[k][v] = event[k][v]
      /\ JobInv(k)' => TasksInv'
    BY <1>1, <1>2, <1>3, <1>4, JobStep
<1>7. RowsCounted(k) /\ EventsInTurn(k) /\ WritersIdle(k)
    BY DEF TasksInv, JobInv
<1>8. RowsCounted(k)'
    BY <1>1, <1>3, <1>5, <1>6, <1>7 DEF RowsCounted, Read, Committed, Found, Writers
<1>9. EventsInTurn(k)'
    BY <1>3, <1>4, <1>5, <1>6, <1>7 DEF Writes, EventsInTurn, Read, Committed, Busy, Found, Writers
<1>10. WritersIdle(k)'
    BY <1>5, <1>6, <1>7 DEF WritersIdle, Writers
<1> QED BY <1>6, <1>8, <1>9, <1>10 DEF JobInv

LEMMA EndKeeps ==
    ASSUME TasksInv, NEW k \in Jobs, NEW outcome \in Outcomes, EndTask(k, outcome)
    PROVE  TasksInv'
<1> DEFINE e == NewEvent(outcome)
<1> DEFINE t == [run[k] EXCEPT !.at = "ending", !.outcome = outcome]
<1> DEFINE s == rows[k]
<1>1. e \in Event
    BY Events DEF Statuses
<1>2. t \in Run
    BY EventFields, Writing, Runs DEF TasksInv
<1>3. s \in Seq(Statuses) /\ "worker" \in Writers
    BY EventFields, Writing DEF TasksInv
<1>4. Writes(k, "worker", e, t, s)
    BY Same DEF EndTask, TasksInv, Writes
<1>5. /\ e.at = "new" /\ e.status = outcome /\ t.at = "ending" /\ t.outcome = outcome
      /\ s = rows[k]
    BY EventFields, Writing DEF NewEvent, TasksInv, Run
<1> HIDE DEF e, t, s
<1>6. /\ event'[k]["worker"] = e /\ run'[k] = t /\ rows'[k] = s
      /\ \A v \in Writers \ {"worker"} : event'[k][v] = event[k][v]
      /\ JobInv(k)' => TasksInv'
    BY <1>1, <1>2, <1>3, <1>4, JobStep
<1>7. RowsCounted(k) /\ EventsInTurn(k) /\ WritersIdle(k)
    BY DEF TasksInv, JobInv
<1>8. RowsCounted(k)'
    BY <1>1, <1>3, <1>5, <1>6, <1>7 DEF RowsCounted, Read, Committed, Found, Writers
<1>9. EventsInTurn(k)'
    BY <1>3, <1>4, <1>5, <1>6, <1>7 DEF Writes, EventsInTurn, Read, Committed, Busy, Found, Writers
<1>10. WritersIdle(k)'
    BY <1>5, <1>6, <1>7 DEF WritersIdle, Writers
<1> QED BY <1>6, <1>8, <1>9, <1>10 DEF JobInv

LEMMA LostKeeps ==
    ASSUME TasksInv, NEW k \in Jobs, WorkerLost(k)
    PROVE  TasksInv'
<1> DEFINE e == NoEvent
<1> DEFINE t == [run[k] EXCEPT !.at = "queued"]
<1> DEFINE s == rows[k]
<1>1. e \in Event
    BY Events DEF Statuses
<1>2. t \in Run
    BY EventFields, Writing, Runs DEF TasksInv
<1>3. s \in Seq(Statuses) /\ "worker" \in Writers
    BY EventFields, Writing DEF TasksInv
<1>4. Writes(k, "worker", e, t, s)
    BY Same DEF WorkerLost, TasksInv, Writes
<1>5. e.at = "none" /\ t.at = "queued" /\ s = rows[k]
    BY EventFields, Writing DEF NoEvent, TasksInv, Run
<1> HIDE DEF e, t, s
<1>6. /\ event'[k]["worker"] = e /\ run'[k] = t /\ rows'[k] = s
      /\ \A v \in Writers \ {"worker"} : event'[k][v] = event[k][v]
      /\ JobInv(k)' => TasksInv'
    BY <1>1, <1>2, <1>3, <1>4, JobStep
<1>7. RowsCounted(k) /\ EventsInTurn(k) /\ WritersIdle(k)
    BY DEF TasksInv, JobInv
<1>8. RowsCounted(k)'
    BY <1>1, <1>3, <1>5, <1>6, <1>7 DEF RowsCounted, Read, Committed, Found, Writers
<1>9. EventsInTurn(k)'
    BY <1>3, <1>4, <1>5, <1>6, <1>7 DEF Writes, EventsInTurn, Read, Committed, Busy, Found, Writers
<1>10. WritersIdle(k)'
    BY <1>5, <1>6, <1>7 DEF WritersIdle, Writers
<1> QED BY <1>6, <1>8, <1>9, <1>10 DEF JobInv

LEMMA AcknowledgeKeeps ==
    ASSUME TasksInv, NEW k \in Jobs, Acknowledge(k)
    PROVE  TasksInv'
<1>1. PICK at \in {"over", "queued"} : run' = [run EXCEPT ![k].at = at]
    BY DEF Acknowledge
<1> DEFINE t == [run[k] EXCEPT !.at = at]
<1>2. t \in Run /\ t.at = at /\ t.outcome = run[k].outcome
    BY EventFields, Writing DEF TasksInv, Run
<1>3. event' = [event EXCEPT ![k]["worker"] = event[k]["worker"]]
    BY DEF Acknowledge, TasksInv, TasksTyped
<1>4. Writes(k, "worker", event[k]["worker"], t, rows[k])
    BY <1>1, <1>3, Same DEF Acknowledge, TasksInv, Writes
<1> HIDE DEF t
<1>5. /\ event'[k]["worker"] = event[k]["worker"] /\ run'[k] = t /\ rows'[k] = rows[k]
      /\ \A v \in Writers \ {"worker"} : event'[k][v] = event[k][v]
      /\ JobInv(k)' => TasksInv'
  <2>1. event[k]["worker"] \in Event /\ rows[k] \in Seq(Statuses) /\ "worker" \in Writers
      BY EventFields, Writing DEF TasksInv
  <2> DEFINE e == event[k]["worker"]
  <2> DEFINE s == rows[k]
  <2>2. e \in Event /\ s \in Seq(Statuses) /\ Writes(k, "worker", e, t, s)
      BY <2>1, <1>4
  <2> HIDE DEF e, s
  <2>3. /\ event'[k]["worker"] = e /\ run'[k] = t /\ rows'[k] = s
        /\ \A v \in Writers \ {"worker"} : event'[k][v] = event[k][v]
        /\ JobInv(k)' => TasksInv'
      BY <1>2, <2>1, <2>2, JobStep
  <2> QED BY <2>3 DEF e, s
<1>6. RowsCounted(k) /\ EventsInTurn(k) /\ WritersIdle(k)
    BY DEF TasksInv, JobInv
<1>7. event[k]["worker"].at = "none" /\ run[k].at = "ending"
    BY DEF Acknowledge
<1>8. RowsCounted(k)'
    BY <1>5, <1>6 DEF RowsCounted, Read, Committed, Found, Writers
<1>9. EventsInTurn(k)'
    BY <1>2, <1>4, <1>5, <1>6, <1>7 DEF Writes, EventsInTurn, Read, Committed, Busy, Found, Writers
<1>10. WritersIdle(k)'
    BY <1>2, <1>5, <1>6, <1>7 DEF WritersIdle, Writers
<1> QED BY <1>5, <1>8, <1>9, <1>10 DEF JobInv

LEMMA LookLosesKeeps ==
    ASSUME TasksInv, NEW k \in Jobs, NEW w \in Writers, Look(k, w), Len(rows[k]) = 2
    PROVE  TasksInv'
<1> DEFINE e == NoEvent
<1> DEFINE t == run[k]
<1> DEFINE s == rows[k]
<1>1. e \in Event
    BY Events DEF Statuses
<1>2. t \in Run
    BY EventFields DEF TasksInv
<1>3. s \in Seq(Statuses) /\ w \in Writers
    BY EventFields, Writing DEF TasksInv
<1>4. Writes(k, w, e, t, s)
    BY Same DEF Look, EventDone, TasksInv, Writes
<1>5. e.at = "none" /\ t = run[k] /\ s = rows[k] /\ k \in lost'
    BY DEF NoEvent, Look
<1> HIDE DEF e, t, s
<1>6. /\ event'[k][w] = e /\ run'[k] = t /\ rows'[k] = s
      /\ \A v \in Writers \ {w} : event'[k][v] = event[k][v]
      /\ JobInv(k)' => TasksInv'
    BY <1>1, <1>2, <1>3, <1>4, JobStep
<1>7. RowsCounted(k) /\ EventsInTurn(k) /\ WritersIdle(k)
    BY DEF TasksInv, JobInv
<1>8. RowsCounted(k)'
    BY <1>1, <1>3, <1>5, <1>6, <1>7 DEF RowsCounted, Read, Committed, Found, Writers
<1>9. EventsInTurn(k)'
    BY <1>3, <1>4, <1>5, <1>6, <1>7 DEF Writes, EventsInTurn, Read, Committed, Busy, Found, Writers
<1>10. WritersIdle(k)'
    BY <1>5, <1>6, <1>7 DEF WritersIdle, Writers
<1> QED BY <1>6, <1>8, <1>9, <1>10 DEF JobInv

LEMMA LookKeeps ==
    ASSUME TasksInv, NEW k \in Jobs, NEW w \in Writers, Look(k, w), Len(rows[k]) # 2
    PROVE  TasksInv'
<1>0. event[k][w] \in Event /\ Len(rows[k]) \in 0..2
    BY Counted, EventFields DEF TasksInv
<1> DEFINE e == [event[k][w] EXCEPT !.at = "read", !.found = Len(rows[k])]
<1> DEFINE t == run[k]
<1> DEFINE s == rows[k]
<1>1. e \in Event
    BY <1>0 DEF Event
<1>2. t \in Run
    BY EventFields DEF TasksInv
<1>3. s \in Seq(Statuses) /\ w \in Writers
    BY EventFields, Writing DEF TasksInv
<1>4. Writes(k, w, e, t, s)
    BY Same DEF Look, TasksInv, Writes
<1>5. /\ e.at = "read" /\ e.found = Len(rows[k]) /\ e.status = event[k][w].status
      /\ t = run[k] /\ s = rows[k] /\ event[k][w].at = "new" /\ Len(rows[k]) \in 0..1
      /\ Meets(k, w) => k \in overlapped'
    BY <1>0 DEF Look, Event
<1> HIDE DEF e, t, s
<1>6. /\ event'[k][w] = e /\ run'[k] = t /\ rows'[k] = s
      /\ \A v \in Writers \ {w} : event'[k][v] = event[k][v]
      /\ JobInv(k)' => TasksInv'
    BY <1>1, <1>2, <1>3, <1>4, JobStep
<1>7. RowsCounted(k) /\ EventsInTurn(k) /\ WritersIdle(k)
    BY DEF TasksInv, JobInv
<1>8. RowsCounted(k)'
    BY <1>1, <1>3, <1>5, <1>6, <1>7 DEF RowsCounted, Read, Committed, Found, Writers
<1>9. EventsInTurn(k)'
    BY <1>3, <1>4, <1>5, <1>6, <1>7 DEF Writes, Meets, EventsInTurn, Read, Committed, Busy, Found, Writers
<1>10. WritersIdle(k)'
    BY <1>5, <1>6, <1>7 DEF WritersIdle, Writers
<1> QED BY <1>6, <1>8, <1>9, <1>10 DEF JobInv

LEMMA EventLostKeeps ==
    ASSUME TasksInv, NEW k \in Jobs, NEW w \in Writers, EventLost(k, w)
    PROVE  TasksInv'
<1> DEFINE e == NoEvent
<1> DEFINE t == run[k]
<1> DEFINE s == rows[k]
<1>1. e \in Event
    BY Events DEF Statuses
<1>2. t \in Run
    BY EventFields DEF TasksInv
<1>3. s \in Seq(Statuses) /\ w \in Writers
    BY EventFields, Writing DEF TasksInv
<1>4. Writes(k, w, e, t, s)
    BY Same DEF EventLost, EventDone, TasksInv, Writes
<1>5. e.at = "none" /\ t = run[k] /\ s = rows[k] /\ k \in lost'
    BY DEF NoEvent, EventLost
<1> HIDE DEF e, t, s
<1>6. /\ event'[k][w] = e /\ run'[k] = t /\ rows'[k] = s
      /\ \A v \in Writers \ {w} : event'[k][v] = event[k][v]
      /\ JobInv(k)' => TasksInv'
    BY <1>1, <1>2, <1>3, <1>4, JobStep
<1>7. RowsCounted(k) /\ EventsInTurn(k) /\ WritersIdle(k)
    BY DEF TasksInv, JobInv
<1>8. RowsCounted(k)'
    BY <1>1, <1>3, <1>5, <1>6, <1>7 DEF RowsCounted, Read, Committed, Found, Writers
<1>9. EventsInTurn(k)'
    BY <1>3, <1>4, <1>5, <1>6, <1>7 DEF Writes, EventsInTurn, Read, Committed, Busy, Found, Writers
<1>10. WritersIdle(k)'
    BY <1>5, <1>6, <1>7 DEF WritersIdle, Writers
<1> QED BY <1>6, <1>8, <1>9, <1>10 DEF JobInv

LEMMA PublishKeeps ==
    ASSUME TasksInv, NEW k \in Jobs, NEW w \in Writers, NEW works \in BOOLEAN, PublishRow(k, w, works)
    PROVE  TasksInv'
<1> DEFINE e == NoEvent
<1> DEFINE t == run[k]
<1> DEFINE s == rows[k]
<1>1. e \in Event
    BY Events DEF Statuses
<1>2. t \in Run
    BY EventFields DEF TasksInv
<1>3. s \in Seq(Statuses) /\ w \in Writers
    BY EventFields, Writing DEF TasksInv
<1>4. Writes(k, w, e, t, s)
    BY Same DEF PublishRow, EventDone, TasksInv, Writes
<1>5. e.at = "none" /\ t = run[k] /\ s = rows[k] /\ event[k][w].at = "committed"
    BY DEF NoEvent, PublishRow
<1> HIDE DEF e, t, s
<1>6. /\ event'[k][w] = e /\ run'[k] = t /\ rows'[k] = s
      /\ \A v \in Writers \ {w} : event'[k][v] = event[k][v]
      /\ JobInv(k)' => TasksInv'
    BY <1>1, <1>2, <1>3, <1>4, JobStep
<1>7. RowsCounted(k) /\ EventsInTurn(k) /\ WritersIdle(k)
    BY DEF TasksInv, JobInv
<1>8. RowsCounted(k)'
    BY <1>1, <1>3, <1>5, <1>6, <1>7 DEF RowsCounted, Read, Committed, Found, Writers
<1>9. EventsInTurn(k)'
    BY <1>3, <1>4, <1>5, <1>6, <1>7 DEF Writes, EventsInTurn, Read, Committed, Busy, Found, Writers
<1>10. WritersIdle(k)'
    BY <1>5, <1>6, <1>7 DEF WritersIdle, Writers
<1> QED BY <1>6, <1>8, <1>9, <1>10 DEF JobInv

LEMMA RowRecorded ==
    ASSUME NEW k \in Jobs, NEW e \in Event, rows[k] \in Seq(Statuses), e.found <= Len(rows[k])
    PROVE  /\ Recorded(k, e) \in Seq(Statuses)
           /\ Len(Recorded(k, e)) = IF e.found = 0 THEN Len(rows[k]) + 1 ELSE Len(rows[k])
           /\ \A i \in 1..Len(rows[k]) : i # e.found => Recorded(k, e)[i] = rows[k][i]
           /\ Recorded(k, e)[IF e.found = 0 THEN Len(rows[k]) + 1 ELSE e.found] = e.status
<1>1. e.status \in Statuses /\ e.found \in 0..2
    BY DEF Event
<1>2. CASE e.found = 0
    BY <1>1, <1>2 DEF Recorded
<1>3. CASE e.found # 0
    BY <1>1, <1>3 DEF Recorded
<1> QED BY <1>2, <1>3

LEMMA RecordKeeps ==
    ASSUME TasksInv, NEW k \in Jobs, NEW w \in Writers, Record(k, w)
    PROVE  TasksInv'
<1> DEFINE d == event[k][w]
<1> DEFINE r == rows[k]
<1> DEFINE n == IF d.found = 0 THEN Len(r) + 1 ELSE d.found
<1> DEFINE e == [d EXCEPT !.at = "committed", !.found = n]
<1> DEFINE t == run[k]
<1> DEFINE s == Recorded(k, d)
<1>0. /\ d \in Event /\ d.at = "read" /\ d.found \in 0..2
      /\ r \in Seq(Statuses) /\ Len(r) \in 0..2
      /\ d.found <= Len(r) /\ (d.found = 0 => Len(r) <= 1)
    BY Counted, EventFields DEF TasksInv, Record
<1>1. /\ s \in Seq(Statuses) /\ w \in Writers
      /\ Len(s) = (IF d.found = 0 THEN Len(r) + 1 ELSE Len(r))
      /\ s[n] = d.status
    BY <1>0, RowRecorded
<1>2. Writes(k, w, e, t, s)
    BY Same DEF Record, TasksInv, Writes
<1>3. t \in Run
    BY EventFields DEF TasksInv
<1> HIDE DEF s, t
<1>4. Len(s) <= 2 /\ n \in 1..Len(s) /\ n \in 1..2 /\ Len(s) \in 0..2 /\ Len(r) <= Len(s)
      /\ (d.found = 0 => Len(s) = Len(r) + 1 /\ n = Len(s)) /\ (d.found # 0 => Len(s) = Len(r) /\ n = d.found)
  <2> DEFINE f == d.found
  <2> DEFINE a == Len(r)
  <2> DEFINE b == Len(s)
  <2>1. /\ f \in 0..2 /\ a \in 0..2 /\ f <= a /\ (f = 0 => a <= 1)
        /\ b = (IF f = 0 THEN a + 1 ELSE a) /\ n = (IF f = 0 THEN a + 1 ELSE f)
      BY <1>0, <1>1, Zenon
  <2> HIDE DEF f, a, b, n
  <2>2. /\ b <= 2 /\ n \in 1..b /\ n \in 1..2 /\ b \in 0..2 /\ a <= b
        /\ (f = 0 => b = a + 1 /\ n = b) /\ (f # 0 => b = a /\ n = f)
      BY <2>1
  <2> QED BY <2>2, Zenon DEF f, a, b
<1> HIDE DEF n
<1>5. e \in Event /\ e.at = "committed" /\ e.status = d.status /\ e.found = n
    BY <1>0, <1>4 DEF Event
<1> HIDE DEF e
<1>6. /\ event'[k][w] = e /\ run'[k] = t /\ rows'[k] = s
      /\ \A v \in Writers \ {w} : event'[k][v] = event[k][v]
      /\ JobInv(k)' => TasksInv'
    BY <1>1, <1>2, <1>3, <1>5, JobStep
<1>7. RowsCounted(k) /\ EventsInTurn(k) /\ WritersIdle(k)
    BY DEF TasksInv, JobInv
<1>8. \A v \in Writers \ {w} :
        /\ v = Other(w) /\ Writers = {w, v} /\ event[k][v] \in Event
        /\ event[k][v].at = "read" => event[k][v].found <= Len(r)
        /\ event[k][v].at = "committed" => event[k][v].found \in 1..Len(r)
    BY Counted, EventFields DEF Writers, Other, TasksInv
<1>9. \A v \in Writers \ {w} :
        event[k][v].at = "read" /\ event[k][v].found = 0 => Len(r) <= 1 /\ (d.found = 0 => Len(r) = 0)
    BY <1>0, <1>7, <1>8 DEF RowsCounted, Read, Found
<1>10. RowsCounted(k)'
  <2>1. \A v \in Writers :
          /\ Read(k, v)' => v # w /\ Found(k, v)' <= Len(s)
          /\ Read(k, v)' /\ Found(k, v)' = 0 => Len(s) <= 1
          /\ Committed(k, v)' => Found(k, v)' \in 1..Len(s)
      BY <1>0, <1>4, <1>5, <1>6, <1>8, <1>9 DEF Read, Committed, Found, Event
  <2>2. ~Read(k, w)'
      BY <1>5, <1>6 DEF Read
  <2>3. rows'[k] = s /\ Len(s) <= 2
      BY <1>4, <1>6, Zenon
  <2> QED BY <2>1, <2>2, <2>3, <1>1 DEF RowsCounted, Read, Committed, Found
<1>11. EventsInTurn(k)'
  <2> SUFFICES ASSUME k \notin lost \cup overlapped PROVE EventsInTurn(k)'
      BY <1>2 DEF Writes, EventsInTurn
  <2>1. Len(r) <= 1 /\ d.found = Len(r) /\ Busy(k, w)
      BY <1>0, <1>7 DEF EventsInTurn, Read, Found, Busy
  <2>2. Len(s) = 1 /\ n = 1
    <3> DEFINE a == Len(r)
    <3> DEFINE b == Len(s)
    <3>1. /\ a \in 0..2 /\ b \in 0..2 /\ a <= 1 /\ d.found = a /\ (d.found = 0 => b = a + 1 /\ n = b)
          /\ (d.found # 0 => b = a /\ n = d.found)
        BY <1>0, <1>4, <2>1, Zenon
    <3> HIDE DEF a, b
    <3>2. b = 1 /\ n = 1
        BY <3>1
    <3> QED BY <3>2 DEF b
  <2>3. s[1] = e.status
      BY <2>2, <1>1, <1>5
  <2>4. \A v \in Writers \ {w} : event[k][v].at \notin {"read", "committed"}
      BY <2>1, <1>7 DEF EventsInTurn, Read, Committed, Busy, Writers
  <2>5. /\ rows'[k] = s /\ run'[k] = run[k] /\ event'[k][w].at = "committed"
        /\ event'[k][w].found = 1 /\ event'[k][w].status = event[k][w].status
        /\ \A v \in Writers \ {w} : event'[k][v] = event[k][v]
      BY <1>5, <1>6, <2>2 DEF t
  <2>6. Len(rows'[k]) = 1 /\ rows'[k][1] = event[k][w].status
      BY <1>5, <2>2, <2>3, <2>5
  <2>7. w = "route" /\ run[k].at \in {"ending", "over"} => event[k]["worker"].at = "new"
      BY <2>1, <1>7 DEF EventsInTurn
  <2>8. w = "worker" => run[k].at # "over"
      BY <1>0, <1>7 DEF EventsInTurn
  <2>9. w = "worker" /\ run[k].at = "ending" => event[k][w].status = run[k].outcome
      BY <1>0, <1>7 DEF EventsInTurn
  <2>10. CASE w = "route"
    <3>1. /\ event'[k]["route"].at = "committed" /\ event'[k]["route"].found = 1
          /\ event'[k]["worker"].at \notin {"read", "committed"}
          /\ run'[k].at \in {"ending", "over"} => event'[k]["worker"].at = "new"
        BY <2>4, <2>5, <2>7, <2>10 DEF Writers
    <3>2. run'[k].at # "over"
        BY <1>7, <2>5, <2>7, <2>10 DEF EventsInTurn
    <3>3. run'[k].at = "ending" => event'[k]["worker"].status = run'[k].outcome
        BY <1>7, <2>5, <2>7, <2>10 DEF EventsInTurn, Writers
    <3> QED BY <2>6, <3>1, <3>2, <3>3 DEF EventsInTurn, Read, Committed, Busy, Found, Writers
  <2>11. CASE w = "worker"
    <3>1. /\ event'[k]["worker"].at = "committed" /\ event'[k]["worker"].found = 1
          /\ event'[k]["route"].at \notin {"read", "committed"}
        BY <2>4, <2>5, <2>11 DEF Writers
    <3>2. run'[k].at # "over"
        BY <2>5, <2>8, <2>11
    <3>3. run'[k].at = "ending" =>
            event'[k]["worker"].status = run'[k].outcome /\ rows'[k][1] = run'[k].outcome
        BY <2>5, <2>6, <2>9, <2>11
    <3> QED BY <2>6, <3>1, <3>2, <3>3 DEF EventsInTurn, Read, Committed, Busy, Found, Writers
  <2> QED BY <2>10, <2>11 DEF Writers
<1>12. WritersIdle(k)'
    BY <1>0, <1>5, <1>6, <1>7 DEF WritersIdle, Writers, t
<1> QED BY <1>6, <1>10, <1>11, <1>12 DEF JobInv

LEMMA TasksInvStep == TasksInv /\ [JobsNext]_jobsVars => TasksInv'
<1> SUFFICES ASSUME TasksInv, [JobsNext]_jobsVars PROVE TasksInv'
    OBVIOUS
<1>1. ASSUME UNCHANGED taskVars PROVE TasksInv'
  <2>1. UNCHANGED <<rows, run, event, lost, overlapped>>
      BY <1>1 DEF taskVars
  <2>2. \A k \in Jobs : JobInv(k)'
      BY <2>1, JobLeft DEF TasksInv
  <2> QED BY <2>1, <2>2 DEF TasksInv, TasksTyped
<1>2. ASSUME NEW f \in history,
             \/ \E s \in Statuses : ServeHistory(f, {s})
             \/ ServeHistory(f, Statuses) \/ ShowHistory(f) \/ HistoryFails(f)
      PROVE  TasksInv'
    BY <1>1, <1>2 DEF ServeHistory, ShowHistory, HistoryFails
<1>3. CASE LoadHistory \/ Subscribe \/ StreamDrops \/ ApplyUpdate
    BY <1>1, <1>3 DEF LoadHistory, Subscribe, StreamDrops, ApplyUpdate
<1>4. ASSUME NEW j \in Jobs, Queue(j) \/ StartTask(j, "STARTED") \/ StartTask(j, "RETRY")
      PROVE  TasksInv'
    BY <1>4, QueueKeeps, StartKeeps
<1>5. ASSUME NEW j \in Jobs, (\E s \in Outcomes : EndTask(j, s)) \/ Acknowledge(j) \/ WorkerLost(j)
      PROVE  TasksInv'
    BY <1>5, EndKeeps, AcknowledgeKeeps, LostKeeps
<1>6. ASSUME NEW j \in Jobs, NEW w \in Writers,
             \/ Look(j, w) \/ Record(j, w) \/ EventLost(j, w)
             \/ PublishRow(j, w, TRUE) \/ PublishRow(j, w, FALSE)
      PROVE  TasksInv'
    BY <1>6, LookKeeps, LookLosesKeeps, RecordKeeps, EventLostKeeps, PublishKeeps
<1>7. CASE UNCHANGED jobsVars
    BY <1>1, <1>7 DEF jobsVars, taskVars
<1> QED BY <1>2, <1>3, <1>4, <1>5, <1>6, <1>7 DEF JobsNext

LEMMA TasksInvariant == JobsSpec => []TasksInv
BY TasksInvInit, TasksInvStep, PTL DEF JobsSpec

LEMMA OneRow ==
    ASSUME NEW s \in Seq(Statuses), Len(s) = 1
    PROVE  s = <<s[1]>>
OBVIOUS

\* However the route's event and those of redelivered and retried runs are
\* recorded, a task that is over has one row with its outcome, unless an event
\* was lost or the two writers met (record_job_event).
THEOREM Final == JobsSpec => []FinishedIsFinal
<1>1. TasksInv => FinishedIsFinal
  <2> SUFFICES ASSUME TasksInv, NEW j \in Jobs,
                      run[j].at = "over", j \notin lost \cup overlapped
               PROVE  rows[j] = <<run[j].outcome>>
      BY DEF FinishedIsFinal
  <2>1. EventsInTurn(j) /\ rows[j] \in Seq(Statuses)
      BY DEF TasksInv, JobInv, TasksTyped
  <2>2. Len(rows[j]) = 1 /\ rows[j][1] = run[j].outcome
      BY <2>1 DEF EventsInTurn
  <2> QED BY <2>1, <2>2, OneRow
<1> QED BY <1>1, TasksInvariant, PTL

-----------------------------------------------------------------------------
(* The panel. *)

\* s is what a row's status is by the rows r, or the row is not there.
CurrentIn(r, x, s) == s = "absent" \/ (x[2] \in DOMAIN r[x[1]] /\ s = r[x[1]][x[2]])

\* A writer has committed the row and not published it.
Reporting(x) == \E w \in Writers : Committed(x[1], w) /\ Found(x[1], w) = x[2]

\* No later update of the same row is on the wire.
LastOf(q, i) == \A k \in DOMAIN q : k > i => q[k].row # q[i].row

\* Fetches, the panel and the last update of a row show it as it is, unless its
\* last change is not published or did not reach the panel for good.
Settled(x) ==
    x \notin untold /\ ~Reporting(x) =>
        /\ \A f \in history : f.answered => CurrentIn(rows, x, f.seen[x])
        /\ (\A i \in DOMAIN updates : updates[i].row # x) => CurrentIn(rows, x, panel[x])
        /\ \A i \in DOMAIN updates :
             updates[i].row = x /\ LastOf(updates, i) => CurrentIn(rows, x, updates[i].status)

PanelTyped ==
    /\ panel \in [RowIds -> Statuses \cup {"absent"}]
    /\ updates \in Seq(Update)
    /\ history \subseteq Fetched

PanelInv == PanelTyped /\ \A x \in RowIds : Settled(x)

LEMMA PanelInvInit == JobsInit => PanelInv
<1> SUFFICES ASSUME JobsInit PROVE PanelInv
    OBVIOUS
<1>1. PanelTyped
    BY DEF JobsInit, PanelTyped, NothingSeen
<1>2. \A x \in RowIds : panel[x] = "absent"
    BY DEF JobsInit, NothingSeen
<1>3. history = {} /\ DOMAIN updates = {}
    BY DEF JobsInit
<1> QED BY <1>1, <1>2, <1>3 DEF PanelInv, Settled, CurrentIn

\* A task's step that changes no row and drops no report keeps the panel.
LEMMA TaskStep ==
    ASSUME PanelInv, UNCHANGED <<rows, panelVars>>,
           \A x \in RowIds : Reporting(x) => Reporting(x)'
    PROVE  PanelInv'
<1>1. UNCHANGED <<rows, panel, updates, history, untold>>
    BY DEF panelVars
<1>2. PanelTyped'
    BY <1>1 DEF PanelInv, PanelTyped
<1>3. ASSUME NEW x \in RowIds PROVE Settled(x)'
    BY <1>1, <1>3 DEF PanelInv, Settled
<1> QED BY <1>2, <1>3 DEF PanelInv

\* The same for a step of the panel that leaves the tasks as they are.
LEMMA TasksLeft ==
    ASSUME UNCHANGED taskVars
    PROVE  rows' = rows /\ \A x \in RowIds : Reporting(x)' <=> Reporting(x)
BY DEF taskVars, Reporting, Committed, Found

LEMMA RowIdsOf ==
    ASSUME NEW x \in RowIds
    PROVE  x[1] \in Jobs /\ x[2] \in {1, 2} /\ x = <<x[1], x[2]>>
BY DEF RowIds

LEMMA LoadKeepsPanel ==
    ASSUME PanelInv, LoadHistory
    PROVE  PanelInv'
<1> DEFINE g == [answered |-> FALSE, seen |-> NothingSeen]
<1>1. g \in Fetched /\ ~g.answered
    BY DEF Fetched, NothingSeen
<1>2. history' = history \cup {g} /\ UNCHANGED <<panel, updates, untold>>
    BY DEF LoadHistory, MoreHistory
<1>3. rows' = rows /\ \A x \in RowIds : Reporting(x)' <=> Reporting(x)
    BY TasksLeft DEF LoadHistory
<1> HIDE DEF g
<1>4. PanelTyped'
    BY <1>1, <1>2 DEF PanelInv, PanelTyped
<1>5. ASSUME NEW x \in RowIds PROVE Settled(x)'
    BY <1>1, <1>2, <1>3 DEF PanelInv, Settled
<1> QED BY <1>4, <1>5 DEF PanelInv

LEMMA ServeKeepsPanel ==
    ASSUME PanelInv, TasksTyped, NEW f \in history, NEW filter \in SUBSET Statuses,
           ServeHistory(f, filter)
    PROVE  PanelInv'
<1> DEFINE seen == [x \in RowIds |->
                      IF HasRow(x) /\ StatusOf(x) \in filter THEN StatusOf(x) ELSE "absent"]
<1> DEFINE g == [answered |-> TRUE, seen |-> seen]
<1>1. \A x \in RowIds : CurrentIn(rows, x, seen[x]) /\ seen[x] \in Statuses \cup {"absent"}
    BY DEF CurrentIn, HasRow, StatusOf
<1>2. seen \in [RowIds -> Statuses \cup {"absent"}]
    BY <1>1
<1>3. history' = (history \ {f}) \cup {g} /\ UNCHANGED <<panel, updates, untold>>
    BY DEF ServeHistory
<1> HIDE DEF seen
<1>4. g \in Fetched /\ g.seen = seen
    BY <1>2 DEF Fetched
<1> HIDE DEF g
<1>5. rows' = rows /\ \A x \in RowIds : Reporting(x)' <=> Reporting(x)
    BY TasksLeft DEF ServeHistory
<1>6. PanelTyped'
    BY <1>3, <1>4 DEF PanelInv, PanelTyped
<1>7. ASSUME NEW x \in RowIds PROVE Settled(x)'
    BY <1>1, <1>3, <1>4, <1>5 DEF PanelInv, Settled
<1> QED BY <1>6, <1>7 DEF PanelInv

LEMMA ShowKeepsPanel ==
    ASSUME PanelInv, NEW f \in history, ShowHistory(f)
    PROVE  PanelInv'
<1>1. /\ f.answered /\ panel' = f.seen /\ history' = history \ {f}
      /\ untold' = untold \ Told(f) /\ UNCHANGED updates
    BY DEF ShowHistory
<1>2. rows' = rows /\ \A x \in RowIds : Reporting(x)' <=> Reporting(x)
    BY TasksLeft DEF ShowHistory
<1>3. \A x \in Told(f) :
        /\ \A i \in DOMAIN updates : updates[i].row # x
        /\ \A g \in history : g.answered => CurrentIn(rows, x, g.seen[x])
    BY DEF Told, Waiting, Agrees, HasRow, StatusOf, CurrentIn
<1>4. PanelTyped'
    BY <1>1 DEF PanelInv, PanelTyped, Fetched
<1>5. ASSUME NEW x \in RowIds PROVE Settled(x)'
  <2>1. CASE x \in Told(f)
      BY <1>1, <1>2, <1>3, <2>1 DEF Settled
  <2>2. CASE x \notin Told(f)
      BY <1>1, <1>2, <2>2 DEF PanelInv, Settled
  <2> QED BY <2>1, <2>2
<1> QED BY <1>4, <1>5 DEF PanelInv

LEMMA FailKeepsPanel ==
    ASSUME PanelInv, NEW f \in history, HistoryFails(f)
    PROVE  PanelInv'
<1>1. /\ \A x \in RowIds : panel'[x] = "absent"
      /\ history' = history \ {f} /\ UNCHANGED <<updates, untold>>
    BY DEF HistoryFails, NothingSeen
<1>2. rows' = rows /\ \A x \in RowIds : Reporting(x)' <=> Reporting(x)
    BY TasksLeft DEF HistoryFails
<1>3. PanelTyped'
    BY <1>1 DEF HistoryFails, NothingSeen, PanelInv, PanelTyped
<1>4. \A x \in RowIds : CurrentIn(rows, x, panel'[x])
    BY <1>1 DEF CurrentIn
<1>5. ASSUME NEW x \in RowIds PROVE Settled(x)'
    BY <1>1, <1>2, <1>4 DEF PanelInv, Settled
<1> QED BY <1>3, <1>5 DEF PanelInv

LEMMA DropKeepsPanel ==
    ASSUME PanelInv, StreamDrops
    PROVE  PanelInv'
<1>1. /\ updates' = <<>> /\ untold' = untold \cup {updates[i].row : i \in DOMAIN updates}
      /\ UNCHANGED <<panel, history>>
    BY DEF StreamDrops
<1>2. rows' = rows /\ \A x \in RowIds : Reporting(x)' <=> Reporting(x)
    BY TasksLeft DEF StreamDrops
<1>3. DOMAIN updates' = {} /\ updates' \in Seq(Update)
    BY <1>1
<1>4. PanelTyped'
    BY <1>1, <1>3 DEF PanelInv, PanelTyped
<1>5. ASSUME NEW x \in RowIds PROVE Settled(x)'
  <2>1. x \notin untold' => x \notin untold /\ \A i \in DOMAIN updates : updates[i].row # x
      BY <1>1
  <2> QED BY <1>1, <1>2, <1>3, <2>1 DEF PanelInv, Settled
<1> QED BY <1>4, <1>5 DEF PanelInv

LEMMA Tails ==
    ASSUME NEW q \in Seq(Update), q # <<>>
    PROVE  /\ Tail(q) \in Seq(Update) /\ Head(q) = q[1] /\ q[1] \in Update /\ 1 \in DOMAIN q
           /\ \A i \in DOMAIN Tail(q) : i \in Nat /\ i >= 1 /\ i + 1 \in DOMAIN q /\ Tail(q)[i] = q[i + 1]
           /\ \A k \in DOMAIN q : k \in Nat /\ (k > 1 => k - 1 \in DOMAIN Tail(q)) /\ k >= 1
<1>1. Len(q) \in Nat /\ DOMAIN q = 1..Len(q) /\ Len(q) # 0
    OBVIOUS
<1>2. Tail(q) \in Seq(Update) /\ Len(Tail(q)) = Len(q) - 1 /\ DOMAIN Tail(q) = 1..Len(q) - 1
    BY <1>1
<1>3. Head(q) = q[1] /\ q[1] \in Update
    BY <1>1
<1>4. \A i \in 1..Len(q) - 1 : Tail(q)[i] = q[i + 1]
    BY <1>1
<1> QED BY <1>1, <1>2, <1>3, <1>4

LEMMA ApplyKeepsPanel ==
    ASSUME PanelInv, ApplyUpdate
    PROVE  PanelInv'
<1> DEFINE u == Head(updates)
<1>1. /\ updates # <<>> /\ updates \in Seq(Update) /\ panel' = [panel EXCEPT ![u.row] = u.status]
      /\ updates' = Tail(updates) /\ UNCHANGED <<history, untold>>
    BY DEF ApplyUpdate, Merged, PanelInv, PanelTyped
<1>2. rows' = rows /\ \A x \in RowIds : Reporting(x)' <=> Reporting(x)
    BY TasksLeft DEF ApplyUpdate
<1>3. /\ updates' \in Seq(Update) /\ u = updates[1] /\ u \in Update /\ 1 \in DOMAIN updates
      /\ \A i \in DOMAIN updates' : i \in Nat /\ i >= 1 /\ i + 1 \in DOMAIN updates /\ updates'[i] = updates[i + 1]
      /\ \A k \in DOMAIN updates : k \in Nat /\ (k > 1 => k - 1 \in DOMAIN updates') /\ k >= 1
    BY <1>1, Tails
<1> HIDE DEF u
<1>4. u.row \in RowIds /\ u.status \in Statuses
    BY <1>3 DEF Update
<1>5. PanelTyped'
    BY <1>1, <1>3, <1>4 DEF PanelInv, PanelTyped
<1>6. \A i \in DOMAIN updates' : LastOf(updates', i) => LastOf(updates, i + 1)
  <2> SUFFICES ASSUME NEW i \in DOMAIN updates', LastOf(updates', i),
                      NEW k \in DOMAIN updates, k > i + 1
               PROVE  updates[k].row # updates[i + 1].row
      BY DEF LastOf
  <2>1. k \in Nat /\ i \in Nat /\ k > 1 /\ k - 1 > i /\ i >= 1
      BY <1>3
  <2>2. k - 1 \in DOMAIN updates' /\ updates'[k - 1].row # updates'[i].row
      BY <2>1, <1>3 DEF LastOf
  <2>3. updates'[k - 1] = updates[k - 1 + 1] /\ k - 1 + 1 = k /\ updates'[i] = updates[i + 1]
      BY <1>3, <2>1, <2>2
  <2> QED BY <2>2, <2>3
<1>7. ASSUME NEW x \in RowIds, x \notin untold', ~Reporting(x)' PROVE Settled(x)'
  <2>1. x \notin untold /\ ~Reporting(x) /\ Settled(x)
      BY <1>1, <1>2, <1>7 DEF PanelInv
  <2>2. \A f \in history' : f.answered => CurrentIn(rows', x, f.seen[x])
      BY <1>1, <1>2, <2>1 DEF Settled
  <2>3. \A i \in DOMAIN updates' :
          updates'[i].row = x /\ LastOf(updates', i) => CurrentIn(rows', x, updates'[i].status)
      BY <1>2, <1>3, <1>6, <2>1 DEF Settled
  <2>4. ASSUME \A i \in DOMAIN updates' : updates'[i].row # x PROVE CurrentIn(rows', x, panel'[x])
    <3>1. \A k \in DOMAIN updates : k > 1 => updates[k].row # x
      <4> SUFFICES ASSUME NEW k \in DOMAIN updates, k > 1 PROVE updates[k].row # x
          OBVIOUS
      <4>1. k \in Nat /\ k - 1 \in DOMAIN updates' /\ updates'[k - 1] = updates[k - 1 + 1] /\ k - 1 + 1 = k
          BY <1>3
      <4> QED BY <4>1, <2>4
    <3>2. CASE u.row = x
      <4>1. LastOf(updates, 1)
          BY <1>3, <3>1, <3>2 DEF LastOf
      <4>2. CurrentIn(rows, x, u.status)
          BY <1>3, <2>1, <3>2, <4>1 DEF Settled
      <4>3. panel'[x] = u.status
          BY <1>1, <1>4, <3>2 DEF PanelInv, PanelTyped
      <4> QED BY <4>2, <4>3, <1>2
    <3>3. CASE u.row # x
      <4>1. \A k \in DOMAIN updates : updates[k].row # x
        <5> SUFFICES ASSUME NEW k \in DOMAIN updates PROVE updates[k].row # x
            OBVIOUS
        <5>1. k = 1 \/ k > 1
            BY <1>3
        <5> QED BY <5>1, <3>1, <3>3, <1>3
      <4>2. CurrentIn(rows, x, panel[x])
          BY <2>1, <4>1 DEF Settled
      <4>3. panel'[x] = panel[x]
          BY <1>1, <1>4, <3>3 DEF PanelInv, PanelTyped
      <4> QED BY <4>2, <4>3, <1>2
    <3> QED BY <3>2, <3>3
  <2> QED BY <2>2, <2>3, <2>4 DEF Settled
<1>8. \A x \in RowIds : Settled(x)'
    BY <1>7 DEF Settled
<1> QED BY <1>5, <1>8 DEF PanelInv

LEMMA RowId ==
    ASSUME TasksInv, NEW k \in Jobs, NEW w \in Writers, Committed(k, w)
    PROVE  <<k, Found(k, w)>> \in RowIds /\ Found(k, w) \in DOMAIN rows[k]
<1>1. Found(k, w) \in 1..Len(rows[k]) /\ Len(rows[k]) \in 0..2
    BY Counted DEF Committed, Found
<1>2. rows[k] \in Seq(Statuses)
    BY DEF TasksInv, TasksTyped
<1>3. \A n \in 0..2 : \A m \in 1..n : m \in {1, 2}
    OBVIOUS
<1>4. Found(k, w) \in {1, 2}
    BY <1>1, <1>3
<1>5. DOMAIN rows[k] = 1..Len(rows[k])
    BY <1>2
<1> QED BY <1>1, <1>4, <1>5 DEF RowIds

LEMMA EventStep ==
    ASSUME TasksInv, PanelInv, NEW k \in Jobs, NEW w \in Writers, NEW e \in Event,
           event' = [event EXCEPT ![k][w] = e], UNCHANGED <<rows, panelVars>>,
           ~Committed(k, w)
    PROVE  PanelInv'
<1>1. ASSUME NEW x \in RowIds, Reporting(x) PROVE Reporting(x)'
  <2>1. PICK v \in Writers : Committed(x[1], v) /\ Found(x[1], v) = x[2]
      BY <1>1 DEF Reporting
  <2>2. x[1] # k \/ v # w
      BY <2>1
  <2>3. event'[x[1]][v] = event[x[1]][v]
      BY <2>2, RowIdsOf DEF TasksInv, TasksTyped
  <2> QED BY <2>1, <2>3 DEF Reporting, Committed, Found
<1> QED BY <1>1, TaskStep

LEMMA RecordKeepsPanel ==
    ASSUME TasksInv, PanelInv, NEW k \in Jobs, NEW w \in Writers, Record(k, w)
    PROVE  PanelInv'
<1> DEFINE d == event[k][w]
<1> DEFINE n == IF d.found = 0 THEN Len(rows[k]) + 1 ELSE d.found
<1> DEFINE e == [d EXCEPT !.at = "committed", !.found = n]
<1>1. /\ d.at = "read" /\ rows' = [rows EXCEPT ![k] = Recorded(k, d)]
      /\ event' = [event EXCEPT ![k][w] = e]
      /\ UNCHANGED <<panel, updates, history, untold>>
    BY DEF Record, panelVars
<1>2. /\ d \in Event /\ d.found \in 0..2 /\ rows[k] \in Seq(Statuses) /\ Len(rows[k]) \in Nat
      /\ d.found <= Len(rows[k])
    BY <1>1, Counted, EventFields DEF TasksInv
<1>3. e.at = "committed" /\ e.found = n
    BY <1>2 DEF Event
<1>4. \A i \in DOMAIN rows[k] : i # n => i \in DOMAIN Recorded(k, d) /\ Recorded(k, d)[i] = rows[k][i]
  <2>1. CASE d.found = 0
      BY <1>2, <2>1 DEF Recorded
  <2>2. CASE d.found # 0
      BY <1>2, <2>2 DEF Recorded
  <2> QED BY <2>1, <2>2
<1> HIDE DEF n, e
<1>5. /\ rows'[k] = Recorded(k, d) /\ event'[k][w] = e
      /\ \A j \in Jobs \ {k} : rows'[j] = rows[j]
      /\ \A j \in Jobs, v \in Writers : j # k \/ v # w => event'[j][v] = event[j][v]
    BY <1>1 DEF TasksInv, TasksTyped
<1>6. PanelTyped'
    BY <1>1 DEF PanelInv, PanelTyped
<1>7. ASSUME NEW x \in RowIds, ~Reporting(x)' PROVE Settled(x)'
  <2>1. x # <<k, n>>
    <3> SUFFICES ASSUME x = <<k, n>> PROVE Reporting(x)'
        BY <1>7
    <3> QED BY <1>3, <1>5 DEF Reporting, Committed, Found
  <2>2. \A s : CurrentIn(rows, x, s) => CurrentIn(rows', x, s)
      BY <1>4, <1>5, <2>1, RowIdsOf DEF CurrentIn
  <2>3. ~Reporting(x)
    <3> SUFFICES ASSUME NEW v \in Writers, Committed(x[1], v), Found(x[1], v) = x[2] PROVE Reporting(x)'
        BY <1>7 DEF Reporting
    <3>1. x[1] # k \/ v # w
        BY <1>1 DEF Committed
    <3> QED BY <3>1, <1>5, RowIdsOf DEF Reporting, Committed, Found
  <2> QED BY <1>1, <2>2, <2>3 DEF PanelInv, Settled
<1>8. \A x \in RowIds : Settled(x)'
    BY <1>7 DEF Settled
<1> QED BY <1>6, <1>8 DEF PanelInv

LEMMA LostKeepsPanel ==
    ASSUME TasksInv, PanelInv, NEW k \in Jobs, WorkerLost(k)
    PROVE  PanelInv'
<1>1. /\ event' = [event EXCEPT ![k]["worker"] = NoEvent]
      /\ UNCHANGED <<rows, panel, updates, history>>
      /\ untold \subseteq untold'
      /\ Committed(k, "worker") => <<k, Found(k, "worker")>> \in untold'
    BY DEF WorkerLost, Committed, Found
<1>2. PanelTyped'
    BY <1>1 DEF PanelInv, PanelTyped
<1>3. ASSUME NEW x \in RowIds, x \notin untold', ~Reporting(x)' PROVE Settled(x)'
  <2>1. ~Reporting(x)
    <3> SUFFICES ASSUME NEW v \in Writers, Committed(x[1], v), Found(x[1], v) = x[2] PROVE Reporting(x)'
        BY <1>3 DEF Reporting
    <3>1. x[1] # k \/ v # "worker"
        BY <1>1, <1>3, RowIdsOf
    <3>2. event'[x[1]][v] = event[x[1]][v]
        BY <1>1, <3>1, RowIdsOf DEF TasksInv, TasksTyped
    <3> QED BY <3>2 DEF Reporting, Committed, Found
  <2> QED BY <1>1, <1>3, <2>1 DEF PanelInv, Settled
<1>4. \A x \in RowIds : Settled(x)'
    BY <1>3 DEF Settled
<1> QED BY <1>2, <1>4 DEF PanelInv

LEMMA Appended ==
    ASSUME NEW q \in Seq(Update), NEW u \in Update
    PROVE  /\ Append(q, u) \in Seq(Update)
           /\ Len(q) + 1 \in DOMAIN Append(q, u) /\ Append(q, u)[Len(q) + 1] = u
           /\ \A i \in DOMAIN Append(q, u) : i = Len(q) + 1 \/ (i \in DOMAIN q /\ i < Len(q) + 1)
           /\ \A i \in DOMAIN q : i \in DOMAIN Append(q, u) /\ Append(q, u)[i] = q[i]
OBVIOUS

LEMMA PublishKeepsPanel ==
    ASSUME TasksInv, PanelInv, NEW k \in Jobs, NEW w \in Writers, NEW works \in BOOLEAN,
           PublishRow(k, w, works)
    PROVE  PanelInv'
<1> DEFINE y == <<k, event[k][w].found>>
<1> DEFINE u == [row |-> y, status |-> StatusOf(y)]
<1> DEFINE heard == works /\ stream = "open"
<1> DEFINE secured == \A f \in history : Agrees(f, y)
<1>1. /\ Committed(k, w) /\ event' = [event EXCEPT ![k][w] = NoEvent]
      /\ UNCHANGED <<rows, panel, history>>
      /\ (heard => updates' = Append(updates, u)) /\ (~heard => updates' = updates)
      /\ untold' = IF heard /\ secured THEN untold \ {y} ELSE untold \cup {y}
    BY DEF PublishRow, EventDone, Committed
<1>2. y \in RowIds /\ y[2] \in DOMAIN rows[y[1]] /\ StatusOf(y) \in Statuses
    BY <1>1, RowId DEF Found, StatusOf, TasksInv, TasksTyped
<1>3. u \in Update /\ u.row = y /\ u.status = rows[y[1]][y[2]]
    BY <1>2 DEF Update, StatusOf
<1>4. secured => \A f \in history : f.answered => CurrentIn(rows, y, f.seen[y])
    BY <1>2 DEF Agrees, CurrentIn, StatusOf
<1> HIDE DEF u, heard, secured, y
<1>5. PanelTyped'
  <2>1. updates \in Seq(Update)
      BY DEF PanelInv, PanelTyped
  <2>2. updates' \in Seq(Update)
      BY <2>1, <1>1, <1>3, Appended
  <2> QED BY <1>1, <2>2 DEF PanelInv, PanelTyped
<1>6. ASSUME NEW x \in RowIds, x # y, ~Reporting(x)' PROVE ~Reporting(x)
  <2> SUFFICES ASSUME NEW v \in Writers, Committed(x[1], v), Found(x[1], v) = x[2] PROVE Reporting(x)'
      BY <1>6 DEF Reporting
  <2>1. x[1] # k \/ v # w
      BY <1>6, RowIdsOf DEF Found, y
  <2>2. event'[x[1]][v] = event[x[1]][v]
      BY <1>1, <2>1, RowIdsOf DEF TasksInv, TasksTyped
  <2> QED BY <2>2 DEF Reporting, Committed, Found
<1>7. ASSUME NEW x \in RowIds, x \notin untold', ~Reporting(x)' PROVE Settled(x)'
  <2>1. CASE x = y
    <3>1. heard /\ secured /\ updates' = Append(updates, u) /\ updates \in Seq(Update)
        BY <1>1, <1>7, <2>1 DEF PanelInv, PanelTyped
    <3>2. CurrentIn(rows, y, u.status)
        BY <1>2, <1>3 DEF CurrentIn
    <3>3. Len(updates) + 1 \in DOMAIN updates' /\ updates'[Len(updates) + 1] = u
        BY <3>1, <1>3, Appended
    <3>4. \A i \in DOMAIN updates' : updates'[i].row = y /\ LastOf(updates', i) => i = Len(updates) + 1
        BY <3>1, <3>3, <1>3, Appended DEF LastOf
    <3>5. \A i \in DOMAIN updates' :
            updates'[i].row = y /\ LastOf(updates', i) => CurrentIn(rows, y, updates'[i].status)
        BY <3>2, <3>3, <3>4
    <3> QED BY <1>1, <1>3, <1>4, <2>1, <3>1, <3>3, <3>5 DEF Settled
  <2>2. CASE x # y
    <3>1. x \notin untold /\ ~Reporting(x) /\ Settled(x)
        BY <1>1, <1>6, <1>7, <2>2 DEF PanelInv
    <3>2. CASE ~heard
        BY <1>1, <3>1, <3>2 DEF Settled
    <3>3. CASE heard
      <4>1. updates' = Append(updates, u) /\ updates \in Seq(Update)
          BY <1>1, <3>3 DEF PanelInv, PanelTyped
      <4>2. \A i \in DOMAIN updates : i \in DOMAIN updates' /\ updates'[i] = updates[i]
          BY <4>1, <1>3, Appended
      <4>3. \A i \in DOMAIN updates' : updates'[i].row = x => i \in DOMAIN updates /\ updates'[i] = updates[i]
          BY <4>1, <4>2, <1>3, <2>2, Appended
      <4>4. \A i \in DOMAIN updates : LastOf(updates', i) => LastOf(updates, i)
          BY <4>2 DEF LastOf
      <4> QED BY <1>1, <3>1, <4>2, <4>3, <4>4 DEF Settled
    <3> QED BY <3>2, <3>3
  <2> QED BY <2>1, <2>2
<1>8. \A x \in RowIds : Settled(x)'
    BY <1>7 DEF Settled
<1> QED BY <1>5, <1>8 DEF PanelInv

LEMMA PanelInvStep == TasksInv /\ PanelInv /\ [JobsNext]_jobsVars => PanelInv'
<1> SUFFICES ASSUME TasksInv, PanelInv, [JobsNext]_jobsVars PROVE PanelInv'
    OBVIOUS
<1>0. TasksTyped /\ \A j \in Jobs : WritersIdle(j)
    BY DEF TasksInv, JobInv
<1>1. ASSUME NEW f \in history,
             \/ \E s \in Statuses : ServeHistory(f, {s})
             \/ ServeHistory(f, Statuses) \/ ShowHistory(f) \/ HistoryFails(f)
      PROVE  PanelInv'
  <2>1. ASSUME NEW s \in Statuses, ServeHistory(f, {s}) PROVE PanelInv'
    <3>1. {s} \in SUBSET Statuses
        OBVIOUS
    <3> QED BY <1>0, <2>1, <3>1, ServeKeepsPanel
  <2>2. CASE ServeHistory(f, Statuses)
    <3>1. Statuses \in SUBSET Statuses
        OBVIOUS
    <3> QED BY <1>0, <2>2, <3>1, ServeKeepsPanel
  <2> QED BY <1>1, <2>1, <2>2, ShowKeepsPanel, FailKeepsPanel
<1>2. CASE LoadHistory \/ StreamDrops \/ ApplyUpdate
    BY <1>2, LoadKeepsPanel, DropKeepsPanel, ApplyKeepsPanel
<1>3. CASE Subscribe
  <2>1. UNCHANGED <<panel, updates, history, untold>> /\ UNCHANGED taskVars
      BY <1>3 DEF Subscribe
  <2>2. rows' = rows /\ \A x \in RowIds : Reporting(x)' <=> Reporting(x)
      BY <2>1, TasksLeft
  <2> QED BY <2>1, <2>2 DEF PanelInv, PanelTyped, Settled
<1>4. ASSUME NEW j \in Jobs, Queue(j) PROVE PanelInv'
  <2>1. ~Committed(j, "route") /\ "route" \in Writers
      BY <1>0, <1>4 DEF WritersIdle, Queue, Committed, Writers
  <2>2. NewEvent("PENDING") \in Event
      BY Events DEF Statuses
  <2>3. event' = [event EXCEPT ![j]["route"] = NewEvent("PENDING")] /\ UNCHANGED <<rows, panelVars>>
      BY <1>4 DEF Queue
  <2> QED BY <2>1, <2>2, <2>3, EventStep
<1>5. ASSUME NEW j \in Jobs, NEW s \in Statuses, StartTask(j, s) \/ EndTask(j, s) PROVE PanelInv'
  <2>1. ~Committed(j, "worker") /\ "worker" \in Writers
      BY <1>0, <1>5 DEF WritersIdle, StartTask, EndTask, Committed, Writers
  <2>2. NewEvent(s) \in Event
      BY Events
  <2>3. event' = [event EXCEPT ![j]["worker"] = NewEvent(s)] /\ UNCHANGED <<rows, panelVars>>
      BY <1>5 DEF StartTask, EndTask
  <2> QED BY <2>1, <2>2, <2>3, EventStep
<1>6. ASSUME NEW j \in Jobs, Acknowledge(j) PROVE PanelInv'
  <2>1. UNCHANGED <<rows, event, panelVars>>
      BY <1>6 DEF Acknowledge
  <2> QED BY <2>1, TaskStep DEF Reporting, Committed, Found
<1>7. ASSUME NEW j \in Jobs, WorkerLost(j) PROVE PanelInv'
    BY <1>7, LostKeepsPanel
<1>8. ASSUME NEW j \in Jobs, NEW w \in Writers, Look(j, w) \/ EventLost(j, w) PROVE PanelInv'
  <2>1. ~Committed(j, w) /\ event[j][w] \in Event /\ Len(rows[j]) \in 0..2
      BY <1>0, <1>8, Counted, EventFields DEF Look, EventLost, Committed
  <2>2. [event[j][w] EXCEPT !.at = "read", !.found = Len(rows[j])] \in Event
      BY <2>1 DEF Event
  <2>3. /\ UNCHANGED <<rows, panelVars>>
        /\ \/ event' = [event EXCEPT ![j][w] = NoEvent]
           \/ event' = [event EXCEPT ![j][w] =
                          [event[j][w] EXCEPT !.at = "read", !.found = Len(rows[j])]]
      BY <1>8 DEF Look, EventLost, EventDone
  <2>4. CASE event' = [event EXCEPT ![j][w] = NoEvent]
      BY <2>1, <2>3, <2>4, Events, EventStep
  <2>5. CASE event' = [event EXCEPT ![j][w] =
                         [event[j][w] EXCEPT !.at = "read", !.found = Len(rows[j])]]
      BY <2>1, <2>2, <2>3, <2>5, EventStep
  <2> QED BY <2>3, <2>4, <2>5
<1>9. ASSUME NEW j \in Jobs, NEW w \in Writers,
             Record(j, w) \/ PublishRow(j, w, TRUE) \/ PublishRow(j, w, FALSE)
      PROVE  PanelInv'
    BY <1>9, RecordKeepsPanel, PublishKeepsPanel
<1>10. CASE UNCHANGED jobsVars
  <2>1. UNCHANGED <<rows, event, panelVars>>
      BY <1>10 DEF jobsVars, panelVars
  <2> QED BY <2>1, TaskStep DEF Reporting, Committed, Found
<1>11. "STARTED" \in Statuses /\ "RETRY" \in Statuses /\ Outcomes \subseteq Statuses
    BY DEF Statuses
<1>12. ASSUME NEW j \in Jobs,
              \/ Queue(j) \/ StartTask(j, "STARTED") \/ StartTask(j, "RETRY")
              \/ \E s \in Outcomes : EndTask(j, s)
              \/ Acknowledge(j) \/ WorkerLost(j)
              \/ \E w \in Writers :
                   \/ Look(j, w) \/ Record(j, w) \/ EventLost(j, w)
                   \/ PublishRow(j, w, TRUE) \/ PublishRow(j, w, FALSE)
       PROVE  PanelInv'
    BY <1>4, <1>5, <1>6, <1>7, <1>8, <1>9, <1>11, <1>12, Zenon
<1> QED BY <1>1, <1>2, <1>3, <1>10, <1>12 DEF JobsNext

LEMMA PanelInvariant == JobsSpec => []PanelInv
BY TasksInvariant, PanelInvInit, PanelInvStep, PTL DEF JobsSpec

\* Histories and updates come in any order: the panel agrees with every row it
\* shows, unless an update of the row is on its way, or its last change was not
\* published, or did not reach the panel for good (applyJobUpdate, loadHistory).
THEOREM Settles == JobsSpec => []PanelSettles
<1>1. PanelInv => PanelSettles
  <2> SUFFICES ASSUME PanelInv, NEW x \in RowIds, panel[x] # "absent", x \notin untold,
                      ~Waiting(x), \A w \in Writers : event[x[1]][w].at # "committed"
               PROVE  panel[x] = StatusOf(x)
      BY DEF PanelSettles
  <2>1. ~Reporting(x)
      BY DEF Reporting, Committed
  <2>2. CurrentIn(rows, x, panel[x])
      BY <2>1 DEF PanelInv, Settled, Waiting
  <2> QED BY <2>2 DEF CurrentIn, StatusOf
<1> QED BY <1>1, PanelInvariant, PTL

-----------------------------------------------------------------------------
(* Types. *)

\* The history variables name jobs and rows; the stream is up or down.
NotesTyped ==
    /\ stream \in {"closed", "open"}
    /\ lost \subseteq Jobs
    /\ overlapped \subseteq Jobs
    /\ untold \subseteq RowIds

LEMMA NotesTypedStep ==
    ASSUME TasksInv, PanelInv, NotesTyped, [JobsNext]_jobsVars
    PROVE  NotesTyped'
<1> USE DEF NotesTyped
<1>1. CASE LoadHistory \/ Subscribe \/ ApplyUpdate
    BY <1>1 DEF LoadHistory, Subscribe, ApplyUpdate, taskVars
<1>2. CASE \E f \in history :
             \/ \E s \in Statuses : ServeHistory(f, {s})
             \/ ServeHistory(f, Statuses)
             \/ ShowHistory(f) \/ HistoryFails(f)
    BY <1>2 DEF ServeHistory, ShowHistory, HistoryFails, taskVars
<1>3. ASSUME NEW j \in Jobs,
             \/ Queue(j) \/ StartTask(j, "STARTED") \/ StartTask(j, "RETRY")
             \/ \E s \in Outcomes : EndTask(j, s)
             \/ Acknowledge(j)
      PROVE  NotesTyped'
    BY <1>3 DEF Queue, StartTask, EndTask, Acknowledge, panelVars
<1>4. ASSUME NEW j \in Jobs, NEW w \in Writers,
             Look(j, w) \/ Record(j, w) \/ EventLost(j, w)
      PROVE  NotesTyped'
    BY <1>4 DEF Look, Record, EventLost, panelVars
<1>5. ASSUME NEW j \in Jobs, NEW w \in Writers, event[j][w].at = "committed"
      PROVE  <<j, event[j][w].found>> \in RowIds
  <2>1. event[j][w].found \in 1 .. Len(rows[j]) /\ Len(rows[j]) <= 2 /\ Len(rows[j]) \in Nat
      BY <1>5 DEF TasksInv, TasksTyped, JobInv, RowsCounted, Committed, Found
  <2> QED BY <2>1 DEF RowIds
<1>6. ASSUME NEW j \in Jobs, WorkerLost(j) PROVE NotesTyped'
    BY <1>5, <1>6 DEF WorkerLost, Writers
<1>7. ASSUME NEW j \in Jobs, NEW w \in Writers, NEW works \in BOOLEAN, PublishRow(j, w, works)
      PROVE  NotesTyped'
  <2>1. <<j, event[j][w].found>> \in RowIds
      BY <1>5, <1>7 DEF PublishRow
  <2> QED BY <1>7, <2>1 DEF PublishRow
<1>8. CASE StreamDrops
  <2>1. \A i \in DOMAIN updates : updates[i].row \in RowIds
    <3>1. \A u \in Update : u.row \in RowIds
        BY DEF Update
    <3>2. \A i \in DOMAIN updates : updates[i] \in Update
        BY DEF PanelInv, PanelTyped
    <3> QED BY <3>1, <3>2
  <2>2. {updates[i].row : i \in DOMAIN updates} \subseteq RowIds
      BY <2>1
  <2> QED BY <1>8, <2>2 DEF StreamDrops, taskVars
<1>9. CASE UNCHANGED jobsVars
    BY <1>9 DEF jobsVars
<1> QED BY <1>1, <1>2, <1>3, <1>4, <1>6, <1>7, <1>8, <1>9 DEF JobsNext

\* The rows of a job are two at most, whatever is redelivered and retried, and
\* every part of the panel keeps its type.
THEOREM JobsTypes == JobsSpec => []JobsTypeOK
<1>1. JobsInit => NotesTyped
    BY DEF JobsInit, NotesTyped
<1>2. TasksInv /\ PanelInv /\ NotesTyped => JobsTypeOK
    BY DEF TasksInv, TasksTyped, JobInv, RowsCounted, PanelInv, PanelTyped, NotesTyped, JobsTypeOK
<1>3. TasksInv /\ PanelInv /\ NotesTyped /\ [JobsNext]_jobsVars => NotesTyped'
    BY NotesTypedStep
<1>4. JobsSpec => [](TasksInv /\ PanelInv)
    BY TasksInvariant, PanelInvariant, PTL
<1> QED BY <1>1, <1>2, <1>3, <1>4, PTL DEF JobsSpec
=============================================================================
