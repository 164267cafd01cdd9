--------------------------- MODULE BillingProofs ---------------------------
(***************************************************************************)
(* Proofs about Subscriptions and Billing.                                 *)
(***************************************************************************)
EXTENDS Billing, WellFoundedInduction, TLAPS

-----------------------------------------------------------------------------
(* The newest of some rows is one of them. *)

LEMMA MaxOfPositions ==
    ASSUME NEW n \in Nat, NEW S \in SUBSET (1 .. n), S # {}
    PROVE  Max(S) \in S
<1> DEFINE D == {n - i : i \in S}
<1>1. D \subseteq Nat /\ D # {}
  <2>1. \A i \in S : n - i \in Nat
      OBVIOUS
  <2>2. PICK i \in S : TRUE
      OBVIOUS
  <2>3. n - i \in D
      OBVIOUS
  <2> QED BY <2>1, <2>3
<1>2. IsWellFoundedOn(OpToRel(<, Nat), Nat)
    BY NatLessThanWellFounded
<1>3. PICK d \in D : \A e \in D : ~(<<e, d>> \in OpToRel(<, Nat))
  <2> HIDE DEF D
  <2> QED BY <1>1, <1>2, WFMin
<1>4. PICK i \in S : d = n - i
    OBVIOUS
<1>5. \A j \in S : i >= j
  <2> TAKE j \in S
  <2>1. <<n - j, d>> \notin OpToRel(<, Nat)
      BY <1>3
  <2>2. n - j \in Nat /\ d \in Nat
      OBVIOUS
  <2>3. ~(n - j < d)
      BY <2>1, <2>2 DEF OpToRel
  <2> QED BY <1>4, <2>3
<1> QED BY <1>4, <1>5 DEF Max

-----------------------------------------------------------------------------
(* The functions of the rows stay within their types. *)

LEMMA GraceEndType ==
    ASSUME NEW row \in Row
    PROVE  GraceEnd(row) \in Nat
BY SubscriptionsAssumption DEF GraceEnd, Row, NoDate

LEMMA PhaseType ==
    ASSUME NEW row \in Row, NEW day \in Nat
    PROVE  Phase(row, day) \in {"active", "grace", "locked", "none"}
BY DEF Phase

LEMMA LatestType ==
    ASSUME NEW rows \in Seq(Row), Active(rows) # {}
    PROVE  Latest(rows) \in DOMAIN rows /\ GraceEnd(rows[Latest(rows)]) \in Nat
<1>1. Active(rows) \in SUBSET (1 .. Len(rows)) /\ Len(rows) \in Nat
    BY DEF Active
<1>2. Max(Active(rows)) \in Active(rows)
    BY <1>1, MaxOfPositions
<1>3. Latest(rows) \in DOMAIN rows
    BY <1>2 DEF Latest, Active
<1>4. rows[Latest(rows)] \in Row
    BY <1>3
<1> QED BY <1>3, <1>4, GraceEndType

LEMMA ResolveType ==
    ASSUME NEW rows \in Seq(Row), NEW day \in Nat
    PROVE  Resolve(rows, day) \in Entitlements
<1>1. CASE Entitling(rows, day) = {}
    BY <1>1 DEF Resolve, Entitlements
<1>2. CASE Entitling(rows, day) # {}
  <2> DEFINE i == Max(Entitling(rows, day))
  <2>1. Entitling(rows, day) \in SUBSET (1 .. Len(rows)) /\ Len(rows) \in Nat
      BY DEF Entitling
  <2>2. i \in Entitling(rows, day)
      BY <1>2, <2>1, MaxOfPositions
  <2>3. i \in DOMAIN rows /\ Phase(rows[i], day) \in {"active", "grace"}
      BY <2>2 DEF Entitling
  <2> HIDE DEF i
  <2>4. rows[i] \in Row
      BY <2>3
  <2>5. rows[i].plan \in Plans
      BY <2>4 DEF Row
  <2>6. [phase |-> Phase(rows[i], day), plan |-> rows[i].plan] \in Entitlements
      BY <2>3, <2>5 DEF Entitlements
  <2> QED BY <1>2, <2>6 DEF Resolve, i
<1> QED BY <1>1, <1>2

LEMMA NewRowType ==
    ASSUME NEW plan \in Plans, NEW day \in Nat, NEW days \in Nat
    PROVE  TrialRow(plan, day) \in Row /\ PaidRow(plan, day, days) \in Row
BY SubscriptionsAssumption DEF TrialRow, PaidRow, Row, NoDate

\* A change of fields leaves a sequence of rows, of the same length.
LEMMA SameRows ==
    ASSUME NEW rows \in Seq(Row), NEW new, new = [i \in DOMAIN rows |-> new[i]],
           \A i \in DOMAIN rows : new[i] \in Row
    PROVE  new \in Seq(Row) /\ DOMAIN new = DOMAIN rows
<1>1. DOMAIN rows = 1 .. Len(rows) /\ Len(rows) \in Nat
    OBVIOUS
<1>2. new \in [1 .. Len(rows) -> Row]
    BY <1>1
<1> QED BY <1>1, <1>2

LEMMA DeactivatedRows ==
    ASSUME NEW rows \in Seq(Row), NEW which
    PROVE  /\ Deactivated(rows, which) \in Seq(Row)
           /\ DOMAIN Deactivated(rows, which) = DOMAIN rows
           /\ \A i \in DOMAIN rows :
                 /\ Deactivated(rows, which)[i].trial = rows[i].trial
                 /\ Deactivated(rows, which)[i].active => rows[i].active
<1> DEFINE new == Deactivated(rows, which)
<1>1. \A i \in DOMAIN rows : rows[i] \in Row
    OBVIOUS
<1>2. new = [i \in DOMAIN rows |-> new[i]] /\ \A i \in DOMAIN rows : new[i] \in Row
    BY <1>1 DEF Deactivated, Row
<1>3. \A i \in DOMAIN rows : /\ new[i].trial = rows[i].trial
                             /\ new[i].active => rows[i].active
    BY <1>1 DEF Deactivated, Row
<1> HIDE DEF new
<1>4. new \in Seq(Row) /\ DOMAIN new = DOMAIN rows
    BY <1>2, SameRows
<1> QED BY <1>3, <1>4 DEF new

LEMMA ExtendedRows ==
    ASSUME NEW rows \in Seq(Row), NEW which, NEW grace \in Nat
    PROVE  /\ Extended(rows, which, grace) \in Seq(Row)
           /\ DOMAIN Extended(rows, which, grace) = DOMAIN rows
           /\ \A i \in DOMAIN rows :
                 /\ Extended(rows, which, grace)[i].trial = rows[i].trial
                 /\ Extended(rows, which, grace)[i].active = rows[i].active
<1> DEFINE new == Extended(rows, which, grace)
<1>1. \A i \in DOMAIN rows : rows[i] \in Row
    OBVIOUS
<1>2. new = [i \in DOMAIN rows |-> new[i]] /\ \A i \in DOMAIN rows : new[i] \in Row
    BY <1>1 DEF Extended, Row
<1>3. \A i \in DOMAIN rows : new[i].trial = rows[i].trial /\ new[i].active = rows[i].active
    BY <1>1 DEF Extended, Row
<1> HIDE DEF new
<1>4. new \in Seq(Row) /\ DOMAIN new = DOMAIN rows
    BY <1>2, SameRows
<1> QED BY <1>3, <1>4 DEF new

LEMMA AppendedRows ==
    ASSUME NEW rows \in Seq(Row), NEW row \in Row
    PROVE  /\ Append(rows, row) \in Seq(Row)
           /\ DOMAIN Append(rows, row) = DOMAIN rows \cup {Len(rows) + 1}
           /\ \A i \in DOMAIN rows : Append(rows, row)[i] = rows[i]
           /\ Append(rows, row)[Len(rows) + 1] = row
<1>1. DOMAIN Append(rows, row) = 1 .. (Len(rows) + 1)
    OBVIOUS
<1>2. DOMAIN rows = 1 .. Len(rows) /\ Len(rows) \in Nat
    OBVIOUS
<1> QED BY <1>1, <1>2

-----------------------------------------------------------------------------
(* Types. *)

LEMMA BlankType == Blank \in Txn
<1>1. NoRow \in Row
    BY SubscriptionsAssumption, NewRowType DEF NoRow
<1>2. Denied \in Entitlements
    BY DEF Denied, Entitlements
<1> QED BY <1>1, <1>2 DEF Blank, Txn

LEMMA LeaveType ==
    ASSUME TypeOK, NEW r \in Requests, Leave(r)
    PROVE  pc' \in [Requests -> Points] /\ txn' \in [Requests -> Txn]
BY BlankType DEF TypeOK, Leave, Advance, Points

LEMMA BeginType ==
    ASSUME TypeOK, NEW r \in Requests, NEW request \in Txn, NEW point \in Points,
           Begin(r, request, point)
    PROVE  TypeOK'
<1>1. Overlap(request.op) \in SUBSET {"trial", "extend", "cache"}
    BY DEF Overlap
<1> QED BY <1>1 DEF TypeOK, Begin

LEMMA CommitType ==
    ASSUME TypeOK, NEW r \in Requests, NEW rows \in Seq(Row), Commit(r, rows)
    PROVE  TypeOK'
BY DEF TypeOK, Commit, Advance, Points

LEMMA ArriveType ==
    ASSUME TypeOK, NEW r \in Requests, Arrive(r)
    PROVE  TypeOK'
<1> USE BlankType
<1>1. ASSUME NEW plan \in Plans, BeginTrial(r, plan) PROVE TypeOK'
  <2>1. TrialRow(plan, today) \in Row
      BY NewRowType DEF TypeOK
  <2> QED BY <1>1, <2>1, BeginType DEF BeginTrial, Blank, Txn, Ops, Points
<1>2. ASSUME NEW plan \in Plans, NEW days \in PaidDays, BeginActivate(r, plan, days)
      PROVE TypeOK'
  <2>1. PaidRow(plan, today, days) \in Row
      BY NewRowType, BillingAssumption DEF TypeOK
  <2>2. Active(subs) \in SUBSET Nat
      BY DEF Active, TypeOK
  <2> QED BY <1>2, <2>1, <2>2, BeginType DEF BeginActivate, Blank, Txn, Ops, Points
<1>3. ASSUME NEW days \in GraceSteps, BeginExtend(r, days) PROVE TypeOK'
  <2>1. subs \in Seq(Row) /\ today \in Nat /\ days \in Nat /\ Active(subs) # {}
      BY <1>3, BillingAssumption DEF TypeOK, BeginExtend
  <2>2. Latest(subs) \in Nat /\ GraceEnd(subs[Latest(subs)]) \in Nat
      BY <2>1, LatestType
  <2>3. ExtendedGrace(GraceEnd(subs[Latest(subs)]), today, days) \in Nat
      BY <2>1, <2>2 DEF ExtendedGrace
  <2> QED BY <1>3, <2>2, <2>3, BeginType DEF BeginExtend, Blank, Txn, Ops, Points
<1>4. CASE BeginCancel(r)
  <2>1. Active(subs) \in SUBSET Nat
      BY DEF Active, TypeOK
  <2> QED BY <1>4, <2>1, BeginType DEF BeginCancel, Blank, Txn, Ops, Points
<1>5. CASE BeginCreate(r)
    BY <1>5, BeginType DEF BeginCreate, Blank, Txn, Ops, Points
<1>6. CASE BeginSnapshot(r)
    BY <1>6, BeginType DEF BeginSnapshot, Blank, Txn, Ops, Points
<1> QED BY <1>1, <1>2, <1>3, <1>4, <1>5, <1>6 DEF Arrive

LEMMA WorkType ==
    ASSUME TypeOK, NEW r \in Requests, Work(r)
    PROVE  TypeOK'
<1>1. txn[r] \in Txn /\ txn[r].row \in Row /\ txn[r].grace \in Nat
      /\ txn[r].ent \in Entitlements /\ subs \in Seq(Row) /\ today \in Nat
    BY DEF TypeOK, Txn
<1>2. CASE TrialCommit(r)
    BY <1>1, <1>2, AppendedRows, CommitType DEF TrialCommit
<1>3. CASE ActivateCommit(r)
  <2>1. Deactivated(subs, txn[r].rows) \in Seq(Row)
      BY <1>1, DeactivatedRows
  <2> QED BY <1>1, <1>3, <2>1, AppendedRows, CommitType DEF ActivateCommit
<1>4. CASE ExtendCommit(r)
    BY <1>1, <1>4, ExtendedRows, CommitType DEF ExtendCommit
<1>5. CASE CancelCommit(r)
    BY <1>1, <1>5, DeactivatedRows, CommitType DEF CancelCommit
<1>6. CASE Invalidate(r)
    BY <1>6, LeaveType DEF Invalidate, TypeOK
<1>7. CASE Ask(r)
  <2>1. cache # Miss => cache \in Entitlements
      BY DEF TypeOK
  <2>2. txn' \in [Requests -> Txn]
    <3>1. \/ txn' = [txn EXCEPT ![r].ent = cache] /\ cache \in Entitlements
          \/ txn' = txn
        BY <1>7, <2>1 DEF Ask
    <3>2. CASE txn' = [txn EXCEPT ![r].ent = cache] /\ cache \in Entitlements
        BY <3>2 DEF TypeOK, Txn
    <3> QED BY <3>1, <3>2 DEF TypeOK
  <2>3. pc' \in [Requests -> Points]
      BY <1>7 DEF Ask, TypeOK, Advance, Points
  <2> QED BY <1>7, <2>2, <2>3 DEF Ask, TypeOK
<1>8. CASE ReadRows(r)
  <2>1. Resolve(subs, today) \in Entitlements
      BY <1>1, ResolveType
  <2>2. txn' \in [Requests -> Txn]
      BY <1>8, <2>1 DEF ReadRows, TypeOK, Txn
  <2> QED BY <1>8, <2>2 DEF ReadRows, TypeOK, Advance, Points
<1>9. CASE Store(r)
    BY <1>1, <1>9, LeaveType DEF Store, TypeOK, Advance, Points
<1>10. CASE Count(r)
  <2>1. [txn EXCEPT ![r].ent = Denied] \in [Requests -> Txn]
      BY ZenonT(30) DEF TypeOK, Txn, Denied, Entitlements
  <2> QED BY <1>10, <2>1, LeaveType DEF Count, TypeOK, Advance, Points
<1>11. CASE Create(r)
    BY <1>11, LeaveType DEF Create, TypeOK
<1> QED BY <1>2, <1>3, <1>4, <1>5, <1>6, <1>7, <1>8, <1>9, <1>10, <1>11,
           Zenon DEF Work

\* Every variable keeps its type: in particular, whatever the rows and the day,
\* the paywall answers with a plan exactly when it gives access, and so does
\* every cached answer.
THEOREM BillingTypes == Spec => []TypeOK
<1>1. Init => TypeOK
  <2> SUFFICES ASSUME Init PROVE TypeOK
      OBVIOUS
  <2>1. subs \in Seq(Row)
      BY DEF Init
  <2> QED BY <2>1, BlankType DEF Init, TypeOK, Points
<1>2. TypeOK /\ [Next]_vars => TypeOK'
  <2> SUFFICES ASSUME TypeOK, [Next]_vars PROVE TypeOK'
      OBVIOUS
  <2>1. ASSUME NEW r \in Requests, Arrive(r) PROVE TypeOK'
      BY <2>1, ArriveType
  <2>2. ASSUME NEW r \in Requests, Work(r) PROVE TypeOK'
      BY <2>2, WorkType
  <2>3. ASSUME NEW r \in Requests, Fail(r) PROVE TypeOK'
      BY <2>3, LeaveType DEF Fail, TypeOK
  <2>4. CASE Expire
      BY <2>4 DEF Expire, TypeOK
  <2>5. CASE Tick
      BY <2>5 DEF Tick, TypeOK
  <2>6. CASE UNCHANGED vars
      BY <2>6 DEF vars, TypeOK
  <2> QED BY <2>1, <2>2, <2>3, <2>4, <2>5, <2>6 DEF Next
<1> QED BY <1>1, <1>2, PTL DEF Spec

-----------------------------------------------------------------------------
(* What a step does to the rows. *)

\* A step adds at most one row, at the end, and changes neither the trial flag of
\* a row nor, except to clear it, its active flag.
RowsStep ==
    /\ subs' \in Seq(Row)
    /\ DOMAIN subs' \subseteq DOMAIN subs \cup {Len(subs) + 1}
    /\ DOMAIN subs \subseteq DOMAIN subs'
    /\ \A i \in DOMAIN subs : /\ subs'[i].trial = subs[i].trial
                              /\ subs'[i].active => subs[i].active

LEMMA SameRowsStep ==
    ASSUME TypeOK, UNCHANGED subs
    PROVE  RowsStep
BY DEF TypeOK, RowsStep

LEMMA CommitRowsStep ==
    ASSUME TypeOK, NEW r \in Requests,
           TrialCommit(r) \/ ActivateCommit(r) \/ ExtendCommit(r) \/ CancelCommit(r)
    PROVE  RowsStep
<1>1. txn[r].row \in Row /\ txn[r].grace \in Nat /\ subs \in Seq(Row)
    BY DEF TypeOK, Txn
<1>2. CASE TrialCommit(r)
  <2>1. subs' = Append(subs, txn[r].row)
      BY <1>2 DEF TrialCommit, Commit
  <2> QED BY <1>1, <2>1, AppendedRows DEF RowsStep
<1>3. CASE ActivateCommit(r)
  <2> DEFINE old == Deactivated(subs, txn[r].rows)
  <2>1. subs' = Append(old, txn[r].row)
      BY <1>3 DEF ActivateCommit, Commit
  <2>2. /\ old \in Seq(Row)
        /\ DOMAIN old = DOMAIN subs
        /\ \A i \in DOMAIN subs : old[i].trial = subs[i].trial /\ (old[i].active => subs[i].active)
      BY <1>1, DeactivatedRows
  <2> HIDE DEF old
  <2>3. Len(old) = Len(subs)
      BY <1>1, <2>2
  <2>4. /\ Append(old, txn[r].row) \in Seq(Row)
        /\ DOMAIN Append(old, txn[r].row) = DOMAIN old \cup {Len(old) + 1}
        /\ \A i \in DOMAIN old : Append(old, txn[r].row)[i] = old[i]
      BY <1>1, <2>2, AppendedRows
  <2> QED BY <2>1, <2>2, <2>3, <2>4 DEF RowsStep
<1>4. CASE ExtendCommit(r)
  <2>1. subs' = Extended(subs, txn[r].rows, txn[r].grace)
      BY <1>4 DEF ExtendCommit, Commit
  <2> QED BY <1>1, <2>1, ExtendedRows DEF RowsStep
<1>5. CASE CancelCommit(r)
  <2>1. subs' = Deactivated(subs, txn[r].rows)
      BY <1>5 DEF CancelCommit, Commit
  <2> QED BY <1>1, <2>1, DeactivatedRows DEF RowsStep
<1> QED BY <1>2, <1>3, <1>4, <1>5

Committing(r) == TrialCommit(r) \/ ActivateCommit(r) \/ ExtendCommit(r) \/ CancelCommit(r)

LEMMA OtherStep ==
    ASSUME [Next]_vars, ~\E r \in Requests : Committing(r)
    PROVE  UNCHANGED subs
<1>1. ASSUME NEW r \in Requests, Arrive(r) PROVE UNCHANGED subs
    BY <1>1 DEF Arrive, BeginTrial, BeginActivate, BeginExtend, BeginCancel, BeginCreate,
                BeginSnapshot, Begin
<1>2. ASSUME NEW r \in Requests, Work(r) PROVE UNCHANGED subs
    BY <1>2 DEF Work, Committing, Invalidate, Ask, ReadRows, Store, Count, Create
<1>3. ASSUME NEW r \in Requests, Fail(r) PROVE UNCHANGED subs
    BY <1>3 DEF Fail
<1>4. Expire \/ Tick \/ UNCHANGED vars => UNCHANGED subs
    BY DEF Expire, Tick, vars
<1> QED BY <1>1, <1>2, <1>3, <1>4 DEF Next

LEMMA EveryRowsStep ==
    ASSUME TypeOK, [Next]_vars
    PROVE  RowsStep
<1>1. CASE \E r \in Requests : Committing(r)
    BY <1>1, CommitRowsStep DEF Committing
<1>2. CASE ~\E r \in Requests : Committing(r)
    BY <1>2, OtherStep, SameRowsStep
<1> QED BY <1>1, <1>2

\* A cancelled or replaced row stays inactive, whatever billing requests loaded
\* it before and commit later (extend_grace_period assigns active = True).
THEOREM InactiveStaysInactive == Spec => InactiveIsFinal
<1>1. TypeOK /\ [Next]_vars => [\A i \in DOMAIN subs : ~subs[i].active => ~subs'[i].active]_vars
  <2> SUFFICES ASSUME TypeOK, [Next]_vars
               PROVE  \A i \in DOMAIN subs : ~subs[i].active => ~subs'[i].active
      OBVIOUS
  <2>1. RowsStep
      BY EveryRowsStep
  <2> QED BY <2>1, Zenon DEF RowsStep
<1> QED BY <1>1, BillingTypes, PTL DEF Spec, InactiveIsFinal

-----------------------------------------------------------------------------
(* One trial. *)

Trials(rows) == {i \in DOMAIN rows : rows[i].trial}

Starting(r) == InFlight(r) /\ txn[r].op = "trial"

\* While no two requests for a trial have overlapped, at most one is under way;
\* as long as it has not committed there is no trial row; only it adds one.
TrialInv ==
    "trial" \notin raced =>
        /\ OneTrial
        /\ \A q, r \in Requests : Starting(q) /\ Starting(r) => q = r
        /\ \A r \in Requests : Writing(r, "trial") => Trials(subs) = {}
        /\ \A r \in Requests : Writing(r, "activate") => ~txn[r].row.trial

LEMMA BeginTrialInv ==
    ASSUME TypeOK, TrialInv, NEW r \in Requests, NEW request \in Txn, NEW point \in Points,
           Begin(r, request, point), point # "idle",
           request.op = "trial" => Trials(subs) = {},
           request.op = "activate" => ~request.row.trial
    PROVE  TrialInv'
<1> SUFFICES ASSUME "trial" \notin raced' PROVE TrialInv'
    BY DEF TrialInv
<1>1. "trial" \notin raced /\ subs' = subs
    BY DEF Begin
<1>2. txn'[r] = request /\ pc'[r] = point
      /\ \A q \in Requests \ {r} : txn'[q] = txn[q] /\ pc'[q] = pc[q]
    BY DEF Begin, TypeOK
<1>3. request.op = "trial" => \A q \in Requests : ~Starting(q)
  <2> SUFFICES ASSUME request.op = "trial", NEW q \in Requests, Starting(q) PROVE FALSE
      OBVIOUS
  <2>1. "trial" \in Overlap(request.op)
      BY DEF Overlap, Starting
  <2> QED BY <2>1 DEF Begin
<1>4. OneTrial'
    BY <1>1 DEF TrialInv, OneTrial
<1>5. \A q, p \in Requests : Starting(q)' /\ Starting(p)' => q = p
    BY <1>1, <1>2, <1>3 DEF TrialInv, Starting, InFlight
<1>6. \A q \in Requests : Writing(q, "trial")' => Trials(subs') = {}
    BY <1>1, <1>2 DEF TrialInv, Writing
<1>7. \A q \in Requests : Writing(q, "activate")' => ~txn'[q].row.trial
    BY <1>1, <1>2 DEF TrialInv, Writing
<1> QED BY <1>4, <1>5, <1>6, <1>7 DEF TrialInv

LEMMA ArriveTrialInv ==
    ASSUME TypeOK, TrialInv, NEW r \in Requests, Arrive(r)
    PROVE  TrialInv'
<1> USE BlankType
<1>1. ASSUME NEW plan \in Plans, BeginTrial(r, plan) PROVE TrialInv'
  <2>1. TrialRow(plan, today) \in Row
      BY NewRowType DEF TypeOK
  <2>2. Trials(subs) = {}
      BY <1>1 DEF BeginTrial, HasConsumedTrial, Trials
  <2> QED BY <1>1, <2>1, <2>2, BeginTrialInv DEF BeginTrial, Blank, Txn, Ops, Points
<1>2. ASSUME NEW plan \in Plans, NEW days \in PaidDays, BeginActivate(r, plan, days)
      PROVE TrialInv'
  <2>1. PaidRow(plan, today, days) \in Row /\ ~PaidRow(plan, today, days).trial
      BY NewRowType, BillingAssumption DEF TypeOK, PaidRow
  <2>2. Active(subs) \in SUBSET Nat
      BY DEF Active, TypeOK
  <2> QED BY <1>2, <2>1, <2>2, BeginTrialInv DEF BeginActivate, Blank, Txn, Ops, Points
<1>3. ASSUME NEW days \in GraceSteps, BeginExtend(r, days) PROVE TrialInv'
  <2>1. subs \in Seq(Row) /\ today \in Nat /\ days \in Nat /\ Active(subs) # {}
      BY <1>3, BillingAssumption DEF TypeOK, BeginExtend
  <2>2. Latest(subs) \in Nat /\ GraceEnd(subs[Latest(subs)]) \in Nat
      BY <2>1, LatestType
  <2>3. ExtendedGrace(GraceEnd(subs[Latest(subs)]), today, days) \in Nat
      BY <2>1, <2>2 DEF ExtendedGrace
  <2> QED BY <1>3, <2>2, <2>3, BeginTrialInv DEF BeginExtend, Blank, Txn, Ops, Points
<1>4. CASE BeginCancel(r)
  <2>1. Active(subs) \in SUBSET Nat
      BY DEF Active, TypeOK
  <2> QED BY <1>4, <2>1, BeginTrialInv DEF BeginCancel, Blank, Txn, Ops, Points
<1>5. CASE BeginCreate(r)
    BY <1>5, BeginTrialInv DEF BeginCreate, Blank, Txn, Ops, Points
<1>6. CASE BeginSnapshot(r)
    BY <1>6, BeginTrialInv DEF BeginSnapshot, Blank, Txn, Ops, Points
<1> QED BY <1>1, <1>2, <1>3, <1>4, <1>5, <1>6 DEF Arrive

\* A step that commits no rows, and after which no more requests are where they
\* were, disturbs nothing.
LEMMA QuietTrialInv ==
    ASSUME TypeOK, TrialInv, UNCHANGED <<subs>>, "trial" \in raced => "trial" \in raced',
           \A q \in Requests :
              \/ pc'[q] = "idle"
              \/ /\ pc'[q] # "write" \/ pc[q] = "write"
                 /\ pc[q] # "idle"
                 /\ txn'[q].op = txn[q].op
                 /\ txn'[q].row = txn[q].row
    PROVE  TrialInv'
<1> SUFFICES ASSUME "trial" \notin raced' PROVE TrialInv'
    BY DEF TrialInv
<1>1. "trial" \notin raced /\ subs' = subs
    OBVIOUS
<1>2. OneTrial'
    BY <1>1 DEF TrialInv, OneTrial
<1>3. \A q, p \in Requests : Starting(q)' /\ Starting(p)' => q = p
    BY <1>1 DEF TrialInv, Starting, InFlight
<1>4. \A q \in Requests : Writing(q, "trial")' => Trials(subs') = {}
    BY <1>1 DEF TrialInv, Writing
<1>5. \A q \in Requests : Writing(q, "activate")' => ~txn'[q].row.trial
    BY <1>1 DEF TrialInv, Writing
<1> QED BY <1>2, <1>3, <1>4, <1>5 DEF TrialInv

\* So does a paywall step: it moves one request on.
LEMMA PaywallQuiet ==
    ASSUME TypeOK, TrialInv, NEW r \in Requests, UNCHANGED <<subs, raced>>,
           pc[r] # "idle", NEW point \in Points \ {"write"}, Advance(r, point),
           NEW ent, txn' = txn \/ txn' = [txn EXCEPT ![r].ent = ent]
    PROVE  TrialInv'
<1>1. \A q \in Requests : txn'[q].op = txn[q].op /\ txn'[q].row = txn[q].row
    BY SMTT(20) DEF TypeOK, Txn
<1>2. pc'[r] = point /\ \A q \in Requests \ {r} : pc'[q] = pc[q]
    BY DEF Advance, TypeOK
<1> QED BY <1>1, <1>2, QuietTrialInv

LEMMA LeaveQuiet ==
    ASSUME TypeOK, NEW r \in Requests, Leave(r)
    PROVE  /\ pc'[r] = "idle"
           /\ \A q \in Requests \ {r} : pc'[q] = pc[q] /\ txn'[q] = txn[q]
BY DEF TypeOK, Leave, Advance

\* A commit: which trial rows there are afterwards.
LEMMA CommitTrials ==
    ASSUME TypeOK, NEW r \in Requests, Committing(r),
           Writing(r, "activate") => ~txn[r].row.trial
    PROVE  /\ ~TrialCommit(r) => Trials(subs') = Trials(subs)
           /\ TrialCommit(r) => Trials(subs') \subseteq Trials(subs) \cup {Len(subs) + 1}
<1>1. RowsStep
    BY CommitRowsStep DEF Committing
<1>2. txn[r].row \in Row /\ txn[r].grace \in Nat /\ subs \in Seq(Row)
    BY DEF TypeOK, Txn
<1>3. Trials(subs') \subseteq Trials(subs) \cup {Len(subs) + 1} /\ Trials(subs) \subseteq Trials(subs')
    BY <1>1 DEF RowsStep, Trials
<1>4. CASE ActivateCommit(r)
  <2> DEFINE old == Deactivated(subs, txn[r].rows)
  <2>1. subs' = Append(old, txn[r].row) /\ ~txn[r].row.trial
      BY <1>4 DEF ActivateCommit, Commit
  <2>2. old \in Seq(Row) /\ DOMAIN old = DOMAIN subs
      BY <1>2, DeactivatedRows
  <2> HIDE DEF old
  <2>3. Len(old) = Len(subs)
      BY <1>2, <2>2
  <2>4. subs'[Len(subs) + 1] = txn[r].row
      BY <1>2, <2>1, <2>2, <2>3, AppendedRows
  <2>5. Len(subs) + 1 \notin Trials(subs')
      BY <2>1, <2>4 DEF Trials
  <2>6. ~TrialCommit(r)
      BY <1>4 DEF TrialCommit, ActivateCommit, Writing
  <2> QED BY <1>3, <2>5, <2>6
<1>5. CASE ExtendCommit(r) \/ CancelCommit(r)
  <2>1. DOMAIN subs' = DOMAIN subs
      BY <1>2, <1>5, ExtendedRows, DeactivatedRows DEF ExtendCommit, CancelCommit, Commit
  <2>2. Trials(subs') = Trials(subs)
      BY <1>3, <2>1, <1>2 DEF Trials
  <2> QED BY <1>3, <2>2
<1> QED BY <1>3, <1>4, <1>5 DEF Committing

LEMMA CommitTrialInv ==
    ASSUME TypeOK, TrialInv, NEW r \in Requests, Committing(r)
    PROVE  TrialInv'
<1> SUFFICES ASSUME "trial" \notin raced' PROVE TrialInv'
    BY DEF TrialInv
<1>1. /\ "trial" \notin raced
      /\ pc[r] = "write" /\ pc'[r] = "invalidate" /\ txn' = txn
      /\ \A q \in Requests \ {r} : pc'[q] = pc[q]
    BY DEF Committing, TrialCommit, ActivateCommit, ExtendCommit, CancelCommit, Commit, Writing,
           Advance, TypeOK
<1>2. Writing(r, "activate") => ~txn[r].row.trial
    BY <1>1 DEF TrialInv
<1>3. \A q, p \in Requests : Starting(q)' /\ Starting(p)' => q = p
    BY <1>1 DEF TrialInv, Starting, InFlight
<1>4. \A q \in Requests : Writing(q, "activate")' => ~txn'[q].row.trial
    BY <1>1 DEF TrialInv, Writing
<1>5. CASE TrialCommit(r)
  <2>1. Trials(subs) = {} /\ Starting(r)
      BY <1>1, <1>5 DEF TrialInv, TrialCommit, Writing, Starting, InFlight
  <2>2. Trials(subs') \subseteq {Len(subs) + 1}
      BY <1>2, <1>5, <2>1, CommitTrials
  <2>3. OneTrial'
      BY <2>2 DEF OneTrial, Trials
  <2>4. \A q \in Requests : ~Writing(q, "trial")'
      BY <1>1, <2>1 DEF TrialInv, Writing, Starting, InFlight
  <2> QED BY <1>3, <1>4, <2>3, <2>4 DEF TrialInv
<1>6. CASE ~TrialCommit(r)
  <2>1. Trials(subs') = Trials(subs)
      BY <1>2, <1>6, CommitTrials
  <2>2. \A i, j \in Trials(subs) : i = j
      BY <1>1 DEF TrialInv, OneTrial, Trials
  <2>3. OneTrial'
      BY <2>1, <2>2 DEF OneTrial, Trials
  <2>4. \A q \in Requests : Writing(q, "trial")' => Trials(subs') = {}
      BY <1>1, <2>1 DEF TrialInv, Writing
  <2> QED BY <1>3, <1>4, <2>3, <2>4 DEF TrialInv
<1> QED BY <1>5, <1>6

\* An organisation whose trial requests never overlap has at most one trial, for
\* ever: through paid plans, cancellations, lapses, failures and restarts.
THEOREM AtMostOneTrial == Spec => []OneTrial
<1>1. Init => TrialInv
    BY DEF Init, TrialInv, OneTrial, Starting, InFlight, Writing
<1>2. TypeOK /\ TrialInv /\ [Next]_vars => TrialInv'
  <2> SUFFICES ASSUME TypeOK, TrialInv, [Next]_vars PROVE TrialInv'
      OBVIOUS
  <2>1. ASSUME NEW r \in Requests, Arrive(r) PROVE TrialInv'
      BY <2>1, ArriveTrialInv
  <2>2. ASSUME NEW r \in Requests, Committing(r) PROVE TrialInv'
      BY <2>2, CommitTrialInv
  <2>3. ASSUME NEW r \in Requests, Invalidate(r) PROVE TrialInv'
    <3>1. UNCHANGED <<subs, raced>> /\ Leave(r)
        BY <2>3 DEF Invalidate
    <3> QED BY <3>1, LeaveQuiet, QuietTrialInv
  <2>4. ASSUME NEW r \in Requests, Ask(r) \/ ReadRows(r) PROVE TrialInv'
    <3>1. CASE Ask(r)
        BY <3>1, PaywallQuiet DEF Ask, Points
    <3>2. CASE ReadRows(r)
        BY <3>2, PaywallQuiet DEF ReadRows, Points
    <3> QED BY <2>4, <3>1, <3>2
  <2>5. ASSUME NEW r \in Requests, Store(r) \/ Count(r) \/ Create(r) PROVE TrialInv'
    <3>1. UNCHANGED <<subs, raced>> /\ pc[r] # "idle"
        BY <2>5 DEF Store, Count, Create
    <3>2. CASE Leave(r)
        BY <3>1, <3>2, LeaveQuiet, QuietTrialInv
    <3>3. CASE Store(r) /\ ~Leave(r)
        BY <3>1, <3>3, PaywallQuiet DEF Store, Points
    <3>4. CASE Count(r) /\ ~Leave(r)
        BY <3>1, <3>4, PaywallQuiet DEF Count, Points
    <3> QED BY <2>5, <3>2, <3>3, <3>4 DEF Create
  <2>6. ASSUME NEW r \in Requests, Fail(r) PROVE TrialInv'
    <3>1. UNCHANGED subs /\ Leave(r) /\ raced \subseteq raced'
        BY <2>6 DEF Fail
    <3> QED BY <3>1, LeaveQuiet, QuietTrialInv
  <2>7. CASE Expire \/ Tick \/ UNCHANGED vars
    <3>1. UNCHANGED <<subs, raced, pc, txn>>
        BY <2>7 DEF Expire, Tick, vars
    <3> QED BY <3>1, QuietTrialInv
  <2> QED BY <2>1, <2>2, <2>3, <2>4, <2>5, <2>6, <2>7 DEF Next, Work, Committing
<1>3. TrialInv => OneTrial
    BY DEF TrialInv, OneTrial
<1> QED BY <1>1, <1>2, <1>3, BillingTypes, PTL DEF Spec

-----------------------------------------------------------------------------
(* One request moves, the others stay where they are. *)

LEMMA BeginFrame ==
    ASSUME TypeOK, NEW r \in Requests, NEW request, NEW point, Begin(r, request, point)
    PROVE  /\ pc[r] = "idle" /\ pc'[r] = point /\ txn'[r] = request
           /\ \A q \in Requests \ {r} : pc'[q] = pc[q] /\ txn'[q] = txn[q]
           /\ UNCHANGED <<today, subs, products, cache>>
           /\ raced' = raced \cup Overlap(request.op)
BY DEF TypeOK, Begin

LEMMA WorkFrame ==
    ASSUME TypeOK, NEW r \in Requests, Work(r) \/ Fail(r)
    PROVE  /\ pc[r] # "idle"
           /\ pc'[r] = "idle" \/ (pc'[r] # "write" /\ txn'[r].op = txn[r].op)
           /\ \A q \in Requests \ {r} : pc'[q] = pc[q] /\ txn'[q] = txn[q]
           /\ raced \subseteq raced'
<1>1. CASE Leave(r)
  <2>1. pc[r] # "idle" /\ raced \subseteq raced'
      BY DEF Work, Fail, InFlight, TrialCommit, ActivateCommit, ExtendCommit, CancelCommit,
             Writing, Commit, Invalidate, Ask, ReadRows, Store, Count, Create
  <2> QED BY <1>1, <2>1, LeaveQuiet
<1>2. CASE ~Leave(r)
  <2>1. ~Fail(r)
      BY <1>2 DEF Fail
  <2>2. CASE Committing(r)
      BY <2>2 DEF Committing, TrialCommit, ActivateCommit, ExtendCommit, CancelCommit, Writing,
                  Commit, Advance, TypeOK
  <2>3. CASE Ask(r) \/ ReadRows(r)
      BY <2>3 DEF Ask, ReadRows, Advance, TypeOK, Txn
  <2>4. CASE Store(r)
      BY <1>2, <2>4 DEF Store, Advance, TypeOK
  <2>5. CASE Count(r)
      BY <1>2, <2>5 DEF Count, Advance, TypeOK, Txn
  <2> QED BY <1>2, <2>1, <2>2, <2>3, <2>4, <2>5 DEF Work, Committing, Invalidate, Create
<1> QED BY <1>1, <1>2

-----------------------------------------------------------------------------
(* Grace. *)

Extending(r) == InFlight(r) /\ txn[r].op = "extend"

\* While no two extensions have overlapped, at most one is under way, and what
\* it will write is no earlier than the grace end of the row as it is now.
GraceInv ==
    "extend" \notin raced =>
        /\ \A q, r \in Requests : Extending(q) /\ Extending(r) => q = r
        /\ \A r \in Requests : Writing(r, "extend") =>
              \A i \in txn[r].rows : i \in DOMAIN subs /\ txn[r].grace >= GraceEnd(subs[i])

LEMMA DeactivatedGrace ==
    ASSUME NEW rows \in Seq(Row), NEW which, NEW i \in DOMAIN rows
    PROVE  GraceEnd(Deactivated(rows, which)[i]) = GraceEnd(rows[i])
<1>1. rows[i] \in Row
    OBVIOUS
<1>2. Deactivated(rows, which)[i] = [rows[i] EXCEPT !.active = @ /\ i \notin which]
    BY DEF Deactivated
<1> QED BY <1>1, <1>2 DEF GraceEnd, Row

LEMMA ExtendedGraceEnd ==
    ASSUME NEW rows \in Seq(Row), NEW which, NEW grace \in Nat, NEW i \in DOMAIN rows
    PROVE  GraceEnd(Extended(rows, which, grace)[i]) =
               IF i \in which THEN grace ELSE GraceEnd(rows[i])
<1>1. rows[i] \in Row
    OBVIOUS
<1>2. Extended(rows, which, grace)[i] =
          IF i \in which THEN [rows[i] EXCEPT !.grace = grace] ELSE rows[i]
    BY DEF Extended
<1> QED BY <1>1, <1>2 DEF GraceEnd, Row, NoDate

\* The commits other than an extension leave the grace of every row alone.
GraceSame == \A i \in DOMAIN subs : i \in DOMAIN subs' /\ GraceEnd(subs'[i]) = GraceEnd(subs[i])

LEMMA OtherCommitGrace ==
    ASSUME TypeOK, NEW r \in Requests, TrialCommit(r) \/ ActivateCommit(r) \/ CancelCommit(r)
    PROVE  GraceSame
<1>1. txn[r].row \in Row /\ subs \in Seq(Row)
    BY DEF TypeOK, Txn
<1>2. CASE TrialCommit(r)
  <2>1. subs' = Append(subs, txn[r].row)
      BY <1>2 DEF TrialCommit, Commit
  <2> QED BY <1>1, <2>1, AppendedRows DEF GraceSame
<1>3. CASE ActivateCommit(r)
  <2> DEFINE old == Deactivated(subs, txn[r].rows)
  <2>1. subs' = Append(old, txn[r].row)
      BY <1>3 DEF ActivateCommit, Commit
  <2>2. /\ old \in Seq(Row)
        /\ DOMAIN old = DOMAIN subs
        /\ \A i \in DOMAIN subs : GraceEnd(old[i]) = GraceEnd(subs[i])
      BY <1>1, DeactivatedRows, DeactivatedGrace
  <2> HIDE DEF old
  <2> QED BY <1>1, <2>1, <2>2, AppendedRows DEF GraceSame
<1>4. CASE CancelCommit(r)
  <2>1. subs' = Deactivated(subs, txn[r].rows)
      BY <1>4 DEF CancelCommit, Commit
  <2> QED BY <1>1, <2>1, DeactivatedRows, DeactivatedGrace DEF GraceSame
<1> QED BY <1>2, <1>3, <1>4

LEMMA ExtendCommitGrace ==
    ASSUME TypeOK, GraceInv, "extend" \notin raced, NEW r \in Requests, ExtendCommit(r),
           NEW i \in DOMAIN subs
    PROVE  GraceEnd(subs'[i]) >= GraceEnd(subs[i])
<1>1. subs \in Seq(Row) /\ txn[r].grace \in Nat /\ Writing(r, "extend")
    BY DEF TypeOK, Txn, ExtendCommit
<1>2. subs'[i] = Extended(subs, txn[r].rows, txn[r].grace)[i]
    BY DEF ExtendCommit, Commit
<1>3. GraceEnd(subs[i]) \in Nat
    BY <1>1, GraceEndType
<1>4. i \in txn[r].rows => txn[r].grace >= GraceEnd(subs[i])
    BY <1>1 DEF GraceInv
<1> QED BY <1>1, <1>2, <1>3, <1>4, ExtendedGraceEnd

\* A step after which no more extensions are under way, and which leaves what
\* the one about to commit has in memory.
LEMMA GraceKept ==
    ASSUME GraceInv, raced \subseteq raced', GraceSame,
           \A q \in Requests : Extending(q)' => Extending(q),
           \A q \in Requests : Writing(q, "extend")' =>
               Writing(q, "extend") /\ txn'[q] = txn[q]
    PROVE  GraceInv'
<1> SUFFICES ASSUME "extend" \notin raced' PROVE GraceInv'
    BY DEF GraceInv
<1>1. /\ \A q, r \in Requests : Extending(q) /\ Extending(r) => q = r
      /\ \A r \in Requests : Writing(r, "extend") =>
            \A i \in txn[r].rows : i \in DOMAIN subs /\ txn[r].grace >= GraceEnd(subs[i])
    BY DEF GraceInv
<1>2. \A r \in Requests : Writing(r, "extend")' =>
          \A i \in txn'[r].rows : i \in DOMAIN subs' /\ txn'[r].grace >= GraceEnd(subs'[i])
    BY <1>1 DEF GraceSame
<1> QED BY <1>1, <1>2 DEF GraceInv

LEMMA BeginGraceInv ==
    ASSUME TypeOK, GraceInv, NEW r \in Requests, NEW request, NEW point,
           Begin(r, request, point),
           request.op = "extend" =>
              \A i \in request.rows : i \in DOMAIN subs /\ request.grace >= GraceEnd(subs[i])
    PROVE  GraceInv'
<1>1. /\ pc[r] = "idle" /\ txn'[r] = request /\ subs' = subs
      /\ \A q \in Requests \ {r} : pc'[q] = pc[q] /\ txn'[q] = txn[q]
      /\ raced' = raced \cup Overlap(request.op)
    BY BeginFrame
<1>2. CASE request.op = "extend"
  <2> SUFFICES ASSUME "extend" \notin raced' PROVE GraceInv'
      BY DEF GraceInv
  <2>1. \A q \in Requests : ~Extending(q)
      BY <1>1, <1>2 DEF Overlap, Extending
  <2>2. \A q \in Requests : Extending(q)' => q = r
      BY <1>1, <2>1 DEF Extending, InFlight
  <2>3. \A q \in Requests : Writing(q, "extend")' => q = r
      BY <2>2 DEF Extending, InFlight, Writing
  <2> QED BY <1>1, <1>2, <2>2, <2>3 DEF GraceInv
<1>3. CASE request.op # "extend"
  <2>1. ASSUME NEW q \in Requests, Extending(q)' \/ Writing(q, "extend")' PROVE q # r
      BY <1>1, <1>3, <2>1 DEF Extending, Writing
  <2> QED BY <1>1, <2>1, GraceKept DEF Extending, InFlight, Writing, GraceSame
<1> QED BY <1>2, <1>3

LEMMA ArriveGraceInv ==
    ASSUME TypeOK, GraceInv, NEW r \in Requests, Arrive(r)
    PROVE  GraceInv'
<1>1. ASSUME NEW days \in GraceSteps, BeginExtend(r, days) PROVE GraceInv'
  <2> DEFINE i == Latest(subs)
             grace == ExtendedGrace(GraceEnd(subs[i]), today, days)
             request == [Blank EXCEPT !.op = "extend", !.rows = {i}, !.grace = grace]
  <2>1. subs \in Seq(Row) /\ today \in Nat /\ days \in Nat /\ Active(subs) # {}
      BY <1>1, BillingAssumption DEF TypeOK, BeginExtend
  <2>2. i \in DOMAIN subs /\ GraceEnd(subs[i]) \in Nat
      BY <2>1, LatestType
  <2>3. grace >= GraceEnd(subs[i])
      BY <2>1, <2>2 DEF ExtendedGrace
  <2>4. Begin(r, request, "write")
      BY <1>1 DEF BeginExtend
  <2>5. request.rows = {i} /\ request.grace = grace
      BY DEF Blank
  <2> HIDE DEF request, grace, i
  <2> QED BY <2>2, <2>3, <2>4, <2>5, BeginGraceInv
<1>2. ASSUME NEW plan \in Plans, BeginTrial(r, plan) PROVE GraceInv'
    BY <1>2, BeginGraceInv DEF BeginTrial, Blank
<1>3. ASSUME NEW plan \in Plans, NEW days \in PaidDays, BeginActivate(r, plan, days)
      PROVE GraceInv'
    BY <1>3, BeginGraceInv DEF BeginActivate, Blank
<1>4. CASE BeginCancel(r)
    BY <1>4, BeginGraceInv DEF BeginCancel, Blank
<1>5. CASE BeginCreate(r) \/ BeginSnapshot(r)
    BY <1>5, BeginGraceInv DEF BeginCreate, BeginSnapshot, Blank
<1> QED BY <1>1, <1>2, <1>3, <1>4, <1>5 DEF Arrive

LEMMA GraceStep ==
    ASSUME TypeOK, GraceInv, [Next]_vars
    PROVE  GraceInv'
<1>1. ASSUME NEW r \in Requests, Arrive(r) PROVE GraceInv'
    BY <1>1, ArriveGraceInv
<1>2. ASSUME NEW r \in Requests, Work(r) \/ Fail(r) PROVE GraceInv'
  <2>1. /\ pc[r] # "idle"
        /\ pc'[r] = "idle" \/ (pc'[r] # "write" /\ txn'[r].op = txn[r].op)
        /\ \A q \in Requests \ {r} : pc'[q] = pc[q] /\ txn'[q] = txn[q]
        /\ raced \subseteq raced'
      BY <1>2, WorkFrame
  <2>2. \A q \in Requests : Extending(q)' => Extending(q)
      BY <2>1 DEF Extending, InFlight
  <2>3. \A q \in Requests : Writing(q, "extend")' =>
            q # r /\ Writing(q, "extend") /\ txn'[q] = txn[q]
      BY <2>1 DEF Writing
  <2>4. CASE ExtendCommit(r)
    <3> SUFFICES ASSUME "extend" \notin raced' PROVE GraceInv'
        BY DEF GraceInv
    <3>1. \A q, p \in Requests : Extending(q) /\ Extending(p) => q = p
        BY <2>1 DEF GraceInv
    <3>2. Extending(r)
        BY <2>4 DEF ExtendCommit, Writing, Extending, InFlight
    <3>3. \A q \in Requests : ~Writing(q, "extend")'
        BY <2>3, <3>1, <3>2 DEF Writing, Extending, InFlight
    <3> QED BY <2>2, <3>1, <3>3 DEF GraceInv
  <2>5. CASE ~ExtendCommit(r)
    <3>1. GraceSame
      <4>1. CASE TrialCommit(r) \/ ActivateCommit(r) \/ CancelCommit(r)
          BY <4>1, OtherCommitGrace
      <4>2. CASE ~(TrialCommit(r) \/ ActivateCommit(r) \/ CancelCommit(r))
        <5>1. subs' = subs
            BY <1>2, <2>5, <4>2 DEF Work, Fail, Invalidate, Ask, ReadRows, Store, Count, Create
        <5> QED BY <5>1 DEF GraceSame
      <4> QED BY <4>1, <4>2
    <3> QED BY <2>1, <2>2, <2>3, <3>1, GraceKept
  <2> QED BY <2>4, <2>5
<1>3. CASE Expire \/ Tick \/ UNCHANGED vars
  <2>1. UNCHANGED <<subs, raced, pc, txn>>
      BY <1>3 DEF Expire, Tick, vars
  <2> QED BY <2>1, GraceKept DEF GraceSame, Extending, InFlight, Writing
<1> QED BY <1>1, <1>2, <1>3 DEF Next

\* An organisation never loses days of grace it had been given, through plan
\* changes, cancellations and extensions, unless two extensions overlapped.
THEOREM GraceIsKept == Spec => GraceNeverShrinks
<1>1. Init => GraceInv
    BY DEF Init, GraceInv, Extending, InFlight, Writing
<1>2. TypeOK /\ GraceInv /\ [Next]_vars => GraceInv'
    BY GraceStep
<1>3. TypeOK /\ GraceInv /\ [Next]_vars =>
          [\A i \in DOMAIN subs :
              "extend" \in raced \/ GraceEnd(subs'[i]) >= GraceEnd(subs[i])]_vars
  <2> SUFFICES ASSUME TypeOK, GraceInv, [Next]_vars, NEW i \in DOMAIN subs, "extend" \notin raced
               PROVE  GraceEnd(subs'[i]) >= GraceEnd(subs[i])
      OBVIOUS
  <2>1. CASE \E r \in Requests : ExtendCommit(r)
      BY <2>1, ExtendCommitGrace
  <2>2. CASE ~\E r \in Requests : ExtendCommit(r)
    <3>1. GraceSame
      <4>1. CASE \E r \in Requests : Committing(r)
          BY <2>2, <4>1, OtherCommitGrace DEF Committing
      <4>2. CASE ~\E r \in Requests : Committing(r)
          BY <4>2, OtherStep DEF GraceSame
      <4> QED BY <4>1, <4>2
    <3>2. subs[i] \in Row
        BY DEF TypeOK
    <3> QED BY <3>1, <3>2, GraceEndType DEF GraceSame
  <2> QED BY <2>1, <2>2
<1> QED BY <1>1, <1>2, <1>3, BillingTypes, PTL DEF Spec, GraceNeverShrinks

-----------------------------------------------------------------------------
(* The cache of the paywall. *)

\* The answer is what the rows say on this or an earlier day.
Known(ent, rows, last) == \E day \in 0 .. last : ent = Resolve(rows, day)

\* On this or an earlier day the rows grant a plan with room for one product more.
RoomKnown(count, rows, last) ==
    \E day \in 0 .. last :
        Grants(Resolve(rows, day)) /\ count + 1 <= Limit[Resolve(rows, day).plan]

CacheKnown == cache = Miss \/ Known(cache, subs, today)

\* While no requests have overlapped and no invalidation was lost: one request
\* at most is under way; unless it has yet to drop the cache, the cache knows the
\* rows as they are; and so does the answer it was given, up to the insert.
CacheInv ==
    "cache" \notin raced =>
        /\ \A q, r \in Requests : InFlight(q) /\ InFlight(r) => q = r
        /\ (\A r \in Requests : pc[r] # "invalidate") => CacheKnown
        /\ \A r \in Requests : pc[r] \in {"store", "count"} => Known(txn[r].ent, subs, today)
        /\ \A r \in Requests : pc[r] = "create" => RoomKnown(products, subs, today)

LEMMA KnownLater ==
    ASSUME NEW rows, NEW day \in Nat, NEW later \in Nat, day <= later
    PROVE  /\ \A ent : Known(ent, rows, day) => Known(ent, rows, later)
           /\ \A count : RoomKnown(count, rows, day) => RoomKnown(count, rows, later)
<1>1. \A d \in 0 .. day : d \in 0 .. later
    OBVIOUS
<1> QED BY <1>1 DEF Known, RoomKnown

\* What the request that is alone can rely on.
LEMMA CacheAlone ==
    ASSUME CacheInv, "cache" \notin raced, NEW r \in Requests, pc[r] # "idle"
    PROVE  /\ \A q \in Requests \ {r} : pc[q] = "idle"
           /\ pc[r] # "invalidate" => CacheKnown
           /\ pc[r] \in {"store", "count"} => Known(txn[r].ent, subs, today)
           /\ pc[r] = "create" => RoomKnown(products, subs, today)
<1>1. \A q \in Requests \ {r} : pc[q] = "idle"
    BY DEF CacheInv, InFlight
<1>2. pc[r] # "invalidate" => \A q \in Requests : pc[q] # "invalidate"
    BY <1>1
<1> QED BY <1>1, <1>2 DEF CacheInv

\* A step of the request that is alone.
LEMMA CacheMove ==
    ASSUME TypeOK, CacheInv, NEW r \in Requests, Work(r) \/ Fail(r),
           "cache" \notin raced /\ "cache" \notin raced' =>
              /\ pc'[r] # "invalidate" => CacheKnown'
              /\ pc'[r] \in {"store", "count"} => Known(txn'[r].ent, subs', today')
              /\ pc'[r] = "create" => RoomKnown(products', subs', today')
    PROVE  CacheInv'
<1> SUFFICES ASSUME "cache" \notin raced' PROVE CacheInv'
    BY DEF CacheInv
<1>1. /\ pc[r] # "idle" /\ "cache" \notin raced
      /\ \A q \in Requests \ {r} : pc'[q] = pc[q]
    BY WorkFrame
<1>2. \A q \in Requests \ {r} : pc'[q] = "idle"
    BY <1>1, CacheAlone
<1>3. \A p, q \in Requests : InFlight(p)' /\ InFlight(q)' => p = q
    BY <1>2 DEF InFlight
<1>4. (\A q \in Requests : pc'[q] # "invalidate") => CacheKnown'
    BY <1>1
<1>5. \A q \in Requests : pc'[q] \in {"store", "count"} => Known(txn'[q].ent, subs', today')
    BY <1>1, <1>2
<1>6. \A q \in Requests : pc'[q] = "create" => RoomKnown(products', subs', today')
    BY <1>1, <1>2
<1> QED BY <1>3, <1>4, <1>5, <1>6 DEF CacheInv

LEMMA BeginCacheInv ==
    ASSUME TypeOK, CacheInv, NEW r \in Requests, NEW request, NEW point,
           Begin(r, request, point), point \notin {"store", "count", "create"}
    PROVE  CacheInv'
<1> SUFFICES ASSUME "cache" \notin raced' PROVE CacheInv'
    BY DEF CacheInv
<1>1. /\ pc[r] = "idle" /\ pc'[r] = point
      /\ \A q \in Requests \ {r} : pc'[q] = pc[q] /\ txn'[q] = txn[q]
      /\ UNCHANGED <<today, subs, products, cache>>
      /\ raced' = raced \cup Overlap(request.op)
    BY BeginFrame
<1>2. \A q \in Requests : ~InFlight(q)
  <2> SUFFICES ASSUME NEW q \in Requests, InFlight(q) PROVE FALSE
      OBVIOUS
  <2>1. "cache" \in Overlap(request.op)
      BY DEF Overlap
  <2> QED BY <1>1, <2>1
<1>3. \A q \in Requests : pc[q] # "invalidate"
    BY <1>2 DEF InFlight
<1>4. CacheKnown'
    BY <1>1, <1>3 DEF CacheInv, CacheKnown
<1>5. \A q \in Requests \ {r} : pc'[q] = "idle"
    BY <1>1, <1>2 DEF InFlight
<1> QED BY <1>1, <1>4, <1>5 DEF CacheInv, InFlight

LEMMA ArriveCacheInv ==
    ASSUME TypeOK, CacheInv, NEW r \in Requests, Arrive(r)
    PROVE  CacheInv'
<1>1. ASSUME NEW plan \in Plans, BeginTrial(r, plan) PROVE CacheInv'
    BY <1>1, BeginCacheInv DEF BeginTrial
<1>2. ASSUME NEW plan \in Plans, NEW days \in PaidDays, BeginActivate(r, plan, days)
      PROVE CacheInv'
    BY <1>2, BeginCacheInv DEF BeginActivate
<1>3. ASSUME NEW days \in GraceSteps, BeginExtend(r, days) PROVE CacheInv'
    BY <1>3, BeginCacheInv DEF BeginExtend
<1>4. CASE BeginCancel(r) \/ BeginCreate(r) \/ BeginSnapshot(r)
    BY <1>4, BeginCacheInv DEF BeginCancel, BeginCreate, BeginSnapshot
<1> QED BY <1>1, <1>2, <1>3, <1>4 DEF Arrive

\* Each step of the paywall hands on what is known.
LEMMA PaywallCacheInv ==
    ASSUME TypeOK, CacheInv, NEW r \in Requests,
           Ask(r) \/ ReadRows(r) \/ Store(r) \/ Count(r) \/ Create(r)
    PROVE  CacheInv'
<1>1. Work(r)
    BY DEF Work
<1>2. /\ subs' = subs /\ today' = today /\ raced' = raced /\ today \in Nat
      /\ txn[r] \in Txn /\ pc[r] # "idle"
    BY DEF Ask, ReadRows, Store, Count, Create, TypeOK
<1> SUFFICES ASSUME "cache" \notin raced
             PROVE  /\ pc'[r] # "invalidate" => CacheKnown'
                    /\ pc'[r] \in {"store", "count"} => Known(txn'[r].ent, subs', today')
                    /\ pc'[r] = "create" => RoomKnown(products', subs', today')
    BY <1>1, CacheMove
<1>3. CASE Ask(r)
  <2>1. pc[r] = "ask" /\ cache' = cache /\ CacheKnown
      BY <1>2, <1>3, CacheAlone DEF Ask
  <2>2. CASE cache # Miss
    <3>1. pc'[r] = "count" /\ txn'[r].ent = cache
        BY <1>2, <1>3, <2>2 DEF Ask, Advance, TypeOK, Txn
    <3> QED BY <1>2, <2>1, <2>2, <3>1 DEF CacheKnown
  <2>3. CASE cache = Miss
    <3>1. pc'[r] = "read"
        BY <1>3, <2>3 DEF Ask, Advance, TypeOK
    <3> QED BY <1>2, <2>1, <3>1 DEF CacheKnown
  <2> QED BY <2>2, <2>3
<1>4. CASE ReadRows(r)
  <2>1. /\ pc[r] = "read" /\ cache' = cache /\ pc'[r] = "store"
        /\ txn'[r].ent = Resolve(subs, today)
      BY <1>2, <1>4 DEF ReadRows, Advance, TypeOK, Txn
  <2>2. CacheKnown
      BY <1>2, <2>1, CacheAlone
  <2>3. Known(txn'[r].ent, subs, today)
      BY <1>2, <2>1 DEF Known
  <2> QED BY <1>2, <2>1, <2>2, <2>3 DEF CacheKnown
<1>5. CASE Store(r)
  <2>1. pc[r] = "store" /\ cache' = txn[r].ent /\ Known(txn[r].ent, subs, today)
      BY <1>2, <1>5, CacheAlone DEF Store
  <2>2. pc'[r] = "idle" \/ (pc'[r] = "count" /\ txn' = txn)
      BY <1>5 DEF Store, Leave, Advance, TypeOK
  <2> QED BY <1>2, <2>1, <2>2 DEF CacheKnown
<1>6. CASE Count(r)
  <2>1. /\ pc[r] = "count" /\ cache' = cache /\ products' = products
        /\ CacheKnown /\ Known(txn[r].ent, subs, today)
      BY <1>2, <1>6, CacheAlone DEF Count
  <2>2. pc'[r] = "idle" \/ (pc'[r] = "create" /\ Room(txn[r].ent))
      BY <1>6 DEF Count, Leave, Advance, TypeOK
  <2>3. Room(txn[r].ent) => RoomKnown(products, subs, today)
      BY <2>1 DEF Known, RoomKnown, Room
  <2> QED BY <1>2, <2>1, <2>2, <2>3 DEF CacheKnown
<1>7. CASE Create(r)
  <2>1. pc[r] = "create" /\ CacheKnown /\ (cache' = Miss \/ cache' = cache)
      BY <1>2, <1>7, CacheAlone DEF Create
  <2>2. pc'[r] = "idle"
      BY <1>7, LeaveQuiet DEF Create
  <2> QED BY <1>2, <2>1, <2>2 DEF CacheKnown
<1> QED BY <1>3, <1>4, <1>5, <1>6, <1>7

\* A commit has yet to drop the cache; a request that fails after it loses it.
LEMMA BillingCacheInv ==
    ASSUME TypeOK, CacheInv, NEW r \in Requests, Committing(r) \/ Invalidate(r) \/ Fail(r)
    PROVE  CacheInv'
<1>1. CASE Committing(r)
  <2>1. Work(r) /\ pc'[r] = "invalidate"
      BY <1>1 DEF Committing, Work, TrialCommit, ActivateCommit, ExtendCommit, CancelCommit,
                  Commit, Advance, TypeOK
  <2> QED BY <2>1, CacheMove
<1>2. CASE Invalidate(r)
  <2>1. Work(r) /\ pc'[r] = "idle" /\ cache' = Miss
      BY <1>2, LeaveQuiet DEF Work, Invalidate
  <2> QED BY <2>1, CacheMove DEF CacheKnown
<1>3. CASE Fail(r)
  <2>1. /\ pc'[r] = "idle" /\ pc[r] # "idle" /\ UNCHANGED <<subs, today, cache>>
        /\ pc[r] = "invalidate" => "cache" \in raced'
      BY <1>3, LeaveQuiet DEF Fail, InFlight
  <2>2. "cache" \notin raced /\ "cache" \notin raced' => CacheKnown'
      BY <2>1, CacheAlone DEF CacheKnown
  <2> QED BY <1>3, <2>1, <2>2, CacheMove
<1> QED BY <1>1, <1>2, <1>3

LEMMA CacheStep ==
    ASSUME TypeOK, CacheInv, [Next]_vars
    PROVE  CacheInv'
<1>1. ASSUME NEW r \in Requests, Arrive(r) PROVE CacheInv'
    BY <1>1, ArriveCacheInv
<1>2. ASSUME NEW r \in Requests, Work(r) \/ Fail(r) PROVE CacheInv'
    BY <1>2, PaywallCacheInv, BillingCacheInv DEF Work, Committing
<1>3. CASE Expire \/ Tick \/ UNCHANGED vars
  <2>1. /\ UNCHANGED <<subs, products, pc, txn, raced>>
        /\ cache' = Miss \/ cache' = cache
        /\ today \in Nat /\ today' \in Nat /\ today <= today'
      BY <1>3 DEF Expire, Tick, vars, TypeOK
  <2>2. /\ \A ent : Known(ent, subs, today) => Known(ent, subs, today')
        /\ \A count : RoomKnown(count, subs, today) => RoomKnown(count, subs, today')
      BY <2>1, KnownLater
  <2>3. CacheKnown => CacheKnown'
      BY <2>1, <2>2 DEF CacheKnown
  <2> QED BY <2>1, <2>2, <2>3 DEF CacheInv, InFlight
<1> QED BY <1>1, <1>2, <1>3 DEF Next

LEMMA CacheAlways == Spec => [](TypeOK /\ CacheInv)
<1>1. Init => CacheInv
    BY DEF Init, CacheInv, CacheKnown, InFlight
<1>2. TypeOK /\ CacheInv /\ [Next]_vars => CacheInv'
    BY CacheStep
<1> QED BY <1>1, <1>2, BillingTypes, PTL DEF Spec

\* When nothing is about to drop it, the cache answers as the rows do on this or
\* an earlier day, however many plans were bought, extended and cancelled, unless
\* requests overlapped or an invalidation was lost.
THEOREM CacheKnowsTheRows == Spec => []CacheIsCurrent
<1>1. TypeOK /\ CacheInv => CacheIsCurrent
    BY DEF CacheInv, CacheKnown, Known, CacheIsCurrent
<1> QED BY <1>1, CacheAlways, PTL

LEMMA CreatedStep ==
    ASSUME TypeOK, CacheInv, [Next]_vars, products' > products, "cache" \notin raced
    PROVE  \E day \in 0 .. today :
              LET ent == Resolve(subs, day)
              IN  Grants(ent) /\ products' <= Limit[ent.plan]
<1>1. products \in Nat
    BY DEF TypeOK
<1>2. products' # products
    BY <1>1
<1>3. PICK r \in Requests : Create(r)
  <2>1. ASSUME NEW r \in Requests, Arrive(r) PROVE FALSE
      BY <1>2, <2>1 DEF Arrive, BeginTrial, BeginActivate, BeginExtend, BeginCancel,
                        BeginCreate, BeginSnapshot, Begin
  <2>2. ASSUME NEW r \in Requests, Work(r) PROVE Create(r)
      BY <1>2, <2>2 DEF Work, TrialCommit, ActivateCommit, ExtendCommit, CancelCommit, Commit,
                        Invalidate, Ask, ReadRows, Store, Count
  <2>3. (\E r \in Requests : Fail(r)) \/ Expire \/ Tick \/ UNCHANGED vars => FALSE
      BY <1>2 DEF Fail, Expire, Tick, vars
  <2> QED BY <2>1, <2>2, <2>3 DEF Next
<1>4. pc[r] = "create" /\ products' = products + 1
    BY <1>3 DEF Create
<1>5. RoomKnown(products, subs, today)
    BY <1>4, CacheAlone
<1> QED BY <1>4, <1>5 DEF RoomKnown

\* No product is added beyond the limit of a plan that the rows grant or granted,
\* also when the answer came out of the cache, unless requests overlapped or an
\* invalidation was lost.
THEOREM CreatedWithinLimit == Spec => CreatedWithinPlan
<1>1. TypeOK /\ CacheInv /\ [Next]_vars =>
          [products' > products /\ "cache" \notin raced
              => \E day \in 0 .. today :
                    LET ent == Resolve(subs, day)
                    IN  Grants(ent) /\ products' <= Limit[ent.plan]]_vars
    BY CreatedStep
<1> QED BY <1>1, CacheAlways, PTL DEF Spec, CreatedWithinPlan
=============================================================================
