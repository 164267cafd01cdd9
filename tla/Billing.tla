------------------------------ MODULE Billing ------------------------------
(***************************************************************************)
(* Billing of one organisation and the paywall in front of its data.       *)
(*                                                                         *)
(* Billing handlers (crud/subscription.py) read the subscription rows,     *)
(* write and commit, and then drop the entitlement cache in Redis, as      *)
(* separate steps and without locks.  The paywall (services/paywall.py)    *)
(* answers from the cache or else from the rows, and fills the cache with  *)
(* what it read.  POST /products asks the paywall, counts the products and *)
(* creates one more.                                                       *)
(***************************************************************************)
EXTENDS Subscriptions

CONSTANTS
    Requests,     \* requests that may be served at the same time
    Offered,      \* the operations clients use
    Limit,        \* plans.limits["max_products"] of each plan
    PaidDays,     \* lengths of a paid period
    GraceSteps,   \* lengths of a grace extension
    LastDay,      \* bound on the clock, and on the grace ends that are extended
    MaxRows       \* bound on the subscription rows ever written

Ops == {"trial", "activate", "extend", "cancel", "create", "snapshot"}

ASSUME BillingAssumption ==
    /\ Offered \subseteq Ops
    /\ Limit \in [Plans -> Nat]
    /\ PaidDays \subseteq Nat \ {0}
    /\ GraceSteps \subseteq Nat \ {0}
    /\ LastDay \in Nat
    /\ MaxRows \in Nat

VARIABLES
    today,     \* the clock
    subs,      \* the subscription rows, as committed
    products,  \* number of product rows, as committed
    cache,     \* the entry paywall:ent:<org> of Redis
    pc,        \* where each request is
    txn,       \* what each request has in memory
    raced      \* history: "trial", "extend": two of them have overlapped;
               \* "cache": any two requests have, or an invalidation was lost

vars == <<today, subs, products, cache, pc, txn, raced>>

-----------------------------------------------------------------------------
Points == {"idle", "write", "invalidate", "ask", "read", "store", "count", "create"}

Denied == [phase |-> "none", plan |-> NoPlan]

\* No entry in the cache.
Miss == [phase |-> "miss", plan |-> NoPlan]

Txn == [op : Ops \cup {"none"},
        rows : SUBSET Nat,         \* the rows the handler loaded to change
        row : Row,                 \* the row it will add
        grace : Nat,               \* the grace_end_date it will write
        ent : Entitlements]        \* the paywall's answer

NoRow == PaidRow(CHOOSE plan \in Plans : TRUE, 0, 0)

Blank == [op |-> "none", rows |-> {}, row |-> NoRow, grace |-> 0, ent |-> Denied]

TypeOK ==
    /\ today \in Nat
    /\ subs \in Seq(Row)
    /\ products \in Nat
    /\ cache \in Entitlements \cup {Miss}
    /\ pc \in [Requests -> Points]
    /\ txn \in [Requests -> Txn]
    /\ raced \in SUBSET {"trial", "extend", "cache"}

Init ==
    /\ today = 0
    /\ subs = <<>>
    /\ products = 0
    /\ cache = Miss
    /\ pc = [r \in Requests |-> "idle"]
    /\ txn = [r \in Requests |-> Blank]
    /\ raced = {}

InFlight(r) == pc[r] # "idle"

\* What a request that begins now overlaps.
Overlap(op) ==
    LET others == {txn[q].op : q \in {q \in Requests : InFlight(q)}}
    IN  (others \cap {op} \cap {"trial", "extend"}) \cup {"cache" : other \in others}

Begin(r, request, point) ==
    /\ pc[r] = "idle"
    /\ request.op \in Offered
    /\ txn' = [txn EXCEPT ![r] = request]
    /\ pc' = [pc EXCEPT ![r] = point]
    /\ raced' = raced \cup Overlap(request.op)
    /\ UNCHANGED <<today, subs, products, cache>>

Advance(r, point) == pc' = [pc EXCEPT ![r] = point]

\* The answer is sent; another request may take the place.
Leave(r) ==
    /\ Advance(r, "idle")
    /\ txn' = [txn EXCEPT ![r] = Blank]

-----------------------------------------------------------------------------
(* Billing: what a handler reads, and works out from it and the clock. *)

\* start_plan_trial goes on only without a consumed trial and without access.
BeginTrial(r, plan) ==
    /\ Len(subs) < MaxRows
    /\ ~HasConsumedTrial(subs)
    /\ Entitling(subs, today) = {}
    /\ Begin(r, [Blank EXCEPT !.op = "trial", !.row = TrialRow(plan, today)], "write")

BeginActivate(r, plan, days) ==
    /\ Len(subs) < MaxRows
    /\ Begin(r, [Blank EXCEPT !.op = "activate", !.row = PaidRow(plan, today, days),
                              !.rows = Active(subs)], "write")

BeginExtend(r, days) ==
    /\ Active(subs) # {}
    /\ GraceEnd(subs[Latest(subs)]) <= LastDay
    /\ Begin(r, [Blank EXCEPT
                    !.op = "extend", !.rows = {Latest(subs)},
                    !.grace = ExtendedGrace(GraceEnd(subs[Latest(subs)]), today, days)],
             "write")

\* Without an active row there is nothing to write, but the cache is dropped.
BeginCancel(r) ==
    Begin(r, [Blank EXCEPT !.op = "cancel", !.rows = Active(subs)],
          IF Active(subs) = {} THEN "invalidate" ELSE "write")

-----------------------------------------------------------------------------
(* Billing: what it writes and commits. *)

Writing(r, op) == pc[r] = "write" /\ txn[r].op = op

Commit(r, rows) ==
    /\ subs' = rows
    /\ Advance(r, "invalidate")
    /\ UNCHANGED <<today, products, cache, txn, raced>>

TrialCommit(r) ==
    /\ Writing(r, "trial")
    /\ Commit(r, Append(subs, txn[r].row))

ActivateCommit(r) ==
    /\ Writing(r, "activate")
    /\ Commit(r, Append(Deactivated(subs, txn[r].rows), txn[r].row))

ExtendCommit(r) ==
    /\ Writing(r, "extend")
    /\ Commit(r, Extended(subs, txn[r].rows, txn[r].grace))

CancelCommit(r) ==
    /\ Writing(r, "cancel")
    /\ Commit(r, Deactivated(subs, txn[r].rows))

\* Mutant: only a cancellation drops the cache.
InvalidateOnCancel(r) ==
    /\ pc[r] = "invalidate"
    /\ cache' = IF txn[r].op = "cancel" THEN Miss ELSE cache
    /\ Leave(r)
    /\ UNCHANGED <<today, subs, products, raced>>

\* _invalidate_org
Invalidate(r) ==
    /\ pc[r] = "invalidate"
    /\ cache' = Miss
    /\ Leave(r)
    /\ UNCHANGED <<today, subs, products, raced>>

-----------------------------------------------------------------------------
(* The paywall. *)

BeginCreate(r) == Begin(r, [Blank EXCEPT !.op = "create"], "ask")

\* usage_snapshot resolves from the database whatever the cache says.
BeginSnapshot(r) == Begin(r, [Blank EXCEPT !.op = "snapshot"], "read")

Ask(r) ==
    /\ pc[r] = "ask"
    /\ IF cache # Miss
       THEN txn' = [txn EXCEPT ![r].ent = cache] /\ Advance(r, "count")
       ELSE Advance(r, "read") /\ txn' = txn
    /\ UNCHANGED <<today, subs, products, cache, raced>>

ReadRows(r) ==
    /\ pc[r] = "read"
    /\ txn' = [txn EXCEPT ![r].ent = Resolve(subs, today)]
    /\ Advance(r, "store")
    /\ UNCHANGED <<today, subs, products, cache, raced>>

Store(r) ==
    /\ pc[r] = "store"
    /\ cache' = txn[r].ent
    /\ IF txn[r].op = "create" THEN Advance(r, "count") /\ txn' = txn ELSE Leave(r)
    /\ UNCHANGED <<today, subs, products, raced>>

Grants(ent) == ent.phase \in {"active", "grace"}

\* Mutant: the new product is not counted.
RoomOffByOne(ent) == Grants(ent) /\ products <= Limit[ent.plan]

\* require_writable and check_limit
Room(ent) == Grants(ent) /\ products + 1 <= Limit[ent.plan]

\* The products are counted and compared with the plan's limit: 402, or go on.
Count(r) ==
    /\ pc[r] = "count"
    /\ IF Room(txn[r].ent)
       THEN Advance(r, "create") /\ txn' = [txn EXCEPT ![r].ent = Denied]
       ELSE Leave(r)
    /\ UNCHANGED <<today, subs, products, cache, raced>>

\* The insert, bump_usage, which drops the cache if a row gives access, and the
\* commit.  The cached answer does not depend on the number of products.
Create(r) ==
    /\ pc[r] = "create"
    /\ products' = products + 1
    /\ cache' = IF Entitling(subs, today) # {} THEN Miss ELSE cache
    /\ Leave(r)
    /\ UNCHANGED <<today, subs, raced>>

-----------------------------------------------------------------------------
\* The entry reaches its time to live.
Expire ==
    /\ cache # Miss
    /\ cache' = Miss
    /\ UNCHANGED <<today, subs, products, pc, txn, raced>>

Tick ==
    /\ today < LastDay
    /\ today' = today + 1
    /\ UNCHANGED <<subs, products, cache, pc, txn, raced>>

\* A request dies; Redis may also be out of reach, which _invalidate_org logs
\* and ignores.
Fail(r) ==
    /\ InFlight(r)
    /\ raced' = IF pc[r] = "invalidate" THEN raced \cup {"cache"} ELSE raced
    /\ Leave(r)
    /\ UNCHANGED <<today, subs, products, cache>>

Arrive(r) ==
    \/ \E plan \in Plans :
        \/ BeginTrial(r, plan)
        \/ \E days \in PaidDays : BeginActivate(r, plan, days)
    \/ \E days \in GraceSteps : BeginExtend(r, days)
    \/ BeginCancel(r)
    \/ BeginCreate(r)
    \/ BeginSnapshot(r)

Work(r) ==
    \/ TrialCommit(r)
    \/ ActivateCommit(r)
    \/ ExtendCommit(r)
    \/ CancelCommit(r)
    \/ Invalidate(r)
    \/ Ask(r)
    \/ ReadRows(r)
    \/ Store(r)
    \/ Count(r)
    \/ Create(r)

Next ==
    \/ \E r \in Requests : Arrive(r) \/ Work(r) \/ Fail(r)
    \/ Expire
    \/ Tick

Spec == Init /\ [][Next]_vars

-----------------------------------------------------------------------------
\* A row that was cancelled or replaced never gives access again, also when a
\* grace extension that loaded it earlier commits later (extend_grace_period
\* sets active = True).
InactiveIsFinal ==
    [][\A i \in DOMAIN subs : ~subs[i].active => ~subs'[i].active]_vars

\* An organisation has one trial in its lifetime, through cancellations, paid
\* periods and lapses, unless two requests started it at the same time
\* (start_plan_trial checks and writes without a lock).
OneTrial ==
    \A i, j \in DOMAIN subs : subs[i].trial /\ subs[j].trial /\ i # j => "trial" \in raced

\* An extension never takes away days of grace, unless two of them overlapped:
\* the later one then writes what it computed from the same old date.
GraceNeverShrinks ==
    [][\A i \in DOMAIN subs :
         "extend" \in raced \/ GraceEnd(subs'[i]) >= GraceEnd(subs[i])]_vars

\* What the paywall has cached is what the rows as they are now say, on this or
\* an earlier day, once the last billing request has dropped the cache.  Only
\* overlapping requests and failed invalidations leave another answer.
CacheIsCurrent ==
    /\ "cache" \notin raced
    /\ cache # Miss
    /\ \A r \in Requests : pc[r] # "invalidate"
    => \E day \in 0 .. today : cache = Resolve(subs, day)

\* A product is added only within the limit of a plan that the rows as they are
\* now have granted up to this day, through upgrades, downgrades, lapses and
\* cached answers, unless requests overlapped or an invalidation failed.
CreatedWithinPlan ==
    [][products' > products /\ "cache" \notin raced
         => \E day \in 0 .. today :
               LET ent == Resolve(subs, day)
               IN  Grants(ent) /\ products' <= Limit[ent.plan]]_vars
=============================================================================
