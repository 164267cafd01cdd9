--------------------------- MODULE Subscriptions ---------------------------
(***************************************************************************)
(* The subscription rows of one organisation and what they entitle it to   *)
(* (crud/subscription.py, services/paywall.py): pure functions of the rows *)
(* and the day.                                                            *)
(*                                                                         *)
(* Rows are kept in the order in which they were committed, the newest     *)
(* last; it is the order of their start_date, which a request sets just    *)
(* before its commit.                                                      *)
(***************************************************************************)
EXTENDS Integers, Sequences, FiniteSetsExt

CONSTANTS
    Plans,        \* active rows of table plans
    NoPlan,       \* what an organisation without access is on
    TrialDays,    \* TRIAL_DAYS, or the plan's trial_days
    GraceDays     \* GRACE_DAYS

ASSUME SubscriptionsAssumption ==
    /\ Plans # {} /\ NoPlan \notin Plans
    /\ TrialDays \in Nat \ {0}
    /\ GraceDays \in Nat \ {0}

\* grace_end_date IS NULL
NoDate == -1

Row == [active : BOOLEAN, trial : BOOLEAN, plan : Plans, end : Nat,
        grace : Nat \cup {NoDate}]

\* class Entitlements: no plan, so no limits and features, without access.
Entitlements == [phase : {"active", "grace"}, plan : Plans]
                \cup [phase : {"locked", "none"}, plan : {NoPlan}]

-----------------------------------------------------------------------------
\* _grace_end_for: trials get a default window after their end.
GraceEnd(row) ==
    IF row.grace # NoDate THEN row.grace
    ELSE IF row.trial THEN row.end + GraceDays
    ELSE row.end

\* access_phase_for
Phase(row, day) ==
    CASE ~row.active                               -> "none"
      [] row.active /\ day < row.end               -> "active"
      [] row.active /\ row.end <= day /\ day < GraceEnd(row) -> "grace"
      [] OTHER                                     -> "locked"

Active(rows) == {i \in DOMAIN rows : rows[i].active}

Entitling(rows, day) == {i \in DOMAIN rows : Phase(rows[i], day) \in {"active", "grace"}}

\* get_latest_subscription; the rows must have an active one.
Latest(rows) == Max(Active(rows))

\* Mutant: a trial counts as consumed only while its row is active.
HasConsumedTrialNow(rows) == \E i \in DOMAIN rows : rows[i].trial /\ rows[i].active

\* org_has_consumed_trial.  trial_consumed_at is set in the commit that adds the
\* trial row, so the flag and the row tell the same.
HasConsumedTrial(rows) == \E i \in DOMAIN rows : rows[i].trial

\* Mutant: the newest active row answers, whether it gives access or not.
ResolveNewest(rows, day) ==
    IF Active(rows) = {} THEN [phase |-> "none", plan |-> NoPlan]
    ELSE [phase |-> Phase(rows[Latest(rows)], day), plan |-> rows[Latest(rows)].plan]

\* resolve_from_db: the newest row that gives access, else the newest active
\* row, which is locked.
Resolve(rows, day) ==
    IF Entitling(rows, day) # {}
    THEN LET row == rows[Max(Entitling(rows, day))]
         IN  [phase |-> Phase(row, day), plan |-> row.plan]
    ELSE [phase |-> IF Active(rows) # {} THEN "locked" ELSE "none", plan |-> NoPlan]

-----------------------------------------------------------------------------
(* What the billing operations write. *)

TrialRow(plan, day) ==
    [active |-> TRUE, trial |-> TRUE, plan |-> plan, end |-> day + TrialDays,
     grace |-> day + TrialDays + GraceDays]

PaidRow(plan, day, days) ==
    [active |-> TRUE, trial |-> FALSE, plan |-> plan, end |-> day + days, grace |-> NoDate]

Deactivated(rows, which) ==
    [i \in DOMAIN rows |-> [rows[i] EXCEPT !.active = @ /\ i \notin which]]

\* Mutant: the UPDATE of a grace extension names every column of the row.
ExtendedWhole(rows, which, grace) ==
    [i \in DOMAIN rows |-> IF i \in which
                            THEN [rows[i] EXCEPT !.active = TRUE, !.grace = grace]
                            ELSE rows[i]]

\* extend_grace_period also assigns active = True, which is what it loaded: the
\* UPDATE does not name that column.
Extended(rows, which, grace) ==
    [i \in DOMAIN rows |-> IF i \in which THEN [rows[i] EXCEPT !.grace = grace] ELSE rows[i]]

\* Mutant: a grace extension counts from today.
ExtendedGraceFromToday(graceEnd, day, days) == day + days

\* extend_grace_period: from the grace end that was read, or from today.
ExtendedGrace(graceEnd, day, days) ==
    (IF graceEnd < day THEN day ELSE graceEnd) + days
=============================================================================
