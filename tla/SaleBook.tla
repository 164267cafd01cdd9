------------------------------ MODULE SaleBook ------------------------------
(***************************************************************************)
(* What the point of sale promises of each sale, without any requests: it  *)
(* is staged, finalized, collected, cancelled or voided in one step, which *)
(* decides by the status and the payments there are at that moment.        *)
(*                                                                         *)
(* Requests for a sale that overlap break the promise for that sale, but   *)
(* not all of it: payments still accumulate until the sale is deleted with *)
(* them, COMPLETED still means paid, and deleted is for good.              *)
(***************************************************************************)
EXTENDS Integers

CONSTANTS
    Sales,
    Total,         \* what each sale costs
    Tenders        \* amounts a customer may hand over

VARIABLES
    status,        \* sales.status
    paid,          \* sum of the payments
    overlapped     \* sales for which requests have overlapped

bookVars == <<status, paid, overlapped>>

-----------------------------------------------------------------------------
Open == {"PENDING_PAYMENT", "PARTIALLY_PAID"}
OnBook == Open \cup {"COMPLETED", "REFUNDED"}

There(s) == status[s] \in OnBook

Init ==
    /\ status = [s \in Sales |-> "UNSTAGED"]
    /\ paid = [s \in Sales |-> 0]
    /\ overlapped = {}

\* The sale has a new status, and some more was paid.
Turns(s, new, more) ==
    /\ status' = [status EXCEPT ![s] = new]
    /\ paid' = [paid EXCEPT ![s] = @ + more]
    /\ UNCHANGED overlapped

\* What the customer pays of what is due, and the status it leaves.
Share(due, given) == IF given < due THEN given ELSE due
After(due, given) == IF given < due THEN "PARTIALLY_PAID" ELSE "COMPLETED"

Stage(s) == status[s] = "UNSTAGED" /\ Turns(s, "PENDING_PAYMENT", 0)

\* On credit, or for the whole total whatever was paid before.
Finalize(s) ==
    /\ There(s) /\ status[s] # "COMPLETED"
    /\ \/ Turns(s, "PENDING_PAYMENT", 0)
       \/ \E given \in Tenders :
            Turns(s, After(Total[s], given), Share(Total[s], given))

\* What is still due; a sale of which nothing is due is closed.
Collect(s) ==
    /\ status[s] \in Open
    /\ IF paid[s] < Total[s]
       THEN \E given \in Tenders :
              Turns(s, After(Total[s] - paid[s], given), Share(Total[s] - paid[s], given))
       ELSE Turns(s, "COMPLETED", 0)

Cancel(s) == status[s] = "PENDING_PAYMENT" /\ paid[s] = 0 /\ Turns(s, "DELETED", 0)

Void(s) == status[s] \in Open \cup {"COMPLETED"} /\ Turns(s, "REFUNDED", 0)

\* Two requests for the sale are under way at once,
Overlap(s) ==
    /\ overlapped' = overlapped \cup {s}
    /\ UNCHANGED <<status, paid>>

\* and what they do in the end may be none of the steps above.
Disturbed(s) ==
    /\ s \in overlapped
    /\ There(s)
    /\ status' \in [Sales -> OnBook \cup {"UNSTAGED", "DELETED"}]
    /\ paid' \in [Sales -> Nat]
    /\ \A t \in Sales \ {s} : status'[t] = status[t] /\ paid'[t] = paid[t]
    /\ \/ There(s)' /\ paid'[s] >= paid[s]
       \/ status'[s] = "DELETED" /\ paid'[s] = 0
    /\ status'[s] = "COMPLETED" => paid'[s] >= Total[s]
    /\ UNCHANGED overlapped

Next ==
    \E s \in Sales :
        Stage(s) \/ Finalize(s) \/ Collect(s) \/ Cancel(s) \/ Void(s)
          \/ Overlap(s) \/ Disturbed(s)

Spec == Init /\ [][Next]_bookVars
=============================================================================
