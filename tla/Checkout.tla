------------------------------ MODULE Checkout ------------------------------
(***************************************************************************)
(* The sale life cycle of the point of sale (crud/store.py): stage a sale, *)
(* finalize it, collect what is owed, cancel it while staged, void it when *)
(* finalized, and the background work that follows a commit.               *)
(*                                                                         *)
(* Each request is one run of a handler, in one database session.  No      *)
(* handler locks the sale row: a handler reads the sale, checks it, works  *)
(* through the items under product row locks, and writes back at commit.   *)
(* The read and the commit are separate actions, so that requests for the  *)
(* same sale interleave as they do in the database (READ COMMITTED).       *)
(*                                                                         *)
(* Money is counted in whole units: the code rounds to 2 decimals and      *)
(* treats anything up to 0.001 as settled.                                 *)
(***************************************************************************)
EXTENDS Inventory

CONSTANTS
    Sales,            \* sale ids; an id is used once
    Line,             \* Line[sale][row]: units of the row sold, 0 if not an item
    Total,            \* sales.total_amount of each sale, fixed when staged
    Tenders,          \* amounts a customer may hand over
    RestockBy,        \* quantities of POST /stock/restock
    CountTo,          \* quantities of POST /stock/count
    AdjustBy,         \* signed quantities of POST /stock/adjust
    PatchTo           \* quantities of PATCH /products/{id}

ASSUME CheckoutAssumption ==
    /\ Sales # {}
    /\ Line \in [Sales -> [Rows -> Nat]]
    /\ Total \in [Sales -> Nat]
    /\ Tenders \subseteq Nat \ {0}
    /\ RestockBy \subseteq Nat \ {0}
    /\ CountTo \subseteq Nat
    /\ AdjustBy \subseteq Int
    /\ PatchTo \subseteq Int

VARIABLES
    sale,       \* the sales row (and its items' quantity_refunded)
    payments,   \* sum of payments.amount of the sale
    doc,        \* the sale has a financial_documents row
    outbox,     \* status of the sale's analytics_outbox row
    rolled,     \* net contribution of the sale to the sales rollups
    cuts,       \* times a committed finalize took the sale's items from stock
    restores,   \* times a committed void gave them back
    raced,      \* history: what has overlapped on the sale: "requests", "rollups"
    pc,         \* where each request is in its handler
    txn         \* what each request has in memory

saleVars == <<sale, payments, doc, outbox, rolled, cuts, restores>>
vars == <<invVars, saleVars, raced, pc, txn>>

-----------------------------------------------------------------------------
Outstanding == {"PENDING_PAYMENT", "PARTIALLY_PAID"}
\* UNSTAGED and DELETED: there is no row.
Statuses == Outstanding \cup {"COMPLETED", "REFUNDED", "UNSTAGED", "DELETED"}

SaleRow == [status : Statuses, amountPaid : Nat, balanceDue : Nat, refunded : BOOLEAN]

NoSale(status) ==
    [status |-> status, amountPaid |-> 0, balanceDue |-> 0, refunded |-> FALSE]

Present(s) == sale[s].status \notin {"UNSTAGED", "DELETED"}

Items(s) == {row \in Rows : Line[s][row] > 0}

Handlers == {"none", "finalize", "collect", "cancel", "void"}

Points == {"idle", "items", "material", "commit", "sync",
           "document", "analytics", "rollup", "done"}

Txn == [op : Handlers,
        sale : Sales,
        given : Nat,             \* amount handed over; 0 is credit (INVOICE)
        todo : SUBSET Rows,      \* items whose stock is still to be moved
        service : Rows,          \* the service whose material is being moved
        read : SaleRow,          \* the session's copy of the sale row
        prior : Nat]             \* sum of the payments the handler loaded

Blank == [op |-> "none", sale |-> CHOOSE s \in Sales : TRUE, given |-> 0, todo |-> {},
          service |-> CHOOSE row \in Rows : TRUE, read |-> NoSale("UNSTAGED"), prior |-> 0]

TypeOK ==
    /\ InvTypeOK
    /\ sale \in [Sales -> SaleRow]
    /\ payments \in [Sales -> Nat]
    /\ doc \in [Sales -> BOOLEAN]
    /\ outbox \in [Sales -> {"ABSENT", "PENDING", "DONE", "FAILED"}]
    /\ rolled \in [Sales -> Int]
    /\ cuts \in [Sales -> Nat]
    /\ restores \in [Sales -> Nat]
    /\ raced \in [Sales -> SUBSET {"requests", "rollups"}]
    /\ pc \in [Requests -> Points]
    /\ txn \in [Requests -> Txn]

Init ==
    /\ InvInit
    /\ sale = [s \in Sales |-> NoSale("UNSTAGED")]
    /\ payments = [s \in Sales |-> 0]
    /\ doc = [s \in Sales |-> FALSE]
    /\ outbox = [s \in Sales |-> "ABSENT"]
    /\ rolled = [s \in Sales |-> 0]
    /\ cuts = [s \in Sales |-> 0]
    /\ restores = [s \in Sales |-> 0]
    /\ raced = [s \in Sales |-> {}]
    /\ pc = [r \in Requests |-> "idle"]
    /\ txn = [r \in Requests |-> Blank]

-----------------------------------------------------------------------------
(* Payment arithmetic (core/payment_methods.py). *)

\* Mutant: the floor at zero is missing.
RemainingUnfloored(a, b) == a - b

\* max(0, a - b)
Remaining(a, b) == IF a > b THEN a - b ELSE 0

\* compute_payment_amounts: what of the tender is applied; the rest is change.
Applied(due, given) == IF given < due THEN given ELSE due

\* Mutant: the tolerance is one unit of money.
StatusAfterTolerant(due, applied) ==
    IF Remaining(due, applied) <= 1 THEN "COMPLETED"
    ELSE IF applied > 0 THEN "PARTIALLY_PAID"
    ELSE "PENDING_PAYMENT"

\* resolve_sale_status_after_payment
StatusAfter(due, applied) ==
    IF Remaining(due, applied) = 0 THEN "COMPLETED"
    ELSE IF applied > 0 THEN "PARTIALLY_PAID"
    ELSE "PENDING_PAYMENT"

\* Mutant: any payment clears the balance.
SyncedClearing(s, row, status, paid) ==
    [row EXCEPT !.status = status,
                !.amountPaid = paid,
                !.balanceDue = IF paid > 0 THEN 0 ELSE Remaining(Total[s], paid)]

\* sync_sale_payment_columns: the in-memory row with status and the sum paid.
Synced(s, row, status, paid) ==
    [row EXCEPT !.status = status,
                !.amountPaid = paid,
                !.balanceDue = IF status = "COMPLETED" THEN 0 ELSE Remaining(Total[s], paid)]

\* Mutant: amount_paid is incremented in the database by the value in memory.
FlushAdding(wanted, read, now) ==
    [wanted EXCEPT !.amountPaid = IF wanted.amountPaid = read.amountPaid
                                  THEN now.amountPaid
                                  ELSE now.amountPaid + wanted.amountPaid]

\* Mutant: the items' quantity_refunded is not saved.
FlushForgettingItems(wanted, read, now) == [wanted EXCEPT !.refunded = now.refunded]

\* The UPDATE of a flush names only the columns whose value in memory differs
\* from the value that was loaded; the others keep what is in the table now.
Flush(wanted, read, now) ==
    [status |-> IF wanted.status = read.status THEN now.status ELSE wanted.status,
     amountPaid |-> IF wanted.amountPaid = read.amountPaid
                    THEN now.amountPaid ELSE wanted.amountPaid,
     balanceDue |-> IF wanted.balanceDue = read.balanceDue
                    THEN now.balanceDue ELSE wanted.balanceDue,
     refunded |-> IF wanted.refunded = read.refunded THEN now.refunded ELSE wanted.refunded]

-----------------------------------------------------------------------------
(* initialize_checkout: the stock of every item is checked, not reserved. *)

Enough(s, row) ==
    IF row \in Services
    THEN Uses[row] \in Tracked => stock[Uses[row]] >= PerUnit[row] * Line[s][row]
    ELSE row \in Tracked => stock[row] >= Line[s][row]

Stage(s) ==
    /\ sale[s].status = "UNSTAGED"
    /\ \A row \in Items(s) : Enough(s, row)
    /\ sale' = [sale EXCEPT ![s] = NoSale("PENDING_PAYMENT")]
    /\ UNCHANGED <<invVars, payments, doc, outbox, rolled, cuts, restores, raced, pc, txn>>

-----------------------------------------------------------------------------
(* The first half of a handler: load the sale, check it. *)

\* A request between its read of the sale and its last write to it.
InFlight(r) == pc[r] \in {"items", "material", "commit", "sync"}

Begin(r, op, s, given, todo) ==
    /\ pc[r] = "idle"
    /\ txn' = [txn EXCEPT ![r] = [Blank EXCEPT !.op = op, !.sale = s, !.given = given,
                                               !.todo = todo, !.read = sale[s],
                                               !.prior = payments[s]]]
    /\ pc' = [pc EXCEPT ![r] = IF todo = {} THEN "commit" ELSE "items"]
    /\ raced' = IF \E q \in Requests : InFlight(q) /\ txn[q].sale = s
                THEN [raced EXCEPT ![s] = @ \cup {"requests"}] ELSE raced
    /\ UNCHANGED <<invVars, saleVars>>

\* given = 0 is a credit sale, which needs no tender.
BeginFinalize(r, s, given) ==
    /\ Present(s)
    /\ sale[s].status # "COMPLETED"
    /\ ~doc[s]
    /\ Begin(r, "finalize", s, given, Items(s))

\* Mutant: the status is not looked at.
BeginCollectAny(r, s, given) ==
    /\ Present(s)
    /\ Begin(r, "collect", s, given, {})

BeginCollect(r, s, given) ==
    /\ sale[s].status \in Outstanding
    /\ Begin(r, "collect", s, given, {})

\* Mutant: a sale that has been paid for can be cancelled.
BeginCancelPaid(r, s) ==
    /\ sale[s].status = "PENDING_PAYMENT"
    /\ ~doc[s]
    /\ Begin(r, "cancel", s, 0, {})

BeginCancel(r, s) ==
    /\ sale[s].status = "PENDING_PAYMENT"
    /\ ~doc[s]
    /\ payments[s] = 0
    /\ Begin(r, "cancel", s, 0, {})

\* An item whose quantity_refunded has reached its quantity is skipped.
BeginVoid(r, s) ==
    /\ sale[s].status \in Outstanding \cup {"COMPLETED"}
    /\ Begin(r, "void", s, 0, IF sale[s].refunded THEN {} ELSE Items(s))

-----------------------------------------------------------------------------
(* The item loop of finalize_checkout and void_finalized_sale.  Items come  *)
(* in whatever order the database returned them.                            *)

Units(r, row) == IF txn[r].op = "finalize" THEN -Line[txn[r].sale][row]
                                           ELSE Line[txn[r].sale][row]

MaterialUnits(r) == PerUnit[txn[r].service] * Units(r, txn[r].service)

ItemDone(r, row) ==
    LET left == txn[r].todo \ {row}
    IN  /\ txn' = [txn EXCEPT ![r].todo = left]
        /\ pc' = [pc EXCEPT ![r] = IF left = {} THEN "commit" ELSE "items"]

MoveProduct(r, row) ==
    /\ pc[r] = "items"
    /\ row \in txn[r].todo \ Services
    /\ LockAndMove(r, row, Units(r, row))
    /\ ItemDone(r, row)
    /\ UNCHANGED <<saleVars, raced>>

MoveService(r, svc) ==
    /\ pc[r] = "items"
    /\ svc \in txn[r].todo \cap Services
    /\ LockService(r, svc)
    /\ IF Uses[svc] = svc
       THEN ItemDone(r, svc)
       ELSE /\ txn' = [txn EXCEPT ![r].service = svc]
            /\ pc' = [pc EXCEPT ![r] = "material"]
    /\ UNCHANGED <<saleVars, raced>>

MoveMaterial(r) ==
    /\ pc[r] = "material"
    /\ LockAndMove(r, Uses[txn[r].service], MaterialUnits(r))
    /\ ItemDone(r, txn[r].service)
    /\ UNCHANGED <<saleVars, raced>>

\* The rows a request may ask for next.
NextRows(r) ==
    CASE pc[r] = "items" -> txn[r].todo
      [] pc[r] = "material" -> {Uses[txn[r].service]}
      [] OTHER -> {}

\* The request ends with its session; whatever it had in memory is gone.
Leave(r) ==
    /\ pc' = [pc EXCEPT ![r] = "done"]
    /\ txn' = [txn EXCEPT ![r] = Blank]

Abandon(r) ==
    /\ RollbackStock(r)
    /\ Leave(r)
    /\ UNCHANGED <<saleVars, raced>>

\* 409: the locked row does not hold what the item needs.
OutOfStock(r) ==
    /\ \/ /\ pc[r] = "items"
          /\ \E row \in txn[r].todo \ Services :
                Lockable(r, row) /\ Short(r, row, Units(r, row))
       \/ /\ pc[r] = "material"
          /\ Lockable(r, Uses[txn[r].service])
          /\ Short(r, Uses[txn[r].service], MaterialUnits(r))
    /\ Abandon(r)

\* Requests that wait for each other in a circle: all a member can ask for
\* next is held by other members.
Circle(waiting) ==
    \A q \in waiting :
        /\ NextRows(q) # {}
        /\ \A row \in NextRows(q) : lock[row] \in waiting \ {q}

\* PostgreSQL finds the circle and aborts one of the transactions.
DeadlockVictim(r) ==
    /\ \E waiting \in SUBSET Requests : r \in waiting /\ Circle(waiting)
    /\ Abandon(r)

-----------------------------------------------------------------------------
(* The second half of a handler: write and commit. *)

AtCommit(r, op) == pc[r] = "commit" /\ txn[r].op = op /\ Present(txn[r].sale)

Enqueued(s) == [outbox EXCEPT ![s] = IF @ = "ABSENT" THEN "PENDING" ELSE @]

FinalizeCommit(r) ==
    LET s == txn[r].sale
        applied == Applied(Total[s], txn[r].given)
        status == IF txn[r].given = 0 THEN "PENDING_PAYMENT"
                                      ELSE StatusAfter(Total[s], applied)
        wanted == Synced(s, txn[r].read, status, applied)
    IN  /\ AtCommit(r, "finalize")
        /\ sale' = [sale EXCEPT ![s] = Flush(wanted, txn[r].read, @)]
        /\ payments' = [payments EXCEPT ![s] = @ + applied]
        /\ cuts' = [cuts EXCEPT ![s] = @ + 1]
        /\ outbox' = IF status = "COMPLETED" THEN Enqueued(s) ELSE outbox
        /\ CommitStock(r)
        /\ txn' = [txn EXCEPT ![r].read = wanted]
        /\ pc' = [pc EXCEPT ![r] = "sync"]
        /\ UNCHANGED <<doc, rolled, restores, raced>>

\* The same handler then reads the payment rows back and syncs the columns
\* again, in a second transaction.
FinalizeSync(r) ==
    LET s == txn[r].sale
        wanted == Synced(s, txn[r].read, txn[r].read.status, payments[s])
    IN  /\ pc[r] = "sync"
        /\ sale' = IF Present(s) THEN [sale EXCEPT ![s] = Flush(wanted, txn[r].read, @)]
                                 ELSE sale
        /\ pc' = [pc EXCEPT ![r] = "document"]
        /\ UNCHANGED <<invVars, payments, doc, outbox, rolled, cuts, restores, raced, txn>>

\* Mutant: every collect asks for the whole total.
OwedInFull(r) == Total[txn[r].sale]

\* What the sale owes by the payments the handler loaded.
Owed(r) == Remaining(Total[txn[r].sale], txn[r].prior)

CollectCommit(r) ==
    LET s == txn[r].sale
        due == Owed(r)
        applied == Applied(due, txn[r].given)
        status == StatusAfter(due, applied)
        wanted == Synced(s, txn[r].read, status, txn[r].prior + applied)
    IN  /\ AtCommit(r, "collect")
        /\ due > 0
        /\ sale' = [sale EXCEPT ![s] = Flush(wanted, txn[r].read, @)]
        /\ payments' = [payments EXCEPT ![s] = @ + applied]
        /\ outbox' = Enqueued(s)
        /\ txn' = [txn EXCEPT ![r].read = wanted]
        /\ pc' = [pc EXCEPT ![r] = "document"]
        /\ UNCHANGED <<invVars, doc, rolled, cuts, restores, raced>>

\* Nothing is due: the sale is closed, and the caller still gets a 409.
CollectNothingDue(r) ==
    LET s == txn[r].sale
        wanted == [txn[r].read EXCEPT !.status = "COMPLETED"]
    IN  /\ AtCommit(r, "collect")
        /\ Owed(r) = 0
        /\ sale' = [sale EXCEPT ![s] = Flush(wanted, txn[r].read, @)]
        /\ Leave(r)
        /\ UNCHANGED <<invVars, payments, doc, outbox, rolled, cuts, restores, raced>>

\* DELETE: payments, document and outbox row go with the sale (ON DELETE
\* CASCADE), also those that were committed after the handler looked.  (The ORM
\* looks once more when it flushes, and fails if it finds any; what commits
\* after that look, while the DELETE waits for its row, is deleted.)
CancelCommit(r) ==
    LET s == txn[r].sale
    IN  /\ AtCommit(r, "cancel")
        /\ sale' = [sale EXCEPT ![s] = NoSale("DELETED")]
        /\ payments' = [payments EXCEPT ![s] = 0]
        /\ doc' = [doc EXCEPT ![s] = FALSE]
        /\ outbox' = [outbox EXCEPT ![s] = "ABSENT"]
        /\ Leave(r)
        /\ UNCHANGED <<invVars, rolled, cuts, restores, raced>>

\* A void of a completed sale also reverses its rollup, in the same commit, unless
\* the reversal raises before it writes: the exception is logged and swallowed.
VoidCommit(r) ==
    LET s == txn[r].sale
        read == txn[r].read
        wanted == [read EXCEPT !.status = "REFUNDED", !.refunded = TRUE]
    IN  /\ AtCommit(r, "void")
        /\ sale' = [sale EXCEPT ![s] = Flush(wanted, read, @)]
        /\ restores' = [restores EXCEPT ![s] = IF read.refunded THEN @ ELSE @ + 1]
        /\ \E reversed \in BOOLEAN :
              rolled' = [rolled EXCEPT ![s] = IF read.status = "COMPLETED" /\ reversed
                                              THEN @ - 1 ELSE @]
        /\ CommitStock(r)
        /\ Leave(r)
        /\ UNCHANGED <<payments, doc, outbox, cuts, raced>>

\* The sale was deleted under the handler: its INSERT or UPDATE fails.
SaleGone(r) ==
    /\ pc[r] = "commit"
    /\ ~Present(txn[r].sale)
    /\ Abandon(r)

-----------------------------------------------------------------------------
(* Background work of one request, in order, after its response is sent     *)
(* (tasks/document_tasks.py, tasks/worker.py): the document, then, if the   *)
(* handler saw the sale completed, the rollup of the outbox row.            *)

GenerateDocument(r) ==
    LET s == txn[r].sale
    IN  /\ pc[r] = "document"
        /\ doc' = [doc EXCEPT ![s] = Present(s)]
        /\ IF txn[r].read.status = "COMPLETED"
           THEN pc' = [pc EXCEPT ![r] = "analytics"] /\ txn' = txn
           ELSE Leave(r)
        /\ UNCHANGED <<invVars, sale, payments, outbox, rolled, cuts, restores, raced>>

\* Mutant: the outbox row's status is not looked at.
CountableAgain(s) == sale[s].status = "COMPLETED"

Countable(s) == sale[s].status = "COMPLETED" /\ outbox[s] # "DONE"

\* async_update_sales_analytics: only a completed sale not yet counted goes on.
ReadOutbox(r) ==
    LET s == txn[r].sale
    IN  /\ pc[r] = "analytics"
        /\ IF Countable(s)
           THEN /\ pc' = [pc EXCEPT ![r] = "rollup"]
                /\ raced' = IF \E q \in Requests : pc[q] = "rollup" /\ txn[q].sale = s
                            THEN [raced EXCEPT ![s] = @ \cup {"rollups"}] ELSE raced
                /\ txn' = txn
           ELSE Leave(r) /\ raced' = raced
        /\ UNCHANGED <<invVars, saleVars>>

\* process_outbox_entry and its commit.  The sale and the outbox row are the
\* copies ReadOutbox loaded; neither is checked again.
ApplyRollup(r) ==
    LET s == txn[r].sale
    IN  /\ pc[r] = "rollup"
        /\ \/ /\ Present(s)
              /\ outbox' = [outbox EXCEPT ![s] = "DONE"]
              /\ rolled' = [rolled EXCEPT ![s] = @ + 1]
           \/ /\ Present(s)
              /\ outbox' = [outbox EXCEPT ![s] = "FAILED"]
              /\ UNCHANGED rolled
           \/ /\ ~Present(s)
              /\ UNCHANGED <<outbox, rolled>>
        /\ Leave(r)
        /\ UNCHANGED <<invVars, sale, payments, doc, cuts, restores, raced>>

\* GET /receipts/{sale_id} generates a missing document inline, for any sale.
ViewReceipt(s) ==
    /\ Present(s)
    /\ ~doc[s]
    /\ doc' = [doc EXCEPT ![s] = TRUE]
    /\ UNCHANGED <<invVars, sale, payments, outbox, rolled, cuts, restores, raced, pc, txn>>

-----------------------------------------------------------------------------
\* The handler raises, or its process dies, before the commit or after it.  A
\* failing document task also takes the tasks queued behind it along.
Fail(r) ==
    /\ pc[r] \notin {"idle", "done"}
    /\ Abandon(r)

\* Stock-room requests take one step.
StockRoom(r) ==
    /\ pc[r] = "idle"
    /\ \E row \in Rows :
        \/ \E quantity \in RestockBy : Restock(row, quantity)
        \/ \E quantity \in CountTo : CountStock(row, quantity)
        \/ \E delta \in AdjustBy : AdjustStock(row, delta)
        \/ \E quantity \in PatchTo : PatchStock(row, quantity)
    /\ pc' = [pc EXCEPT ![r] = "done"]
    /\ UNCHANGED <<saleVars, raced, txn>>

Arrive(r) ==
    \E s \in Sales :
        \/ \E given \in Tenders \cup {0} : BeginFinalize(r, s, given)
        \/ \E given \in Tenders : BeginCollect(r, s, given)
        \/ BeginCancel(r, s)
        \/ BeginVoid(r, s)

\* One step of a handler that has started.
Work(r) ==
    \/ \E row \in Rows : MoveProduct(r, row) \/ MoveService(r, row)
    \/ MoveMaterial(r)
    \/ OutOfStock(r)
    \/ DeadlockVictim(r)
    \/ FinalizeCommit(r)
    \/ FinalizeSync(r)
    \/ CollectCommit(r)
    \/ CollectNothingDue(r)
    \/ CancelCommit(r)
    \/ VoidCommit(r)
    \/ SaleGone(r)
    \/ GenerateDocument(r)
    \/ ReadOutbox(r)
    \/ ApplyRollup(r)

Next ==
    \/ \E s \in Sales : Stage(s) \/ ViewReceipt(s)
    \/ \E r \in Requests : Arrive(r) \/ Work(r) \/ StockRoom(r) \/ Fail(r)

Spec == Init /\ [][Next]_vars

\* The event loop and the database keep running a handler that has started.
\* Nothing obliges a client to send a request.
FairSpec == Spec /\ \A r \in Requests : WF_vars(Work(r))

-----------------------------------------------------------------------------
(* What holds whatever the requests for a sale overlap with. *)

\* A sale marked COMPLETED has been paid in full (resolve_sale_status_after_payment
\* computes the status from payments that other requests may have added to).
CompletedIsPaid ==
    \A s \in Sales : sale[s].status = "COMPLETED" => payments[s] >= Total[s]

\* The amount_paid column never claims more than the payment rows of the sale
\* add up to, although handlers write it from what they read earlier.
PaidColumnNeverOverstates ==
    \A s \in Sales : sale[s].amountPaid <= payments[s]

\* Once a sale has been finalized, what it shows as owed and what was paid add
\* up to the total at least: no interleaving makes a debt disappear.
DebtNeverVanishes ==
    \A s \in Sales : cuts[s] > 0 /\ Present(s) =>
        sale[s].balanceDue + payments[s] >= Total[s]

\* Checkouts, voids and the stock room move the stock of a row that no service
\* consumes as a ledger does: quantity and history by the same amount in one
\* step (row locks in stock_crud, read and write in one transaction).
ImplementsStockLedger == DirectLedger!Spec

\* Each request that overlaps with no other for its sale acts in one step on the
\* sale as it is, although it reads it and writes it at different times; and no
\* overlap brings back a deleted sale, loses a payment of a sale that is there,
\* or completes one that is not paid.
Book == INSTANCE SaleBook WITH
    status <- [s \in Sales |-> sale[s].status],
    paid <- payments,
    overlapped <- {s \in Sales : "requests" \in raced[s]}

ImplementsSaleBook == Book!Spec

\* No recorded movement leaves a row below zero, the materials included, for
\* which a handler may be working from a stale copy.
NeverBelowZero ==
    [][\A row \in Rows : ledger'[row] # ledger[row] => stock'[row] >= 0]_vars

\* A sale counts more than once in the rollups only if two rollup tasks for it
\* were under way at once; the outbox row stops a later task.
CountedAtMostOnce ==
    \A s \in Sales : rolled[s] > 1 => "rollups" \in raced[s]

-----------------------------------------------------------------------------
(* What holds of a sale whose requests never overlapped. *)

\* Items are given back a second time only by voids that overlapped: a later
\* void finds quantity_refunded set, even when the sale was finalized again.
SecondRestoreNeedsRace ==
    \A s \in Sales : restores[s] > 1 => "requests" \in raced[s]

\* A collect that overlaps with nothing never takes more than the sale still
\* owes, however many partial payments came before it.
CollectNeverOverpays ==
    [][\A s \in Sales :
         payments'[s] > payments[s] /\ cuts'[s] = cuts[s] /\ raced[s] = {}
             => payments'[s] <= Total[s]]_vars

\* No payment row disappears unless a request overlapped with the cancel that
\* deleted the sale (cancel_staged_sale refuses a sale with payments).
PaymentsNeverErased ==
    [][\A s \in Sales : payments'[s] < payments[s] => "requests" \in raced[s]]_vars

-----------------------------------------------------------------------------
\* Every request that started ends, through row locks, deadlocks and the
\* disappearance of its sale.
Served == \A r \in Requests : pc[r] # "idle" ~> pc[r] = "done"

-----------------------------------------------------------------------------
(* Statements of the code's comments that the code does not keep. *)

\* crud/store.py:731-732: a sale that can be voided has deducted its stock.  So
\* what voids give back never exceeds what finalizes took.
VoidRestoresOnlyWhatWasCut ==
    \A s \in Sales : restores[s] <= cuts[s]

\* crud/store.py:324: the document check makes finalize idempotent and "covers
\* re-finalize of credit".  So without overlapping requests a sale is cut once.
FinalizeIsIdempotent ==
    \A s \in Sales : cuts[s] > 1 => raced[s] # {}

\* services/analytics_rollup.py:95: sign=-1 "reverses the prior completion
\* contribution", so a sale never contributes less than nothing.
RefundReversesContribution ==
    \A s \in Sales : rolled[s] >= 0

\* models/models.py:653: stock_history is the single source of truth for all
\* stock movements, so it accounts for the stock of every row.
HistoryAccountsForStock == WholeLedger!Spec

\* models/models.py:1256: the outbox ensures that analytics are not lost if the
\* background tasks die, so an enqueued sale is processed in the end.
AnalyticsNotLost ==
    \A s \in Sales : outbox[s] = "PENDING" ~> outbox[s] # "PENDING"
=============================================================================
