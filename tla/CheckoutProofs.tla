--------------------------- MODULE CheckoutProofs ---------------------------
(***************************************************************************)
(* Proofs about Checkout: its types and its money invariants.              *)
(***************************************************************************)
EXTENDS Checkout, TLAPS

-----------------------------------------------------------------------------
(* The helpers stay within their types. *)

LEMMA RemainingType ==
    ASSUME NEW a \in Nat, NEW b \in Nat
    PROVE  /\ Remaining(a, b) \in Nat
           /\ Remaining(a, b) + b >= a
           /\ Remaining(a, b) = 0 => b >= a
BY DEF Remaining

LEMMA AppliedType ==
    ASSUME NEW due \in Nat, NEW given \in Nat
    PROVE  Applied(due, given) \in Nat /\ Applied(due, given) <= due
BY DEF Applied

LEMMA StatusAfterType ==
    ASSUME NEW due \in Nat, NEW applied \in Nat
    PROVE  StatusAfter(due, applied) \in Outstanding \cup {"COMPLETED"}
BY DEF StatusAfter, Outstanding

LEMMA NoSaleType ==
    ASSUME NEW status \in Statuses
    PROVE  NoSale(status) \in SaleRow
BY DEF NoSale, SaleRow

LEMMA SyncedType ==
    ASSUME NEW s \in Sales, NEW row \in SaleRow, NEW status \in Statuses, NEW paid \in Nat
    PROVE  /\ Synced(s, row, status, paid) \in SaleRow
           /\ Synced(s, row, status, paid).status = status
           /\ Synced(s, row, status, paid).amountPaid = paid
           /\ Synced(s, row, status, paid).balanceDue =
                  IF status = "COMPLETED" THEN 0 ELSE Remaining(Total[s], paid)
<1>1. Total[s] \in Nat
    BY CheckoutAssumption
<1>2. Remaining(Total[s], paid) \in Nat
    BY <1>1, RemainingType
<1> QED BY <1>2 DEF Synced, SaleRow

LEMMA FlushType ==
    ASSUME NEW wanted \in SaleRow, NEW read \in SaleRow, NEW now \in SaleRow
    PROVE  Flush(wanted, read, now) \in SaleRow
BY DEF Flush, SaleRow

LEMMA BlankType == Blank \in Txn
<1>1. (CHOOSE s \in Sales : TRUE) \in Sales
    BY CheckoutAssumption
<1>2. (CHOOSE row \in Rows : TRUE) \in Rows
    BY InventoryAssumption
<1>3. NoSale("UNSTAGED") \in SaleRow
    BY NoSaleType DEF Statuses
<1> QED BY <1>1, <1>2, <1>3 DEF Blank, Txn, Handlers

-----------------------------------------------------------------------------
(* Types: what a step of the stock part, of the item loop and of the sale    *)
(* part does to the variables it owns.                                       *)

SaleTypeOK ==
    /\ sale \in [Sales -> SaleRow]
    /\ payments \in [Sales -> Nat]
    /\ doc \in [Sales -> BOOLEAN]
    /\ outbox \in [Sales -> {"ABSENT", "PENDING", "DONE", "FAILED"}]
    /\ rolled \in [Sales -> Int]
    /\ cuts \in [Sales -> Nat]
    /\ restores \in [Sales -> Nat]

LEMMA CloseSessionType ==
    ASSUME InvTypeOK, NEW r \in Requests, CloseSession(r)
    PROVE  /\ lock' \in [Rows -> Requests \cup {NoRequest}]
           /\ loaded' \in [Requests -> SUBSET Rows]
           /\ copy' \in [Requests -> [Rows -> Int]]
           /\ pend' \in [Requests -> [Rows -> Int]]
BY DEF InvTypeOK, CloseSession, EmptyCopy

LEMMA CommitStockType ==
    ASSUME InvTypeOK, NEW r \in Requests, CommitStock(r)
    PROVE  InvTypeOK'
<1>1. stock' \in [Rows -> Int] /\ ledger' \in [Rows -> Int]
    BY DEF InvTypeOK, CommitStock
<1> QED BY <1>1, CloseSessionType DEF InvTypeOK, CommitStock

LEMMA RollbackStockType ==
    ASSUME InvTypeOK, NEW r \in Requests, RollbackStock(r)
    PROVE  InvTypeOK'
BY CloseSessionType DEF InvTypeOK, RollbackStock

LEMMA LockAndMoveType ==
    ASSUME InvTypeOK, NEW r \in Requests, NEW row \in Rows, NEW delta \in Int,
           LockAndMove(r, row, delta)
    PROVE  InvTypeOK'
<1>1. View(r, row) \in Int
    BY DEF InvTypeOK, View
<1>2. copy' \in [Requests -> [Rows -> Int]] /\ pend' \in [Requests -> [Rows -> Int]]
    BY <1>1 DEF InvTypeOK, LockAndMove
<1> QED BY <1>2 DEF InvTypeOK, LockAndMove

LEMMA LockServiceType ==
    ASSUME InvTypeOK, NEW r \in Requests, NEW svc \in Services, LockService(r, svc)
    PROVE  InvTypeOK'
<1>1. svc \in Rows /\ Uses[svc] \in Rows
    BY InventoryAssumption
<1>2. \A row \in Rows : View(r, row) \in Int
    BY DEF InvTypeOK, View
<1>3. copy' \in [Requests -> [Rows -> Int]]
    BY <1>1, <1>2 DEF InvTypeOK, LockService
<1> QED BY <1>1, <1>3 DEF InvTypeOK, LockService

LEMMA ApplyMovementType ==
    ASSUME InvTypeOK, NEW row \in Rows, NEW target \in Int, ApplyMovement(row, target)
    PROVE  InvTypeOK'
BY DEF InvTypeOK, ApplyMovement

LEMMA PatchStockType ==
    ASSUME InvTypeOK, NEW row \in Rows, NEW quantity \in Int, PatchStock(row, quantity)
    PROVE  InvTypeOK'
BY DEF InvTypeOK, PatchStock

LEMMA StockRoomType ==
    ASSUME TypeOK, NEW r \in Requests, StockRoom(r)
    PROVE  TypeOK'
<1>1. PICK row \in Rows :
        \/ \E quantity \in RestockBy : Restock(row, quantity)
        \/ \E quantity \in CountTo : CountStock(row, quantity)
        \/ \E delta \in AdjustBy : AdjustStock(row, delta)
        \/ \E quantity \in PatchTo : PatchStock(row, quantity)
    BY DEF StockRoom
<1>2. stock[row] \in Int /\ InvTypeOK
    BY DEF TypeOK, InvTypeOK
<1>3. InvTypeOK'
    <2>1. CASE \E quantity \in RestockBy : Restock(row, quantity)
        BY <2>1, <1>2, ApplyMovementType, CheckoutAssumption DEF Restock
    <2>2. CASE \E quantity \in CountTo : CountStock(row, quantity)
        BY <2>2, <1>2, ApplyMovementType, CheckoutAssumption DEF CountStock
    <2>3. CASE \E delta \in AdjustBy : AdjustStock(row, delta)
        BY <2>3, <1>2, ApplyMovementType, CheckoutAssumption DEF AdjustStock
    <2>4. CASE \E quantity \in PatchTo : PatchStock(row, quantity)
        BY <2>4, <1>2, PatchStockType, CheckoutAssumption
    <2> QED BY <1>1, <2>1, <2>2, <2>3, <2>4
<1> QED BY <1>3 DEF TypeOK, StockRoom, saleVars, Points

-----------------------------------------------------------------------------
LEMMA BeginType ==
    ASSUME TypeOK, NEW r \in Requests, NEW s \in Sales, NEW given \in Nat,
           NEW op \in Handlers, NEW todo \in SUBSET Rows, Begin(r, op, s, given, todo)
    PROVE  TypeOK'
<1>1. [Blank EXCEPT !.op = op, !.sale = s, !.given = given, !.todo = todo,
                    !.read = sale[s], !.prior = payments[s]] \in Txn
    <2>1. sale[s] \in SaleRow /\ payments[s] \in Nat
        BY DEF TypeOK
    <2> QED BY <2>1, BlankType DEF Txn
<1>2. txn' \in [Requests -> Txn]
    BY <1>1 DEF TypeOK, Begin
<1>3. pc' \in [Requests -> Points]
    BY DEF TypeOK, Begin, Points
<1>4. raced' \in [Sales -> SUBSET {"requests", "rollups"}]
    BY DEF TypeOK, Begin
<1>5. InvTypeOK'
    BY DEF TypeOK, Begin, InvTypeOK, invVars
<1> QED BY <1>2, <1>3, <1>4, <1>5 DEF TypeOK, Begin, saleVars

LEMMA ArriveType ==
    ASSUME TypeOK, NEW r \in Requests, Arrive(r)
    PROVE  TypeOK'
<1>1. PICK s \in Sales :
        \/ \E given \in Tenders \cup {0} : BeginFinalize(r, s, given)
        \/ \E given \in Tenders : BeginCollect(r, s, given)
        \/ BeginCancel(r, s)
        \/ BeginVoid(r, s)
    BY DEF Arrive
<1>2. Items(s) \in SUBSET Rows
    BY DEF Items
<1>3. Tenders \cup {0} \subseteq Nat
    BY CheckoutAssumption
<1>4. CASE \E given \in Tenders \cup {0} : BeginFinalize(r, s, given)
    BY <1>2, <1>3, <1>4, BeginType DEF BeginFinalize, Handlers
<1>5. CASE \E given \in Tenders : BeginCollect(r, s, given)
    BY <1>3, <1>5, BeginType DEF BeginCollect, Handlers
<1>6. CASE BeginCancel(r, s)
    BY <1>6, BeginType DEF BeginCancel, Handlers
<1>7. CASE BeginVoid(r, s)
    BY <1>2, <1>7, BeginType DEF BeginVoid, Handlers
<1> QED BY <1>1, <1>4, <1>5, <1>6, <1>7

-----------------------------------------------------------------------------
(* Types: the steps of a handler. *)

LEMMA LeaveType ==
    ASSUME TypeOK, NEW r \in Requests, Leave(r)
    PROVE  pc' \in [Requests -> Points] /\ txn' \in [Requests -> Txn]
BY BlankType DEF TypeOK, Leave, Points

LEMMA AbandonType ==
    ASSUME TypeOK, NEW r \in Requests, Abandon(r)
    PROVE  TypeOK'
<1>1. InvTypeOK'
    BY RollbackStockType DEF TypeOK, Abandon
<1>2. pc' \in [Requests -> Points] /\ txn' \in [Requests -> Txn]
    BY LeaveType DEF Abandon
<1> QED BY <1>1, <1>2 DEF TypeOK, Abandon, saleVars

LEMMA ItemDoneType ==
    ASSUME TypeOK, NEW r \in Requests, NEW row, ItemDone(r, row)
    PROVE  pc' \in [Requests -> Points] /\ txn' \in [Requests -> Txn]
<1>1. txn[r] \in Txn /\ txn[r].todo \ {row} \in SUBSET Rows
    BY DEF TypeOK, Txn
<1>2. [txn[r] EXCEPT !.todo = txn[r].todo \ {row}] \in Txn
    BY <1>1 DEF Txn
<1> QED BY <1>2 DEF TypeOK, ItemDone, Points

LEMMA UnitsType ==
    ASSUME TypeOK, NEW r \in Requests, NEW row \in Rows
    PROVE  Units(r, row) \in Int
<1>1. Line[txn[r].sale][row] \in Nat
    BY CheckoutAssumption DEF TypeOK, Txn
<1> QED BY <1>1 DEF Units

LEMMA MoveType ==
    ASSUME TypeOK, NEW r \in Requests, NEW row \in Rows,
           MoveProduct(r, row) \/ MoveService(r, row)
    PROVE  TypeOK'
<1>1. CASE MoveProduct(r, row)
    <2>1. InvTypeOK'
        BY <1>1, LockAndMoveType, UnitsType DEF MoveProduct, TypeOK
    <2> QED BY <1>1, <2>1, ItemDoneType DEF MoveProduct, TypeOK, saleVars
<1>2. CASE MoveService(r, row)
    <2>1. InvTypeOK'
        BY <1>2, LockServiceType DEF MoveService, TypeOK
    <2>2. pc' \in [Requests -> Points] /\ txn' \in [Requests -> Txn]
        <3>1. CASE Uses[row] = row
            BY <1>2, <3>1, ItemDoneType DEF MoveService
        <3>2. CASE Uses[row] # row
            <4>1. [txn[r] EXCEPT !.service = row] \in Txn
                BY DEF TypeOK, Txn
            <4> QED BY <1>2, <3>2, <4>1 DEF MoveService, TypeOK, Points
        <3> QED BY <3>1, <3>2
    <2> QED BY <1>2, <2>1, <2>2 DEF MoveService, TypeOK, saleVars
<1> QED BY <1>1, <1>2

LEMMA MoveMaterialType ==
    ASSUME TypeOK, NEW r \in Requests, MoveMaterial(r), txn[r].service \in Services
    PROVE  TypeOK'
<1>1. Uses[txn[r].service] \in Rows /\ PerUnit[txn[r].service] \in Nat
    BY InventoryAssumption
<1>2. txn[r].service \in Rows
    BY InventoryAssumption
<1>3. MaterialUnits(r) \in Int
    BY <1>1, <1>2, UnitsType DEF MaterialUnits
<1>4. InvTypeOK'
    BY <1>1, <1>3, LockAndMoveType DEF MoveMaterial, TypeOK
<1> QED BY <1>4, ItemDoneType DEF MoveMaterial, TypeOK, saleVars

\* What a request holds in memory has the types of Txn.
LEMMA TxnType ==
    ASSUME TypeOK, NEW r \in Requests
    PROVE  /\ txn[r].sale \in Sales
           /\ txn[r].given \in Nat
           /\ txn[r].prior \in Nat
           /\ txn[r].read \in SaleRow
           /\ Total[txn[r].sale] \in Nat
           /\ sale[txn[r].sale] \in SaleRow
           /\ payments[txn[r].sale] \in Nat
<1>1. txn[r] \in Txn
    BY DEF TypeOK
<1>2. txn[r].sale \in Sales
    BY <1>1 DEF Txn
<1> QED BY <1>1, <1>2, CheckoutAssumption DEF TypeOK, Txn

LEMMA RememberType ==
    ASSUME TypeOK, NEW r \in Requests, NEW row \in SaleRow
    PROVE  [txn EXCEPT ![r].read = row] \in [Requests -> Txn]
BY DEF TypeOK, Txn

\* The row a finalize wants to write.
FinalizeApplied(r) == Applied(Total[txn[r].sale], txn[r].given)
FinalizeStatus(r) ==
    IF txn[r].given = 0 THEN "PENDING_PAYMENT"
                        ELSE StatusAfter(Total[txn[r].sale], FinalizeApplied(r))
FinalizeRow(r) ==
    Synced(txn[r].sale, txn[r].read, FinalizeStatus(r), FinalizeApplied(r))

LEMMA FinalizeRowType ==
    ASSUME TypeOK, NEW r \in Requests
    PROVE  /\ FinalizeApplied(r) \in Nat
           /\ FinalizeStatus(r) \in Outstanding \cup {"COMPLETED"}
           /\ FinalizeRow(r) \in SaleRow
           /\ FinalizeRow(r).status = FinalizeStatus(r)
           /\ FinalizeRow(r).amountPaid = FinalizeApplied(r)
           /\ FinalizeRow(r).balanceDue =
                  IF FinalizeStatus(r) = "COMPLETED" THEN 0
                  ELSE Remaining(Total[txn[r].sale], FinalizeApplied(r))
<1>1. FinalizeApplied(r) \in Nat
    BY TxnType, AppliedType DEF FinalizeApplied
<1>2. FinalizeStatus(r) \in Outstanding \cup {"COMPLETED"}
    BY <1>1, TxnType, StatusAfterType DEF FinalizeStatus, Outstanding
<1>3. FinalizeStatus(r) \in Statuses
    BY <1>2 DEF Statuses
<1> QED BY <1>1, <1>2, <1>3, TxnType, SyncedType DEF FinalizeRow

\* The row a collect wants to write.
CollectApplied(r) == Applied(Owed(r), txn[r].given)
CollectStatus(r) == StatusAfter(Owed(r), CollectApplied(r))
CollectRow(r) ==
    Synced(txn[r].sale, txn[r].read, CollectStatus(r), txn[r].prior + CollectApplied(r))

LEMMA CollectRowType ==
    ASSUME TypeOK, NEW r \in Requests
    PROVE  /\ Owed(r) \in Nat
           /\ CollectApplied(r) \in Nat
           /\ CollectStatus(r) \in Outstanding \cup {"COMPLETED"}
           /\ CollectRow(r) \in SaleRow
           /\ CollectRow(r).status = CollectStatus(r)
           /\ CollectRow(r).amountPaid = txn[r].prior + CollectApplied(r)
           /\ CollectRow(r).balanceDue =
                  IF CollectStatus(r) = "COMPLETED" THEN 0
                  ELSE Remaining(Total[txn[r].sale], txn[r].prior + CollectApplied(r))
<1>1. Owed(r) \in Nat
    BY TxnType, RemainingType DEF Owed
<1>2. CollectApplied(r) \in Nat
    BY <1>1, TxnType, AppliedType DEF CollectApplied
<1>3. CollectStatus(r) \in Outstanding \cup {"COMPLETED"}
    BY <1>1, <1>2, StatusAfterType DEF CollectStatus
<1>4. CollectStatus(r) \in Statuses
    BY <1>3 DEF Statuses
<1>5. txn[r].prior + CollectApplied(r) \in Nat
    BY <1>2, TxnType
<1> QED BY <1>1, <1>2, <1>3, <1>4, <1>5, TxnType, SyncedType, SMTT(20) DEF CollectRow

\* The row the second transaction of a finalize wants to write.
SyncRow(r) ==
    Synced(txn[r].sale, txn[r].read, txn[r].read.status, payments[txn[r].sale])

LEMMA SyncRowType ==
    ASSUME TypeOK, NEW r \in Requests
    PROVE  /\ SyncRow(r) \in SaleRow
           /\ SyncRow(r).status = txn[r].read.status
           /\ SyncRow(r).amountPaid = payments[txn[r].sale]
           /\ SyncRow(r).balanceDue =
                  IF txn[r].read.status = "COMPLETED" THEN 0
                  ELSE Remaining(Total[txn[r].sale], payments[txn[r].sale])
<1>1. txn[r].read.status \in Statuses
    BY TxnType DEF SaleRow
<1> QED BY <1>1, TxnType, SyncedType DEF SyncRow

\* The rows that the other commits want to write.
ClosedRow(r) == [txn[r].read EXCEPT !.status = "COMPLETED"]
VoidRow(r) == [txn[r].read EXCEPT !.status = "REFUNDED", !.refunded = TRUE]

LEMMA OtherRowType ==
    ASSUME TypeOK, NEW r \in Requests
    PROVE  /\ ClosedRow(r) \in SaleRow
           /\ ClosedRow(r).status = "COMPLETED"
           /\ ClosedRow(r).amountPaid = txn[r].read.amountPaid
           /\ ClosedRow(r).balanceDue = txn[r].read.balanceDue
           /\ VoidRow(r) \in SaleRow
           /\ VoidRow(r).status = "REFUNDED"
           /\ VoidRow(r).amountPaid = txn[r].read.amountPaid
           /\ VoidRow(r).balanceDue = txn[r].read.balanceDue
<1> DEFINE read == txn[r].read
<1>1. read \in SaleRow
    BY TxnType
<1>2. read = [status |-> read.status, amountPaid |-> read.amountPaid,
              balanceDue |-> read.balanceDue, refunded |-> read.refunded]
    BY <1>1 DEF SaleRow
<1>3. ClosedRow(r) = [status |-> "COMPLETED", amountPaid |-> read.amountPaid,
                      balanceDue |-> read.balanceDue, refunded |-> read.refunded]
    BY <1>1, <1>2 DEF ClosedRow, SaleRow
<1>4. VoidRow(r) = [status |-> "REFUNDED", amountPaid |-> read.amountPaid,
                    balanceDue |-> read.balanceDue, refunded |-> TRUE]
    <2>1. [read EXCEPT !.status = "REFUNDED"] =
              [status |-> "REFUNDED", amountPaid |-> read.amountPaid,
               balanceDue |-> read.balanceDue, refunded |-> read.refunded]
        BY <1>1, <1>2 DEF SaleRow
    <2>2. VoidRow(r) = [[read EXCEPT !.status = "REFUNDED"] EXCEPT !.refunded = TRUE]
        BY DEF VoidRow
    <2> QED BY <2>1, <2>2
<1> QED BY <1>1, <1>3, <1>4 DEF SaleRow, Statuses

\* Flush of a row a request wants to write, over the row in the table.
LEMMA FlushOverType ==
    ASSUME TypeOK, NEW r \in Requests, NEW wanted \in SaleRow
    PROVE  [sale EXCEPT ![txn[r].sale] = Flush(wanted, txn[r].read, @)] \in [Sales -> SaleRow]
<1>1. Flush(wanted, txn[r].read, sale[txn[r].sale]) \in SaleRow
    BY TxnType, FlushType
<1> QED BY <1>1 DEF TypeOK

LEMMA EnqueuedType ==
    ASSUME TypeOK, NEW s \in Sales
    PROVE  Enqueued(s) \in [Sales -> {"ABSENT", "PENDING", "DONE", "FAILED"}]
BY DEF TypeOK, Enqueued

LEMMA FinalizeCommitType ==
    ASSUME TypeOK, NEW r \in Requests, FinalizeCommit(r)
    PROVE  TypeOK'
<1> DEFINE s == txn[r].sale
<1>1. /\ sale' = [sale EXCEPT ![s] = Flush(FinalizeRow(r), txn[r].read, @)]
      /\ payments' = [payments EXCEPT ![s] = @ + FinalizeApplied(r)]
      /\ txn' = [txn EXCEPT ![r].read = FinalizeRow(r)]
    BY DEF FinalizeCommit, FinalizeRow, FinalizeStatus, FinalizeApplied
<1>2. sale' \in [Sales -> SaleRow] /\ txn' \in [Requests -> Txn]
    BY <1>1, FinalizeRowType, FlushOverType, RememberType
<1>3. payments' \in [Sales -> Nat]
    BY <1>1, FinalizeRowType, TxnType DEF TypeOK
<1>4. cuts' \in [Sales -> Nat]
    BY TxnType DEF TypeOK, FinalizeCommit
<1>5. outbox' \in [Sales -> {"ABSENT", "PENDING", "DONE", "FAILED"}]
    <2>1. outbox' = Enqueued(s) \/ outbox' = outbox
        BY DEF FinalizeCommit
    <2> QED BY <2>1, EnqueuedType, TxnType DEF TypeOK
<1>6. InvTypeOK'
    BY CommitStockType DEF TypeOK, FinalizeCommit
<1>7. pc' \in [Requests -> Points]
    BY DEF TypeOK, FinalizeCommit, Points
<1> QED BY <1>2, <1>3, <1>4, <1>5, <1>6, <1>7 DEF TypeOK, FinalizeCommit

LEMMA FinalizeSyncType ==
    ASSUME TypeOK, NEW r \in Requests, FinalizeSync(r)
    PROVE  TypeOK'
<1>1. \/ sale' = [sale EXCEPT ![txn[r].sale] = Flush(SyncRow(r), txn[r].read, @)]
      \/ sale' = sale
    BY DEF FinalizeSync, SyncRow
<1>2. sale' \in [Sales -> SaleRow]
    <2>1. CASE sale' = sale
        BY <2>1 DEF TypeOK
    <2>2. CASE sale' = [sale EXCEPT ![txn[r].sale] = Flush(SyncRow(r), txn[r].read, @)]
        BY <2>2, SyncRowType, FlushOverType
    <2> QED BY <1>1, <2>1, <2>2
<1>3. pc' \in [Requests -> Points]
    BY DEF TypeOK, FinalizeSync, Points
<1> QED BY <1>2, <1>3 DEF TypeOK, FinalizeSync, InvTypeOK, invVars

LEMMA CollectCommitType ==
    ASSUME TypeOK, NEW r \in Requests, CollectCommit(r)
    PROVE  TypeOK'
<1> DEFINE s == txn[r].sale
<1>1. /\ sale' = [sale EXCEPT ![s] = Flush(CollectRow(r), txn[r].read, @)]
      /\ payments' = [payments EXCEPT ![s] = @ + CollectApplied(r)]
      /\ txn' = [txn EXCEPT ![r].read = CollectRow(r)]
    BY DEF CollectCommit, CollectRow, CollectStatus, CollectApplied
<1>2. sale' \in [Sales -> SaleRow] /\ txn' \in [Requests -> Txn]
    BY <1>1, CollectRowType, FlushOverType, RememberType
<1>3. payments' \in [Sales -> Nat]
    BY <1>1, CollectRowType, TxnType DEF TypeOK
<1>4. outbox' \in [Sales -> {"ABSENT", "PENDING", "DONE", "FAILED"}]
    BY EnqueuedType, TxnType DEF CollectCommit
<1>5. pc' \in [Requests -> Points]
    BY DEF TypeOK, CollectCommit, Points
<1> QED BY <1>2, <1>3, <1>4, <1>5 DEF TypeOK, CollectCommit, InvTypeOK, invVars

LEMMA CollectNothingDueType ==
    ASSUME TypeOK, NEW r \in Requests, CollectNothingDue(r)
    PROVE  TypeOK'
<1>1. sale' = [sale EXCEPT ![txn[r].sale] = Flush(ClosedRow(r), txn[r].read, @)]
    BY DEF CollectNothingDue, ClosedRow
<1>2. sale' \in [Sales -> SaleRow]
    BY <1>1, OtherRowType, FlushOverType
<1> QED BY <1>2, LeaveType DEF TypeOK, CollectNothingDue, InvTypeOK, invVars

LEMMA CancelCommitType ==
    ASSUME TypeOK, NEW r \in Requests, CancelCommit(r)
    PROVE  TypeOK'
<1>1. NoSale("DELETED") \in SaleRow
    BY NoSaleType DEF Statuses
<1> QED BY <1>1, LeaveType DEF TypeOK, CancelCommit, InvTypeOK, invVars

LEMMA VoidCommitType ==
    ASSUME TypeOK, NEW r \in Requests, VoidCommit(r)
    PROVE  TypeOK'
<1>1. sale' = [sale EXCEPT ![txn[r].sale] = Flush(VoidRow(r), txn[r].read, @)]
    BY DEF VoidCommit, VoidRow
<1>2. sale' \in [Sales -> SaleRow]
    BY <1>1, OtherRowType, FlushOverType
<1>3. restores' \in [Sales -> Nat] /\ rolled' \in [Sales -> Int]
    BY TxnType DEF TypeOK, VoidCommit
<1>4. InvTypeOK'
    BY CommitStockType DEF TypeOK, VoidCommit
<1> QED BY <1>2, <1>3, <1>4, LeaveType DEF TypeOK, VoidCommit

LEMMA BackgroundType ==
    ASSUME TypeOK, NEW r \in Requests,
           GenerateDocument(r) \/ ReadOutbox(r) \/ ApplyRollup(r)
    PROVE  TypeOK'
<1>1. CASE GenerateDocument(r)
    <2>1. doc' \in [Sales -> BOOLEAN]
        BY <1>1, TxnType DEF TypeOK, GenerateDocument, Present
    <2>2. pc' \in [Requests -> Points] /\ txn' \in [Requests -> Txn]
        BY <1>1, LeaveType DEF TypeOK, GenerateDocument, Points
    <2> QED BY <1>1, <2>1, <2>2 DEF TypeOK, GenerateDocument, InvTypeOK, invVars
<1>2. CASE ReadOutbox(r)
    <2>1. pc' \in [Requests -> Points] /\ txn' \in [Requests -> Txn]
        BY <1>2, LeaveType DEF TypeOK, ReadOutbox, Points
    <2>2. raced' \in [Sales -> SUBSET {"requests", "rollups"}]
        BY <1>2 DEF TypeOK, ReadOutbox
    <2> QED BY <1>2, <2>1, <2>2 DEF TypeOK, ReadOutbox, InvTypeOK, invVars, saleVars
<1>3. CASE ApplyRollup(r)
    <2>1. outbox' \in [Sales -> {"ABSENT", "PENDING", "DONE", "FAILED"}]
        BY <1>3 DEF TypeOK, ApplyRollup
    <2>2. rolled' \in [Sales -> Int]
        BY <1>3, TxnType DEF TypeOK, ApplyRollup
    <2> QED BY <1>3, <2>1, <2>2, LeaveType DEF TypeOK, ApplyRollup, InvTypeOK, invVars
<1> QED BY <1>1, <1>2, <1>3

LEMMA SaleStepType ==
    ASSUME TypeOK, NEW s \in Sales, Stage(s) \/ ViewReceipt(s)
    PROVE  TypeOK'
<1>1. CASE Stage(s)
    <2>1. NoSale("PENDING_PAYMENT") \in SaleRow
        BY NoSaleType DEF Statuses, Outstanding
    <2> QED BY <1>1, <2>1 DEF TypeOK, Stage, InvTypeOK, invVars
<1>2. CASE ViewReceipt(s)
    BY <1>2 DEF TypeOK, ViewReceipt, InvTypeOK, invVars
<1> QED BY <1>1, <1>2

-----------------------------------------------------------------------------
\* A request that is about to move the material of a service has a service in
\* hand.  MoveMaterial is typed only together with this.
ServiceInHand == \A r \in Requests : pc[r] = "material" => txn[r].service \in Services

Typed == TypeOK /\ ServiceInHand

LEMMA ServiceInHandStep ==
    ASSUME Typed, [Next]_vars
    PROVE  ServiceInHand'
<1> SUFFICES ASSUME NEW q \in Requests, pc'[q] = "material"
             PROVE  txn'[q].service \in Services
    BY DEF ServiceInHand
<1>1. pc \in [Requests -> Points] /\ txn \in [Requests -> Txn]
    BY DEF Typed, TypeOK
<1>2. CASE \E r \in Requests, svc \in Rows : MoveService(r, svc)
    BY <1>1, <1>2 DEF MoveService, ItemDone, Typed, ServiceInHand, Txn
<1>3. CASE pc'[q] = pc[q] /\ txn'[q] = txn[q]
    BY <1>3 DEF Typed, ServiceInHand
<1>4. CASE \E r \in Requests : Arrive(r) \/ StockRoom(r)
    <2>1. PICK r \in Requests : Arrive(r) \/ StockRoom(r)
        BY <1>4
    <2>2. pc' = [pc EXCEPT ![r] = pc'[r]] /\ pc'[r] # "material"
        BY <1>1, <2>1 DEF Arrive, BeginFinalize, BeginCollect, BeginCancel, BeginVoid, Begin,
                          StockRoom
    <2>3. q # r /\ pc[q] = "material"
        BY <1>1, <2>2
    <2>4. txn'[q] = txn[q]
        BY <1>1, <2>1, <2>3 DEF Arrive, BeginFinalize, BeginCollect, BeginCancel, BeginVoid,
                                Begin, StockRoom
    <2> QED BY <2>3, <2>4 DEF Typed, ServiceInHand
<1>5. CASE \E r \in Requests, row \in Rows : MoveProduct(r, row)
    BY <1>1, <1>5 DEF MoveProduct, ItemDone, Typed, ServiceInHand
<1>6. CASE \E r \in Requests : MoveMaterial(r)
    BY <1>1, <1>6 DEF MoveMaterial, ItemDone, Typed, ServiceInHand
<1>7. CASE \E r \in Requests : FinalizeCommit(r) \/ FinalizeSync(r) \/ CollectCommit(r)
    BY <1>1, <1>7 DEF FinalizeCommit, FinalizeSync, CollectCommit, Typed, ServiceInHand
<1>8. CASE \E r \in Requests : CollectNothingDue(r) \/ CancelCommit(r) \/ VoidCommit(r)
    BY <1>1, <1>8 DEF CollectNothingDue, CancelCommit, VoidCommit, Leave, Typed, ServiceInHand
<1>9. CASE \E r \in Requests : Abandon(r)
    BY <1>1, <1>9 DEF Abandon, Leave, Typed, ServiceInHand
<1>10. CASE \E r \in Requests : GenerateDocument(r) \/ ReadOutbox(r) \/ ApplyRollup(r)
    BY <1>1, <1>10 DEF GenerateDocument, ReadOutbox, ApplyRollup, Leave, Typed, ServiceInHand
<1>11. CASE (\E s \in Sales : Stage(s) \/ ViewReceipt(s)) \/ UNCHANGED vars
    BY <1>11, <1>3 DEF Stage, ViewReceipt, vars
<1> QED BY <1>2, <1>4, <1>5, <1>6, <1>7, <1>8, <1>9, <1>10, <1>11
        DEF Next, Work, OutOfStock, DeadlockVictim, SaleGone, Fail

LEMMA TypeStep ==
    ASSUME Typed, [Next]_vars
    PROVE  TypeOK'
<1>1. TypeOK /\ ServiceInHand
    BY DEF Typed
<1>2. CASE \E s \in Sales : Stage(s) \/ ViewReceipt(s)
    BY <1>1, <1>2, SaleStepType
<1>3. CASE \E r \in Requests : Arrive(r) \/ StockRoom(r)
    BY <1>1, <1>3, ArriveType, StockRoomType
<1>4. CASE \E r \in Requests, row \in Rows : MoveProduct(r, row) \/ MoveService(r, row)
    BY <1>1, <1>4, MoveType
<1>5. CASE \E r \in Requests : MoveMaterial(r)
    BY <1>1, <1>5, MoveMaterialType DEF ServiceInHand, MoveMaterial
<1>6. CASE \E r \in Requests : Abandon(r)
    BY <1>1, <1>6, AbandonType
<1>7. CASE \E r \in Requests : FinalizeCommit(r) \/ FinalizeSync(r)
    BY <1>1, <1>7, FinalizeCommitType, FinalizeSyncType
<1>8. CASE \E r \in Requests : CollectCommit(r) \/ CollectNothingDue(r)
    BY <1>1, <1>8, CollectCommitType, CollectNothingDueType
<1>9. CASE \E r \in Requests : CancelCommit(r) \/ VoidCommit(r)
    BY <1>1, <1>9, CancelCommitType, VoidCommitType
<1>10. CASE \E r \in Requests : GenerateDocument(r) \/ ReadOutbox(r) \/ ApplyRollup(r)
    BY <1>1, <1>10, BackgroundType
<1>11. CASE UNCHANGED vars
    BY <1>1, <1>11 DEF TypeOK, InvTypeOK, vars, invVars, saleVars
<1> QED BY <1>2, <1>3, <1>4, <1>5, <1>6, <1>7, <1>8, <1>9, <1>10, <1>11
        DEF Next, Work, OutOfStock, DeadlockVictim, SaleGone, Fail

LEMMA InitTyped == Init => Typed
<1> SUFFICES ASSUME Init PROVE Typed
    OBVIOUS
<1>1. InvTypeOK
    BY InventoryAssumption DEF Init, InvInit, InvTypeOK, EmptyCopy
<1>2. NoSale("UNSTAGED") \in SaleRow
    BY NoSaleType DEF Statuses
<1> QED BY <1>1, <1>2, BlankType DEF Init, Typed, TypeOK, ServiceInHand, Points

LEMMA TypedAlways == Spec => []Typed
<1>1. Init => Typed
    BY InitTyped
<1>2. Typed /\ [Next]_vars => Typed'
    BY TypeStep, ServiceInHandStep DEF Typed
<1> QED BY <1>1, <1>2, PTL DEF Spec

\* Every variable keeps its type: in particular no amount, balance or counter
\* of a sale ever goes below zero.
THEOREM TypeCorrect == Spec => []TypeOK
<1>1. Typed => TypeOK
    BY DEF Typed
<1> QED BY <1>1, TypedAlways, PTL

-----------------------------------------------------------------------------
(* Money.  A handler writes columns computed from what it read some time     *)
(* ago, over what the table holds now.  The invariants survive because       *)
(* payment rows of a sale that exists only ever accumulate, so what a        *)
(* request read of them stays a lower bound.                                 *)


\* The outstanding balance of the sale, as shown, covers what is unpaid.
Owes(s) == sale[s].balanceDue + payments[s] >= Total[s]

\* A balance is only ever written so that it covers what is unpaid; a staged
\* sale shows none until a handler writes one.
SaleMoney(s) ==
    /\ sale[s].status = "COMPLETED" => payments[s] >= Total[s]
    /\ sale[s].amountPaid <= payments[s]
    /\ Present(s) /\ (cuts[s] > 0 \/ sale[s].balanceDue > 0) => Owes(s)
    /\ sale[s].status = "UNSTAGED" => cuts[s] = 0

\* What a request in the middle of its handler knows about its sale.
Informed(r) ==
    LET s == txn[r].sale
    IN  /\ sale[s].status # "UNSTAGED"
        /\ Present(s) =>
             /\ pc[r] # "sync" => txn[r].prior <= payments[s]
             /\ txn[r].read.balanceDue > 0 => Owes(s)
             /\ pc[r] = "sync" => Owes(s)
             /\ pc[r] = "sync" /\ txn[r].read.status = "COMPLETED" => payments[s] >= Total[s]

MoneyInv ==
    /\ \A s \in Sales : SaleMoney(s)
    /\ \A r \in Requests : InFlight(r) => Informed(r)

\* What a step may do to a sale that other requests are working on: payments
\* accumulate, and a balance that covers what is unpaid goes on doing so.
Grows(s) ==
    sale[s].status # "UNSTAGED" =>
        /\ sale'[s].status # "UNSTAGED"
        /\ Present(s)' => Present(s) /\ payments[s] <= payments'[s] /\ (Owes(s) => Owes(s)')

LEMMA InformedKept ==
    ASSUME TypeOK, TypeOK', MoneyInv, NEW q \in Requests,
           NEW s \in Sales, s = txn[q].sale, Grows(s),
           InFlight(q)', pc'[q] = pc[q], txn'[q] = txn[q]
    PROVE  Informed(q)'
<1>1. /\ s \in Sales /\ Total[s] \in Nat /\ txn[q].prior \in Nat
      /\ payments[s] \in Nat /\ payments'[s] \in Nat
    BY TxnType DEF TypeOK
<1>2. Informed(q)
    BY DEF InFlight, MoneyInv
<1>3. sale'[s].status # "UNSTAGED"
    BY <1>2 DEF Informed, Grows
<1>4. ASSUME Present(s)'
      PROVE  /\ pc[q] # "sync" => txn[q].prior <= payments'[s]
             /\ txn[q].read.balanceDue > 0 => Owes(s)'
             /\ pc[q] = "sync" => Owes(s)'
             /\ pc[q] = "sync" /\ txn[q].read.status = "COMPLETED" => payments'[s] >= Total[s]
    <2>1. Present(s) /\ payments[s] <= payments'[s] /\ (Owes(s) => Owes(s)')
        BY <1>2, <1>4 DEF Informed, Grows
    <2>2. Owes(s) \/ ~(txn[q].read.balanceDue > 0 \/ pc[q] = "sync")
        BY <1>2, <2>1 DEF Informed
    <2>3. pc[q] # "sync" => txn[q].prior <= payments[s]
        BY <1>2, <2>1 DEF Informed
    <2>4. pc[q] = "sync" /\ txn[q].read.status = "COMPLETED" => payments[s] >= Total[s]
        BY <1>2, <2>1 DEF Informed
    <2> QED BY <1>1, <2>1, <2>2, <2>3, <2>4
<1> QED BY <1>3, <1>4 DEF Informed, Present

\* A sale that a step does not touch.
LEMMA Untouched ==
    ASSUME TypeOK, NEW s \in Sales, SaleMoney(s),
           sale'[s] = sale[s], payments'[s] = payments[s], cuts'[s] = cuts[s]
    PROVE  SaleMoney(s)' /\ Grows(s)
BY DEF SaleMoney, Grows, Present, Owes, TypeOK

\* A flush over the row in the table: it is enough that each column it changes
\* is right, and that the first cut finds or leaves the sale covered.
LEMMA FlushKeepsMoney ==
    ASSUME TypeOK, NEW s \in Sales, SaleMoney(s), Present(s),
           NEW wanted \in SaleRow, NEW read \in SaleRow,
           sale'[s] = Flush(wanted, read, sale[s]),
           payments'[s] \in Nat, payments'[s] >= payments[s],
           cuts'[s] \in Nat, cuts'[s] >= cuts[s],
           wanted.status # read.status => wanted.status \notin {"UNSTAGED", "DELETED"},
           wanted.status = "COMPLETED" /\ read.status # "COMPLETED" => payments'[s] >= Total[s],
           wanted.amountPaid # read.amountPaid => wanted.amountPaid <= payments'[s],
           wanted.balanceDue # read.balanceDue => wanted.balanceDue + payments'[s] >= Total[s],
           cuts'[s] > cuts[s] =>
               \/ wanted.balanceDue # read.balanceDue
               \/ payments'[s] >= Total[s]
               \/ Owes(s)
    PROVE  SaleMoney(s)' /\ Grows(s)
<1>1. /\ sale[s] \in SaleRow /\ payments[s] \in Nat /\ Total[s] \in Nat /\ cuts[s] \in Nat
    BY CheckoutAssumption DEF TypeOK
<1>2. /\ sale[s].amountPaid \in Nat /\ sale[s].balanceDue \in Nat
      /\ wanted.amountPaid \in Nat /\ wanted.balanceDue \in Nat
    BY <1>1 DEF SaleRow
<1>3. /\ sale'[s].status \in {sale[s].status, wanted.status}
      /\ sale'[s].status # sale[s].status =>
             sale'[s].status = wanted.status /\ wanted.status # read.status
      /\ sale'[s].amountPaid = IF wanted.amountPaid = read.amountPaid
                               THEN sale[s].amountPaid ELSE wanted.amountPaid
      /\ sale'[s].balanceDue = IF wanted.balanceDue = read.balanceDue
                               THEN sale[s].balanceDue ELSE wanted.balanceDue
    BY DEF Flush
<1>4. sale'[s].status \notin {"UNSTAGED", "DELETED"}
    BY <1>3 DEF Present
<1>5. sale'[s].status = "COMPLETED" => payments'[s] >= Total[s]
    BY <1>1, <1>3 DEF SaleMoney
<1>6. sale'[s].amountPaid <= payments'[s]
    BY <1>1, <1>2, <1>3 DEF SaleMoney
<1>7. Owes(s) => Owes(s)'
    BY <1>1, <1>2, <1>3 DEF Owes
<1>8. cuts'[s] > 0 \/ sale'[s].balanceDue > 0 => Owes(s)'
    <2>1. CASE wanted.balanceDue # read.balanceDue
        BY <2>1, <1>1, <1>2, <1>3 DEF Owes
    <2>2. CASE wanted.balanceDue = read.balanceDue
        <3>1. sale'[s].balanceDue = sale[s].balanceDue
            BY <2>2, <1>3
        <3>2. cuts[s] > 0 \/ sale[s].balanceDue > 0 => Owes(s)
            BY DEF SaleMoney
        <3>3. payments'[s] >= Total[s] => Owes(s)'
            BY <3>1, <1>1, <1>2 DEF Owes
        <3>4. cuts'[s] > cuts[s] => Owes(s)'
            BY <2>2, <3>3, <1>7
        <3>5. cuts'[s] = cuts[s] \/ cuts'[s] > cuts[s]
            BY <1>1
        <3> QED BY <3>1, <3>2, <3>4, <3>5, <1>7
    <2> QED BY <2>1, <2>2
<1> QED BY <1>1, <1>4, <1>5, <1>6, <1>7, <1>8 DEF SaleMoney, Grows, Present

LEMMA FlushWithoutCut ==
    ASSUME TypeOK, NEW s \in Sales, SaleMoney(s), Present(s),
           NEW wanted \in SaleRow, NEW read \in SaleRow,
           sale'[s] = Flush(wanted, read, sale[s]),
           payments'[s] \in Nat, payments'[s] >= payments[s], cuts' = cuts,
           wanted.status # read.status => wanted.status \notin {"UNSTAGED", "DELETED"},
           wanted.status = "COMPLETED" /\ read.status # "COMPLETED" => payments'[s] >= Total[s],
           wanted.amountPaid # read.amountPaid => wanted.amountPaid <= payments'[s],
           wanted.balanceDue # read.balanceDue => wanted.balanceDue + payments'[s] >= Total[s]
    PROVE  SaleMoney(s)' /\ Grows(s)
<1>1. cuts'[s] \in Nat /\ cuts'[s] >= cuts[s] /\ ~(cuts'[s] > cuts[s])
    BY DEF TypeOK
<1> QED BY <1>1, FlushKeepsMoney

-----------------------------------------------------------------------------
(* The steps that write the money columns of a sale. *)

LEMMA FinalizeCommitMoney ==
    ASSUME TypeOK, TypeOK', MoneyInv, NEW r \in Requests, NEW s \in Sales, s = txn[r].sale,
           FinalizeCommit(r)
    PROVE  /\ SaleMoney(s)' /\ Grows(s)
           /\ Informed(r)'
<1> DEFINE applied == FinalizeApplied(r)
           wanted == FinalizeRow(r)
<1>1. /\ s \in Sales /\ Total[s] \in Nat /\ payments[s] \in Nat /\ cuts[s] \in Nat
      /\ sale[s] \in SaleRow /\ txn[r].read \in SaleRow /\ wanted \in SaleRow
      /\ applied \in Nat /\ payments'[s] \in Nat /\ cuts'[s] \in Nat
    BY TxnType, FinalizeRowType DEF TypeOK
<1>2. /\ sale'[s] = Flush(wanted, txn[r].read, sale[s])
      /\ payments'[s] = payments[s] + applied
      /\ cuts'[s] = cuts[s] + 1
      /\ txn'[r].read = wanted /\ txn'[r].sale = s /\ pc'[r] = "sync"
    BY <1>1 DEF FinalizeCommit, FinalizeRow, FinalizeStatus, FinalizeApplied, TypeOK, Txn
<1>3. Present(s) /\ SaleMoney(s) /\ Informed(r)
    BY <1>1 DEF FinalizeCommit, AtCommit, MoneyInv, InFlight
<1>4. wanted.status \in Outstanding \cup {"COMPLETED"} /\ wanted.amountPaid = applied
    BY FinalizeRowType
<1>5. wanted.status = "COMPLETED" => applied >= Total[s]
    BY <1>1, <1>4, FinalizeRowType, RemainingType DEF FinalizeStatus, StatusAfter
<1>6. wanted.balanceDue + applied >= Total[s] /\ wanted.balanceDue \in Nat
    <2>1. wanted.balanceDue \in Nat
        BY <1>1 DEF SaleRow
    <2>2. Remaining(Total[s], applied) + applied >= Total[s]
        BY <1>1, RemainingType
    <2>3. wanted.balanceDue = IF wanted.status = "COMPLETED" THEN 0
                              ELSE Remaining(Total[s], applied)
        BY FinalizeRowType
    <2> QED BY <1>1, <1>5, <2>1, <2>2, <2>3
<1>7. txn[r].read.balanceDue > 0 => Owes(s)
    BY <1>3 DEF Informed
<1>8. \/ wanted.balanceDue # txn[r].read.balanceDue
      \/ payments'[s] >= Total[s]
      \/ Owes(s)
    BY <1>1, <1>2, <1>6, <1>7
<1>9. SaleMoney(s)' /\ Grows(s)
    <2>1. payments'[s] >= payments[s] /\ cuts'[s] >= cuts[s]
        BY <1>1, <1>2
    <2>2. wanted.status # txn[r].read.status => wanted.status \notin {"UNSTAGED", "DELETED"}
        BY <1>4 DEF Outstanding
    <2>3. wanted.status = "COMPLETED" => payments'[s] >= Total[s]
        BY <1>1, <1>2, <1>5
    <2>4. wanted.amountPaid <= payments'[s] /\ wanted.balanceDue + payments'[s] >= Total[s]
        BY <1>1, <1>2, <1>4, <1>6
    <2> QED BY <1>1, <1>2, <1>3, <1>8, <2>1, <2>2, <2>3, <2>4, FlushKeepsMoney
<1>10. Informed(r)'
    <2>1. sale'[s].status # "UNSTAGED"
        BY <1>3, <1>9 DEF Grows, Present
    <2>2. Present(s)' => Owes(s)'
        BY <1>1, <1>2, <1>9 DEF SaleMoney
    <2>3. wanted.status = "COMPLETED" => payments'[s] >= Total[s]
        BY <1>1, <1>2, <1>5
    <2> QED BY <1>2, <2>1, <2>2, <2>3 DEF Informed, Present, Owes
<1> QED BY <1>9, <1>10

LEMMA FinalizeSyncMoney ==
    ASSUME TypeOK, TypeOK', MoneyInv, NEW r \in Requests, NEW s \in Sales, s = txn[r].sale,
           FinalizeSync(r),
           Present(s)
    PROVE  SaleMoney(s)' /\ Grows(s)
<1> DEFINE wanted == SyncRow(r)
<1>1. /\ s \in Sales /\ Total[s] \in Nat /\ payments[s] \in Nat /\ cuts[s] \in Nat
      /\ sale[s] \in SaleRow /\ txn[r].read \in SaleRow /\ wanted \in SaleRow
    BY TxnType, SyncRowType DEF TypeOK
<1>2. /\ sale'[s] = Flush(wanted, txn[r].read, sale[s])
      /\ payments' = payments /\ cuts' = cuts
    BY <1>1 DEF FinalizeSync, SyncRow, TypeOK
<1>3. SaleMoney(s) /\ Informed(r) /\ pc[r] = "sync"
    BY <1>1 DEF FinalizeSync, MoneyInv, InFlight
<1>4. wanted.status = txn[r].read.status /\ wanted.amountPaid = payments[s]
    BY SyncRowType
<1>5. txn[r].read.status = "COMPLETED" => payments[s] >= Total[s]
    BY <1>3 DEF Informed
<1>6. wanted.balanceDue + payments[s] >= Total[s]
    <2>1. Remaining(Total[s], payments[s]) + payments[s] >= Total[s]
        BY <1>1, RemainingType
    <2>2. wanted.balanceDue = IF txn[r].read.status = "COMPLETED" THEN 0
                              ELSE Remaining(Total[s], payments[s])
        BY SyncRowType
    <2> QED BY <1>1, <1>5, <2>1, <2>2
<1>7. payments'[s] = payments[s] /\ payments'[s] >= payments[s] /\ wanted.amountPaid <= payments'[s]
    BY <1>1, <1>2, <1>4
<1> QED BY <1>1, <1>2, <1>3, <1>4, <1>6, <1>7, FlushWithoutCut

LEMMA CollectCommitMoney ==
    ASSUME TypeOK, TypeOK', MoneyInv, NEW r \in Requests, NEW s \in Sales, s = txn[r].sale,
           CollectCommit(r)
    PROVE  SaleMoney(s)' /\ Grows(s)
<1> DEFINE applied == CollectApplied(r)
           prior == txn[r].prior
           wanted == CollectRow(r)
<1>1. /\ s \in Sales /\ Total[s] \in Nat /\ payments[s] \in Nat /\ cuts[s] \in Nat
      /\ sale[s] \in SaleRow /\ txn[r].read \in SaleRow /\ wanted \in SaleRow
      /\ applied \in Nat /\ prior \in Nat /\ Owed(r) \in Nat /\ payments'[s] \in Nat
    BY TxnType, CollectRowType DEF TypeOK
<1>2. /\ sale'[s] = Flush(wanted, txn[r].read, sale[s])
      /\ payments'[s] = payments[s] + applied
      /\ cuts' = cuts
    BY <1>1 DEF CollectCommit, CollectRow, CollectStatus, CollectApplied, TypeOK
<1>3. Present(s) /\ SaleMoney(s) /\ prior <= payments[s]
    BY <1>1 DEF CollectCommit, AtCommit, MoneyInv, InFlight, Informed
<1>4. wanted.status \in Outstanding \cup {"COMPLETED"} /\ wanted.amountPaid = prior + applied
    BY CollectRowType
<1>5. wanted.status = "COMPLETED" => prior + applied >= Total[s]
    <2>1. wanted.status = "COMPLETED" => applied >= Owed(r)
        BY <1>1, CollectRowType, RemainingType DEF CollectStatus, StatusAfter
    <2>2. Owed(r) + prior >= Total[s]
        BY <1>1, RemainingType DEF Owed
    <2> QED BY <1>1, <2>1, <2>2
<1>6. wanted.balanceDue + (prior + applied) >= Total[s] /\ wanted.balanceDue \in Nat
    <2>1. prior + applied \in Nat /\ wanted.balanceDue \in Nat
        BY <1>1 DEF SaleRow
    <2>2. Remaining(Total[s], prior + applied) + (prior + applied) >= Total[s]
        BY <1>1, <2>1, RemainingType
    <2>3. wanted.balanceDue = IF wanted.status = "COMPLETED" THEN 0
                              ELSE Remaining(Total[s], prior + applied)
        BY CollectRowType
    <2> QED BY <1>1, <1>5, <2>1, <2>2, <2>3
<1>7. prior + applied <= payments'[s] /\ payments'[s] >= payments[s]
    BY <1>1, <1>2, <1>3
<1>8. wanted.status \notin {"UNSTAGED", "DELETED"}
    BY <1>4 DEF Outstanding
<1>9. wanted.balanceDue + payments'[s] >= Total[s]
    BY <1>1, <1>6, <1>7
<1>10. wanted.status = "COMPLETED" => payments'[s] >= Total[s]
    BY <1>1, <1>5, <1>7
<1> QED BY <1>1, <1>2, <1>3, <1>4, <1>7, <1>8, <1>9, <1>10, FlushWithoutCut

LEMMA CollectNothingDueMoney ==
    ASSUME TypeOK, TypeOK', MoneyInv, NEW r \in Requests, NEW s \in Sales, s = txn[r].sale,
           CollectNothingDue(r)
    PROVE  SaleMoney(s)' /\ Grows(s)
<1>1. /\ s \in Sales /\ Total[s] \in Nat /\ payments[s] \in Nat /\ cuts[s] \in Nat
      /\ sale[s] \in SaleRow /\ txn[r].read \in SaleRow /\ ClosedRow(r) \in SaleRow
      /\ txn[r].prior \in Nat
    BY TxnType, OtherRowType DEF TypeOK
<1>2. /\ sale'[s] = Flush(ClosedRow(r), txn[r].read, sale[s])
      /\ payments' = payments /\ cuts' = cuts
    BY <1>1 DEF CollectNothingDue, ClosedRow, TypeOK
<1>3. Present(s) /\ SaleMoney(s) /\ txn[r].prior <= payments[s]
    BY <1>1 DEF CollectNothingDue, AtCommit, MoneyInv, InFlight, Informed
<1>4. payments[s] >= Total[s]
    BY <1>1, <1>3, RemainingType DEF CollectNothingDue, Owed
<1>5. payments'[s] = payments[s] /\ payments'[s] >= payments[s]
    BY <1>1, <1>2
<1> QED BY <1>1, <1>2, <1>3, <1>4, <1>5, OtherRowType, FlushWithoutCut

LEMMA VoidCommitMoney ==
    ASSUME TypeOK, TypeOK', MoneyInv, NEW r \in Requests, NEW s \in Sales, s = txn[r].sale,
           VoidCommit(r)
    PROVE  SaleMoney(s)' /\ Grows(s)
<1>1. /\ s \in Sales /\ Total[s] \in Nat /\ payments[s] \in Nat /\ cuts[s] \in Nat
      /\ sale[s] \in SaleRow /\ txn[r].read \in SaleRow /\ VoidRow(r) \in SaleRow
    BY TxnType, OtherRowType DEF TypeOK
<1>2. /\ sale'[s] = Flush(VoidRow(r), txn[r].read, sale[s])
      /\ payments' = payments /\ cuts' = cuts
    BY <1>1 DEF VoidCommit, VoidRow, TypeOK
<1>3. Present(s) /\ SaleMoney(s)
    BY <1>1 DEF VoidCommit, AtCommit, MoneyInv
<1>4. payments'[s] = payments[s] /\ payments'[s] >= payments[s]
    BY <1>1, <1>2
<1> QED BY <1>1, <1>2, <1>3, <1>4, OtherRowType, FlushWithoutCut

LEMMA CancelCommitMoney ==
    ASSUME TypeOK, NEW r \in Requests, NEW s \in Sales, s = txn[r].sale,
           CancelCommit(r)
    PROVE  SaleMoney(s)' /\ Grows(s)
<1>1. s \in Sales
    BY TxnType
<1>2. sale'[s] = NoSale("DELETED") /\ payments'[s] = 0
    BY <1>1 DEF CancelCommit, TypeOK
<1>3. /\ sale'[s].status = "DELETED" /\ sale'[s].amountPaid = 0
    BY <1>2 DEF NoSale
<1> QED BY <1>2, <1>3 DEF SaleMoney, Grows, Present

LEMMA StageMoney ==
    ASSUME TypeOK, MoneyInv, NEW s \in Sales, Stage(s)
    PROVE  SaleMoney(s)' /\ Grows(s)
<1>1. sale'[s] = NoSale("PENDING_PAYMENT") /\ payments' = payments /\ cuts' = cuts
    BY DEF Stage, TypeOK
<1>2. payments[s] \in Nat /\ cuts[s] = 0 /\ sale[s].status = "UNSTAGED"
    BY DEF Stage, TypeOK, MoneyInv, SaleMoney
<1> QED BY <1>1, <1>2 DEF SaleMoney, Grows, Present, NoSale

-----------------------------------------------------------------------------
\* A step of one request: enough that every sale keeps its money invariant and
\* grows, and that the request itself is informed if it goes on.
LEMMA MoneyFrame ==
    ASSUME TypeOK, TypeOK', MoneyInv, NEW r \in Requests,
           \A q \in Requests \ {r} : pc'[q] = pc[q] /\ txn'[q] = txn[q],
           \A s \in Sales : SaleMoney(s)' /\ Grows(s),
           InFlight(r)' => Informed(r)'
    PROVE  MoneyInv'
<1> SUFFICES ASSUME NEW q \in Requests, q # r, InFlight(q)'
             PROVE  Informed(q)'
    BY DEF MoneyInv
<1>1. PICK s \in Sales : s = txn[q].sale
    BY TxnType
<1> QED BY <1>1, InformedKept

\* A step of one request that writes one sale.
LEMMA MoneyWrite ==
    ASSUME TypeOK, TypeOK', MoneyInv, NEW r \in Requests, NEW s \in Sales,
           \A q \in Requests \ {r} : pc'[q] = pc[q] /\ txn'[q] = txn[q],
           \A t \in Sales \ {s} : /\ sale'[t] = sale[t]
                                  /\ payments'[t] = payments[t]
                                  /\ cuts'[t] = cuts[t],
           SaleMoney(s)' /\ Grows(s),
           InFlight(r)' => Informed(r)'
    PROVE  MoneyInv'
<1>1. ASSUME NEW t \in Sales PROVE SaleMoney(t)' /\ Grows(t)
    <2>1. SaleMoney(t)
        BY DEF MoneyInv
    <2> QED BY <2>1, Untouched
<1> QED BY <1>1, MoneyFrame

\* A step of one request that writes no sale.
LEMMA MoneySame ==
    ASSUME TypeOK, TypeOK', MoneyInv, NEW r \in Requests,
           \A q \in Requests \ {r} : pc'[q] = pc[q] /\ txn'[q] = txn[q],
           UNCHANGED <<sale, payments, cuts>>,
           InFlight(r)' => Informed(r)'
    PROVE  MoneyInv'
<1>1. ASSUME NEW t \in Sales PROVE SaleMoney(t)' /\ Grows(t)
    <2>1. SaleMoney(t)
        BY DEF MoneyInv
    <2> QED BY <2>1, Untouched
<1> QED BY <1>1, MoneyFrame

LEMMA BeginMoney ==
    ASSUME TypeOK, TypeOK', MoneyInv, NEW r \in Requests, Arrive(r)
    PROVE  MoneyInv'
<1>1. PICK s \in Sales :
        /\ Present(s)
        /\ \E op, given, todo : Begin(r, op, s, given, todo)
    BY DEF Arrive, BeginFinalize, BeginCollect, BeginCancel, BeginVoid, Present, Outstanding
<1>2. /\ UNCHANGED <<sale, payments, cuts>>
      /\ pc'[r] \in {"commit", "items"}
      /\ txn'[r].sale = s /\ txn'[r].prior = payments[s] /\ txn'[r].read = sale[s]
      /\ \A q \in Requests \ {r} : pc'[q] = pc[q] /\ txn'[q] = txn[q]
    BY <1>1 DEF Begin, TypeOK, saleVars, Blank
<1>3. SaleMoney(s) /\ sale[s].balanceDue \in Nat /\ payments[s] \in Nat
    BY DEF MoneyInv, TypeOK, SaleRow
<1>4. sale[s].balanceDue > 0 => Owes(s)
    BY <1>1, <1>3 DEF SaleMoney
<1>5. Informed(r)'
    BY <1>1, <1>2, <1>3, <1>4 DEF Informed, Present, Owes
<1> QED BY <1>2, <1>5, MoneySame

LEMMA ItemsMoney ==
    ASSUME TypeOK, TypeOK', MoneyInv, NEW r \in Requests,
           (\E row \in Rows : MoveProduct(r, row) \/ MoveService(r, row)) \/ MoveMaterial(r)
    PROVE  MoneyInv'
<1>1. /\ UNCHANGED <<sale, payments, cuts>>
      /\ pc[r] \in {"items", "material"} /\ pc'[r] \in {"items", "material", "commit"}
      /\ txn'[r].sale = txn[r].sale
      /\ txn'[r].prior = txn[r].prior
      /\ txn'[r].read = txn[r].read
      /\ \A q \in Requests \ {r} : pc'[q] = pc[q] /\ txn'[q] = txn[q]
    <2>1. CASE \E row \in Rows : MoveProduct(r, row)
        BY <2>1 DEF MoveProduct, ItemDone, TypeOK, Txn, saleVars
    <2>2. CASE \E row \in Rows : MoveService(r, row)
        BY <2>2 DEF MoveService, ItemDone, TypeOK, Txn, saleVars
    <2>3. CASE MoveMaterial(r)
        BY <2>3 DEF MoveMaterial, ItemDone, TypeOK, Txn, saleVars
    <2> QED BY <2>1, <2>2, <2>3
<1>2. Informed(r)
    BY <1>1 DEF MoneyInv, InFlight
<1>3. Informed(r)'
    BY <1>1, <1>2 DEF Informed, Present, Owes
<1> QED BY <1>1, <1>3, MoneySame

LEMMA LeaveFrame ==
    ASSUME TypeOK, NEW r \in Requests, Leave(r)
    PROVE  ~InFlight(r)' /\ \A q \in Requests \ {r} : pc'[q] = pc[q] /\ txn'[q] = txn[q]
BY DEF Leave, TypeOK, InFlight

LEMMA CommitMoney ==
    ASSUME TypeOK, TypeOK', MoneyInv, NEW r \in Requests,
           \/ FinalizeCommit(r) \/ FinalizeSync(r) \/ CollectCommit(r)
           \/ CollectNothingDue(r) \/ CancelCommit(r) \/ VoidCommit(r)
    PROVE  MoneyInv'
<1>1. PICK s \in Sales : s = txn[r].sale
    BY TxnType
<1> DEFINE Others == \A q \in Requests \ {r} : pc'[q] = pc[q] /\ txn'[q] = txn[q]
           Elsewhere == \A t \in Sales \ {s} : /\ sale'[t] = sale[t]
                                               /\ payments'[t] = payments[t]
                                               /\ cuts'[t] = cuts[t]
<1>2. CASE FinalizeCommit(r)
    <2>1. Others /\ Elsewhere
        BY <1>1, <1>2 DEF FinalizeCommit, TypeOK
    <2>2. SaleMoney(s)' /\ Grows(s) /\ Informed(r)'
        BY <1>1, <1>2, FinalizeCommitMoney
    <2> QED BY <2>1, <2>2, MoneyWrite
<1>3. CASE FinalizeSync(r)
    <2>1. Others /\ Elsewhere /\ ~InFlight(r)'
        BY <1>1, <1>3 DEF FinalizeSync, TypeOK, InFlight
    <2>2. CASE Present(s)
        <3>1. SaleMoney(s)' /\ Grows(s)
            BY <1>1, <1>3, <2>2, FinalizeSyncMoney
        <3> QED BY <2>1, <3>1, MoneyWrite
    <2>3. CASE ~Present(s)
        <3>1. UNCHANGED <<sale, payments, cuts>>
            BY <1>1, <1>3, <2>3 DEF FinalizeSync
        <3> QED BY <2>1, <3>1, MoneySame
    <2> QED BY <2>2, <2>3
<1>4. CASE CollectCommit(r)
    <2>1. Others /\ Elsewhere /\ ~InFlight(r)'
        BY <1>1, <1>4 DEF CollectCommit, TypeOK, InFlight
    <2>2. SaleMoney(s)' /\ Grows(s)
        BY <1>1, <1>4, CollectCommitMoney
    <2> QED BY <2>1, <2>2, MoneyWrite
<1>5. CASE CollectNothingDue(r)
    <2>1. Others /\ Elsewhere /\ ~InFlight(r)'
        BY <1>1, <1>5, LeaveFrame DEF CollectNothingDue, TypeOK
    <2>2. SaleMoney(s)' /\ Grows(s)
        BY <1>1, <1>5, CollectNothingDueMoney
    <2> QED BY <2>1, <2>2, MoneyWrite
<1>6. CASE CancelCommit(r)
    <2>1. Others /\ Elsewhere /\ ~InFlight(r)'
        BY <1>1, <1>6, LeaveFrame DEF CancelCommit, TypeOK
    <2>2. SaleMoney(s)' /\ Grows(s)
        BY <1>1, <1>6, CancelCommitMoney
    <2> QED BY <2>1, <2>2, MoneyWrite
<1>7. CASE VoidCommit(r)
    <2>1. Others /\ Elsewhere /\ ~InFlight(r)'
        BY <1>1, <1>7, LeaveFrame DEF VoidCommit, TypeOK
    <2>2. SaleMoney(s)' /\ Grows(s)
        BY <1>1, <1>7, VoidCommitMoney
    <2> QED BY <2>1, <2>2, MoneyWrite
<1> QED BY <1>2, <1>3, <1>4, <1>5, <1>6, <1>7

LEMMA StillMoney ==
    ASSUME TypeOK, TypeOK', MoneyInv, UNCHANGED <<sale, payments, cuts, pc, txn>>
    PROVE  MoneyInv'
BY DEF MoneyInv, SaleMoney, Informed, InFlight, Present, Owes

LEMMA StageMoneyInv ==
    ASSUME TypeOK, TypeOK', MoneyInv, NEW s \in Sales, Stage(s)
    PROVE  MoneyInv'
<1>1. ASSUME NEW t \in Sales PROVE SaleMoney(t)' /\ Grows(t)
    <2>1. CASE t = s
        BY <2>1, StageMoney
    <2>2. CASE t # s
        <3>1. SaleMoney(t) /\ sale'[t] = sale[t] /\ payments'[t] = payments[t]
              /\ cuts'[t] = cuts[t]
            BY <2>2 DEF MoneyInv, Stage, TypeOK
        <3> QED BY <3>1, Untouched
    <2> QED BY <2>1, <2>2
<1>2. ASSUME NEW q \in Requests, InFlight(q)' PROVE Informed(q)'
    <2>1. PICK t \in Sales : t = txn[q].sale
        BY TxnType
    <2>2. pc'[q] = pc[q] /\ txn'[q] = txn[q]
        BY DEF Stage
    <2> QED BY <1>1, <1>2, <2>1, <2>2, InformedKept
<1> QED BY <1>1, <1>2 DEF MoneyInv

LEMMA MoneyStep ==
    ASSUME Typed, Typed', MoneyInv, [Next]_vars
    PROVE  MoneyInv'
<1>1. TypeOK /\ TypeOK'
    BY DEF Typed
<1>2. CASE \E s \in Sales : Stage(s)
    BY <1>1, <1>2, StageMoneyInv
<1>3. CASE (\E s \in Sales : ViewReceipt(s)) \/ UNCHANGED vars
    BY <1>1, <1>3, StillMoney DEF ViewReceipt, vars, saleVars
<1>4. CASE \E r \in Requests : Arrive(r)
    BY <1>1, <1>4, BeginMoney
<1>5. CASE \E r \in Requests :
              (\E row \in Rows : MoveProduct(r, row) \/ MoveService(r, row)) \/ MoveMaterial(r)
    BY <1>1, <1>5, ItemsMoney
<1>6. CASE \E r \in Requests :
              \/ FinalizeCommit(r) \/ FinalizeSync(r) \/ CollectCommit(r)
              \/ CollectNothingDue(r) \/ CancelCommit(r) \/ VoidCommit(r)
    BY <1>1, <1>6, CommitMoney
<1>7. CASE \E r \in Requests : Abandon(r) \/ StockRoom(r) \/ GenerateDocument(r)
                               \/ ReadOutbox(r) \/ ApplyRollup(r)
    <2>1. PICK r \in Requests : Abandon(r) \/ StockRoom(r) \/ GenerateDocument(r)
                               \/ ReadOutbox(r) \/ ApplyRollup(r)
        BY <1>7
    <2>2. UNCHANGED <<sale, payments, cuts>>
        BY <2>1 DEF Abandon, StockRoom, GenerateDocument, ReadOutbox, ApplyRollup, saleVars
    <2>3. /\ ~InFlight(r)'
          /\ \A q \in Requests \ {r} : pc'[q] = pc[q] /\ txn'[q] = txn[q]
        <3>1. CASE Leave(r)
            BY <1>1, <3>1, LeaveFrame
        <3>2. CASE ~Leave(r)
            BY <1>1, <2>1, <3>2 DEF Abandon, StockRoom, GenerateDocument, ReadOutbox,
                                    ApplyRollup, TypeOK, InFlight
        <3> QED BY <3>1, <3>2
    <2> QED BY <1>1, <2>2, <2>3, MoneySame
<1> QED BY <1>2, <1>3, <1>4, <1>5, <1>6, <1>7
        DEF Next, Work, OutOfStock, DeadlockVictim, SaleGone, Fail

LEMMA InitMoney == Init => MoneyInv
<1> SUFFICES ASSUME Init PROVE MoneyInv
    OBVIOUS
<1>1. \A s \in Sales : sale[s] = NoSale("UNSTAGED") /\ payments[s] = 0 /\ cuts[s] = 0
    BY DEF Init
<1>2. \A r \in Requests : ~InFlight(r)
    BY DEF Init, InFlight
<1> QED BY <1>1, <1>2 DEF MoneyInv, SaleMoney, NoSale, Present

LEMMA MoneyAlways == Spec => []MoneyInv
<1>1. Init => Typed /\ MoneyInv
    BY InitTyped, InitMoney
<1>2. Typed /\ MoneyInv /\ [Next]_vars => (Typed /\ MoneyInv)'
    BY TypeStep, ServiceInHandStep, MoneyStep DEF Typed
<1> QED BY <1>1, <1>2, PTL DEF Spec

\* A sale that is marked COMPLETED has been paid in full, whatever requests for
\* it finalize, collect, cancel and void it at the same time.
THEOREM CompletedSalesArePaid == Spec => []CompletedIsPaid
<1>1. MoneyInv => CompletedIsPaid
    BY DEF MoneyInv, SaleMoney, CompletedIsPaid
<1> QED BY <1>1, MoneyAlways, PTL

\* The denormalised amount_paid column never exceeds the payment rows.
THEOREM PaidColumnIsBacked == Spec => []PaidColumnNeverOverstates
<1>1. MoneyInv => PaidColumnNeverOverstates
    BY DEF MoneyInv, SaleMoney, PaidColumnNeverOverstates
<1> QED BY <1>1, MoneyAlways, PTL

\* The denormalised balance_due column and the payment rows together cover the
\* total of every finalized sale: no lost update forgives a debt.
THEOREM DebtIsKept == Spec => []DebtNeverVanishes
<1>1. MoneyInv => DebtNeverVanishes
    BY DEF MoneyInv, SaleMoney, DebtNeverVanishes, Owes
<1> QED BY <1>1, MoneyAlways, PTL
=============================================================================
