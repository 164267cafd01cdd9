----------------------------- MODULE RaceProofs -----------------------------
(***************************************************************************)
(* Proofs about what Checkout guarantees a sale on which nothing has       *)
(* overlapped: no request on it while another was under way, or no two of  *)
(* its rollup tasks.                                                       *)
(***************************************************************************)
EXTENDS CheckoutProofs

-----------------------------------------------------------------------------
(* The inductive invariants. *)

AtWork(q, s) == InFlight(q) /\ txn[q].sale = s

\* While no requests for the sale have overlapped, at most one is between its
\* read and its last write, and what it read is still what the table holds.  So
\* a void knows whether the items were given back.
AloneOn(s) ==
    "requests" \notin raced[s] =>
        /\ \A q, r \in Requests : AtWork(q, s) /\ AtWork(r, s) => q = r
        /\ \A r \in Requests : AtWork(r, s) /\ pc[r] # "sync" =>
              txn[r].read = sale[s] /\ txn[r].prior = payments[s]
        /\ restores[s] <= 1
        /\ Present(s) /\ restores[s] > 0 => sale[s].refunded

AloneInv ==
    /\ \A s \in Sales : AloneOn(s)
    /\ \A s \in Sales : sale[s].status = "UNSTAGED" => restores[s] = 0
    /\ \A r \in Requests : txn[r].op = "cancel" => txn[r].prior = 0

Rolling(q, s) == pc[q] = "rollup" /\ txn[q].sale = s

\* While no rollup tasks of the sale have overlapped, at most one is between its
\* look at the outbox row and its commit, and the row says DONE exactly when the
\* sale was counted; a cancelled sale has no row and is not counted any more.
CountedOn(s) ==
    "rollups" \notin raced[s] =>
        /\ rolled[s] <= 1
        /\ \A q, r \in Requests : Rolling(q, s) /\ Rolling(r, s) => q = r
        /\ sale[s].status # "DELETED" =>
              /\ rolled[s] > 0 => outbox[s] = "DONE"
              /\ \A r \in Requests : Rolling(r, s) => outbox[s] # "DONE"

CountedInv == \A s \in Sales : CountedOn(s)

-----------------------------------------------------------------------------
(* What the flushes leave of the rest of the row. *)

\* A flush of a row that has the refunded flag that was read keeps the flag of
\* the table, and a flush never takes a sale out of existence or back to it.
LEMMA FlushFields ==
    ASSUME NEW wanted, NEW read, NEW now
    PROVE  /\ Flush(wanted, read, now).refunded =
                  IF wanted.refunded = read.refunded THEN now.refunded ELSE wanted.refunded
           /\ Flush(wanted, read, now).status =
                  IF wanted.status = read.status THEN now.status ELSE wanted.status
BY DEF Flush

LEMMA SyncedRefunded ==
    ASSUME NEW s, NEW row \in SaleRow, NEW status, NEW paid
    PROVE  Synced(s, row, status, paid).refunded = row.refunded
BY DEF Synced, SaleRow

LEMMA OtherRefunded ==
    ASSUME TypeOK, NEW r \in Requests
    PROVE  /\ ClosedRow(r).refunded = txn[r].read.refunded
           /\ VoidRow(r).refunded = TRUE
<1>1. txn[r].read \in SaleRow
    BY TxnType
<1>2. ClosedRow(r).refunded = txn[r].read.refunded
    BY <1>1 DEF ClosedRow, SaleRow
<1>3. VoidRow(r).refunded = TRUE
    BY <1>1 DEF VoidRow, SaleRow
<1> QED BY <1>2, <1>3

-----------------------------------------------------------------------------
(* One request at a time. *)

\* A step that leaves the sale alone, and lets nobody begin to work on it.
LEMMA AloneKept ==
    ASSUME NEW s \in Sales, AloneOn(s), raced[s] \subseteq raced'[s],
           sale'[s] = sale[s], payments'[s] = payments[s], restores'[s] = restores[s],
           \A q \in Requests : AtWork(q, s)' =>
              /\ AtWork(q, s)
              /\ pc[q] = "sync" => pc'[q] = "sync"
              /\ txn'[q].read = txn[q].read /\ txn'[q].prior = txn[q].prior
    PROVE  AloneOn(s)'
<1> SUFFICES ASSUME "requests" \notin raced'[s]
             PROVE  AloneOn(s)'
    BY DEF AloneOn
<1>1. "requests" \notin raced[s]
    OBVIOUS
<1>2. Present(s)' <=> Present(s)
    BY DEF Present
<1>3. /\ \A q, r \in Requests : AtWork(q, s) /\ AtWork(r, s) => q = r
      /\ \A r \in Requests : AtWork(r, s) /\ pc[r] # "sync" =>
            txn[r].read = sale[s] /\ txn[r].prior = payments[s]
      /\ restores[s] <= 1
      /\ Present(s) /\ restores[s] > 0 => sale[s].refunded
    BY <1>1 DEF AloneOn
<1>4. \A q, r \in Requests : AtWork(q, s)' /\ AtWork(r, s)' => q = r
    BY <1>3
<1>5. \A r \in Requests : AtWork(r, s)' /\ pc'[r] # "sync" =>
            txn'[r].read = sale'[s] /\ txn'[r].prior = payments'[s]
    BY <1>3
<1>6. restores'[s] <= 1 /\ (Present(s)' /\ restores'[s] > 0 => sale'[s].refunded)
    BY <1>2, <1>3
<1> QED BY <1>4, <1>5, <1>6 DEF AloneOn

\* A step of the one request at work on the sale, which then leaves or has only
\* the sync to do.
LEMMA AloneWritten ==
    ASSUME NEW s \in Sales, NEW r \in Requests, AloneOn(s), AtWork(r, s), raced' = raced,
           \A q \in Requests \ {r} : pc'[q] = pc[q] /\ txn'[q] = txn[q],
           ~InFlight(r)' \/ pc'[r] = "sync",
           "requests" \notin raced[s] =>
              restores'[s] <= 1 /\ (Present(s)' /\ restores'[s] > 0 => sale'[s].refunded)
    PROVE  AloneOn(s)'
<1> SUFFICES ASSUME "requests" \notin raced[s]
             PROVE  AloneOn(s)'
    BY DEF AloneOn
<1>1. \A q \in Requests : AtWork(q, s) => q = r
    BY DEF AloneOn
<1>2. \A q \in Requests : AtWork(q, s)' => q = r
    BY <1>1 DEF AtWork, InFlight
<1>3. ~(AtWork(r, s)' /\ pc'[r] # "sync")
    BY DEF AtWork
<1> QED BY <1>2, <1>3 DEF AloneOn

\* A step of one request that writes no sale and goes on, or ends.
LEMMA AloneSame ==
    ASSUME AloneInv, NEW r \in Requests, UNCHANGED <<sale, payments, restores>>,
           \A s \in Sales : raced[s] \subseteq raced'[s],
           \A q \in Requests \ {r} : pc'[q] = pc[q] /\ txn'[q] = txn[q],
           \/ ~InFlight(r)'
           \/ /\ InFlight(r) /\ pc[r] # "sync"
              /\ txn'[r].sale = txn[r].sale
              /\ txn'[r].read = txn[r].read
              /\ txn'[r].prior = txn[r].prior,
           txn'[r].op = "cancel" => txn'[r].prior = 0
    PROVE  AloneInv'
<1>1. ASSUME NEW s \in Sales PROVE AloneOn(s)'
  <2>1. AloneOn(s)
      BY DEF AloneInv
  <2>2. ASSUME NEW q \in Requests, AtWork(q, s)'
        PROVE  /\ AtWork(q, s)
               /\ pc[q] = "sync" => pc'[q] = "sync"
               /\ txn'[q].read = txn[q].read /\ txn'[q].prior = txn[q].prior
      BY <2>2 DEF AtWork, InFlight
  <2> QED BY <2>1, <2>2, AloneKept
<1>2. \A q \in Requests : txn'[q].op = "cancel" => txn'[q].prior = 0
    BY DEF AloneInv
<1>3. \A s \in Sales : sale'[s].status = "UNSTAGED" => restores'[s] = 0
    BY DEF AloneInv
<1> QED BY <1>1, <1>2, <1>3 DEF AloneInv

\* A step of one request that writes its sale.
LEMMA AloneCommit ==
    ASSUME AloneInv, NEW r \in Requests, NEW s \in Sales, s = txn[r].sale, InFlight(r),
           raced' = raced,
           \A q \in Requests \ {r} : pc'[q] = pc[q] /\ txn'[q] = txn[q],
           \A t \in Sales \ {s} : /\ sale'[t] = sale[t]
                                  /\ payments'[t] = payments[t]
                                  /\ restores'[t] = restores[t],
           ~InFlight(r)' \/ (pc'[r] = "sync" /\ txn'[r].sale = s),
           txn'[r].op = "cancel" => txn'[r].prior = 0,
           sale'[s].status = "UNSTAGED" => restores'[s] = 0,
           "requests" \notin raced[s] =>
              restores'[s] <= 1 /\ (Present(s)' /\ restores'[s] > 0 => sale'[s].refunded)
    PROVE  AloneInv'
<1>1. AloneOn(s)'
  <2>1. AloneOn(s) /\ AtWork(r, s)
      BY DEF AloneInv, AtWork
  <2> QED BY <2>1, AloneWritten
<1>2. ASSUME NEW t \in Sales \ {s} PROVE AloneOn(t)'
  <2>1. AloneOn(t)
      BY DEF AloneInv
  <2>2. ASSUME NEW q \in Requests, AtWork(q, t)'
        PROVE  AtWork(q, t) /\ pc'[q] = pc[q] /\ txn'[q] = txn[q]
      BY <2>2 DEF AtWork, InFlight
  <2> QED BY <2>1, <2>2, AloneKept
<1>3. \A q \in Requests : txn'[q].op = "cancel" => txn'[q].prior = 0
    BY DEF AloneInv
<1>4. \A t \in Sales : sale'[t].status = "UNSTAGED" => restores'[t] = 0
    BY DEF AloneInv
<1> QED BY <1>1, <1>2, <1>3, <1>4 DEF AloneInv

LEMMA ArriveAlone ==
    ASSUME TypeOK, AloneInv, NEW r \in Requests, Arrive(r)
    PROVE  AloneInv'
<1>1. PICK s \in Sales :
        \/ \E given \in Tenders \cup {0} : BeginFinalize(r, s, given)
        \/ \E given \in Tenders : BeginCollect(r, s, given)
        \/ BeginCancel(r, s)
        \/ BeginVoid(r, s)
    BY DEF Arrive
<1>2. PICK op, given, todo : Begin(r, op, s, given, todo) /\ (op = "cancel" => payments[s] = 0)
    BY <1>1 DEF BeginFinalize, BeginCollect, BeginCancel, BeginVoid
<1>3. /\ UNCHANGED <<sale, payments, restores>>
      /\ ~InFlight(r)
      /\ txn'[r].op = op /\ txn'[r].sale = s
      /\ txn'[r].prior = payments[s] /\ txn'[r].read = sale[s]
      /\ \A q \in Requests \ {r} : pc'[q] = pc[q] /\ txn'[q] = txn[q]
    BY <1>2 DEF Begin, TypeOK, saleVars, Blank, InFlight
<1>4. pc'[r] # "sync"
    BY <1>2 DEF Begin, TypeOK
<1>5. ASSUME NEW t \in Sales PROVE raced[t] \subseteq raced'[t]
    BY <1>2 DEF Begin, TypeOK
<1>6. "requests" \notin raced'[s] => \A q \in Requests : ~AtWork(q, s)
    BY <1>2 DEF Begin, TypeOK, AtWork
<1>7. AloneOn(s)'
  <2> SUFFICES ASSUME "requests" \notin raced'[s] PROVE AloneOn(s)'
      BY DEF AloneOn
  <2>1. "requests" \notin raced[s]
      BY <1>5
  <2>2. restores'[s] <= 1 /\ (Present(s)' /\ restores'[s] > 0 => sale'[s].refunded)
      BY <1>3, <2>1 DEF AloneInv, AloneOn, Present
  <2>3. \A q \in Requests : AtWork(q, s)' => q = r
      BY <1>3, <1>6 DEF AtWork, InFlight
  <2>4. txn'[r].read = sale'[s] /\ txn'[r].prior = payments'[s]
      BY <1>3
  <2> QED BY <2>2, <2>3, <2>4 DEF AloneOn
<1>8. ASSUME NEW t \in Sales \ {s} PROVE AloneOn(t)'
  <2>1. AloneOn(t) /\ raced[t] \subseteq raced'[t]
      BY <1>5 DEF AloneInv
  <2>2. ASSUME NEW q \in Requests, AtWork(q, t)'
        PROVE  AtWork(q, t) /\ pc'[q] = pc[q] /\ txn'[q] = txn[q]
      BY <2>2, <1>3 DEF AtWork, InFlight
  <2> QED BY <1>3, <2>1, <2>2, AloneKept
<1>9. \A q \in Requests : txn'[q].op = "cancel" => txn'[q].prior = 0
    BY <1>2, <1>3 DEF AloneInv
<1>10. \A t \in Sales : sale'[t].status = "UNSTAGED" => restores'[t] = 0
    BY <1>3 DEF AloneInv
<1> QED BY <1>7, <1>8, <1>9, <1>10 DEF AloneInv

LEMMA ItemsAlone ==
    ASSUME TypeOK, AloneInv, NEW r \in Requests,
           (\E row \in Rows : MoveProduct(r, row) \/ MoveService(r, row)) \/ MoveMaterial(r)
    PROVE  AloneInv'
<1>1. /\ UNCHANGED <<sale, payments, restores, raced>>
      /\ pc[r] \in {"items", "material"}
      /\ txn'[r].sale = txn[r].sale
      /\ txn'[r].read = txn[r].read
      /\ txn'[r].prior = txn[r].prior
      /\ txn'[r].op = txn[r].op
      /\ \A q \in Requests \ {r} : pc'[q] = pc[q] /\ txn'[q] = txn[q]
    <2>1. CASE \E row \in Rows : MoveProduct(r, row)
        BY <2>1 DEF MoveProduct, ItemDone, TypeOK, Txn, saleVars
    <2>2. CASE \E row \in Rows : MoveService(r, row)
        BY <2>2 DEF MoveService, ItemDone, TypeOK, Txn, saleVars
    <2>3. CASE MoveMaterial(r)
        BY <2>3 DEF MoveMaterial, ItemDone, TypeOK, Txn, saleVars
    <2> QED BY <2>1, <2>2, <2>3
<1>2. InFlight(r) /\ pc[r] # "sync"
    BY <1>1 DEF InFlight
<1>3. txn'[r].op = "cancel" => txn'[r].prior = 0
    BY <1>1 DEF AloneInv
<1>4. \A s \in Sales : raced[s] \subseteq raced'[s]
    BY <1>1
<1> QED BY <1>1, <1>2, <1>3, <1>4, AloneSame

LEMMA LeaveOp ==
    ASSUME TypeOK, NEW r \in Requests, Leave(r)
    PROVE  txn'[r].op # "cancel"
BY DEF Leave, TypeOK, Blank

LEMMA OthersAlone ==
    ASSUME TypeOK, AloneInv, NEW r \in Requests,
           Abandon(r) \/ StockRoom(r) \/ GenerateDocument(r) \/ ReadOutbox(r) \/ ApplyRollup(r)
    PROVE  AloneInv'
<1>1. UNCHANGED <<sale, payments, restores>>
    BY DEF Abandon, StockRoom, GenerateDocument, ReadOutbox, ApplyRollup, saleVars
<1>2. /\ ~InFlight(r)'
      /\ \A q \in Requests \ {r} : pc'[q] = pc[q] /\ txn'[q] = txn[q]
      /\ txn'[r].op = "cancel" => txn'[r].prior = 0
    <2>1. CASE Leave(r)
        BY <2>1, LeaveFrame, LeaveOp
    <2>2. CASE ~Leave(r)
        BY <2>2 DEF Abandon, StockRoom, GenerateDocument, ReadOutbox, ApplyRollup, TypeOK,
                    InFlight, AloneInv
    <2> QED BY <2>1, <2>2
<1>3. ASSUME NEW s \in Sales PROVE raced[s] \subseteq raced'[s]
    BY DEF Abandon, StockRoom, GenerateDocument, ReadOutbox, ApplyRollup, TypeOK
<1> QED BY <1>1, <1>2, <1>3, AloneSame

\* What a request writes to its sale never takes the sale back to UNSTAGED.
LEMMA WrittenStays ==
    ASSUME TypeOK, TypeOK', MoneyInv, NEW r \in Requests, NEW s \in Sales, s = txn[r].sale,
           \/ FinalizeCommit(r) \/ FinalizeSync(r) \/ CollectCommit(r)
           \/ CollectNothingDue(r) \/ CancelCommit(r) \/ VoidCommit(r)
    PROVE  InFlight(r) /\ sale'[s].status # "UNSTAGED"
<1>1. InFlight(r)
    BY DEF FinalizeCommit, FinalizeSync, CollectCommit, CollectNothingDue, CancelCommit,
           VoidCommit, AtCommit, InFlight
<1>2. sale[s].status # "UNSTAGED"
    BY <1>1 DEF MoneyInv, Informed
<1>3. CASE FinalizeSync(r) /\ ~Present(s)
    BY <1>1, <1>2, <1>3 DEF FinalizeSync
<1>4. CASE ~(FinalizeSync(r) /\ ~Present(s))
    <2>1. Grows(s)
        BY <1>4, FinalizeCommitMoney, FinalizeSyncMoney, CollectCommitMoney,
           CollectNothingDueMoney, CancelCommitMoney, VoidCommitMoney
    <2> QED BY <1>1, <1>2, <2>1 DEF Grows
<1> QED BY <1>3, <1>4, <1>1

\* The writes that keep the refunded flag.
LEMMA WrittenAlone ==
    ASSUME TypeOK, TypeOK', MoneyInv, AloneInv, NEW r \in Requests,
           FinalizeCommit(r) \/ FinalizeSync(r) \/ CollectCommit(r) \/ CollectNothingDue(r)
    PROVE  AloneInv'
<1>1. PICK s \in Sales : s = txn[r].sale
    BY TxnType
<1>2. InFlight(r) /\ sale'[s].status # "UNSTAGED"
    BY <1>1, WrittenStays
<1>3. txn[r].read \in SaleRow
    BY TxnType
<1>4. /\ sale'[s].refunded = sale[s].refunded
      /\ Present(s)' => Present(s)
      /\ \A t \in Sales \ {s} : sale'[t] = sale[t]
    <2>1. CASE FinalizeCommit(r)
        <3>1. FinalizeRow(r).refunded = txn[r].read.refunded
            BY <1>1, <1>3, SyncedRefunded DEF FinalizeRow
        <3>2. sale' = [sale EXCEPT ![s] = Flush(FinalizeRow(r), txn[r].read, @)] /\ Present(s)
            BY <1>1, <2>1 DEF FinalizeCommit, AtCommit, FinalizeRow, FinalizeStatus,
                              FinalizeApplied
        <3> QED BY <3>1, <3>2, FlushFields DEF TypeOK
    <2>2. CASE FinalizeSync(r)
        <3>1. SyncRow(r).refunded = txn[r].read.refunded
            BY <1>1, <1>3, SyncedRefunded DEF SyncRow
        <3>2. sale' = IF Present(s) THEN [sale EXCEPT ![s] = Flush(SyncRow(r), txn[r].read, @)]
                                    ELSE sale
            BY <1>1, <2>2 DEF FinalizeSync, SyncRow
        <3>3. CASE Present(s)
            BY <3>1, <3>2, <3>3, FlushFields DEF TypeOK
        <3>4. CASE ~Present(s)
            BY <3>2, <3>4 DEF Present
        <3> QED BY <3>3, <3>4
    <2>3. CASE CollectCommit(r)
        <3>1. CollectRow(r).refunded = txn[r].read.refunded
            BY <1>1, <1>3, SyncedRefunded DEF CollectRow
        <3>2. sale' = [sale EXCEPT ![s] = Flush(CollectRow(r), txn[r].read, @)] /\ Present(s)
            BY <1>1, <2>3 DEF CollectCommit, AtCommit, CollectRow, CollectStatus,
                              CollectApplied
        <3> QED BY <3>1, <3>2, FlushFields DEF TypeOK
    <2>4. CASE CollectNothingDue(r)
        <3>1. ClosedRow(r).refunded = txn[r].read.refunded
            BY OtherRefunded
        <3>2. sale' = [sale EXCEPT ![s] = Flush(ClosedRow(r), txn[r].read, @)] /\ Present(s)
            BY <1>1, <2>4 DEF CollectNothingDue, AtCommit, ClosedRow
        <3> QED BY <3>1, <3>2, FlushFields DEF TypeOK
    <2> QED BY <2>1, <2>2, <2>3, <2>4
<1>5. /\ restores' = restores /\ raced' = raced
      /\ \A t \in Sales \ {s} : payments'[t] = payments[t]
      /\ \A q \in Requests \ {r} : pc'[q] = pc[q] /\ txn'[q] = txn[q]
      /\ ~InFlight(r)' \/ (pc'[r] = "sync" /\ txn'[r].sale = s)
      /\ txn'[r].op # "cancel"  \/ txn' = txn
    <2>1. CASE FinalizeCommit(r)
        BY <1>1, <2>1 DEF FinalizeCommit, AtCommit, TypeOK, Txn
    <2>2. CASE FinalizeSync(r)
        BY <1>1, <2>2 DEF FinalizeSync, TypeOK, InFlight
    <2>3. CASE CollectCommit(r)
        BY <1>1, <2>3 DEF CollectCommit, AtCommit, TypeOK, Txn, InFlight
    <2>4. CASE CollectNothingDue(r)
        BY <1>1, <2>4, LeaveFrame, LeaveOp DEF CollectNothingDue, TypeOK
    <2> QED BY <2>1, <2>2, <2>3, <2>4
<1>6. txn'[r].op = "cancel" => txn'[r].prior = 0
    BY <1>5 DEF AloneInv
<1>7. "requests" \notin raced[s] =>
          restores'[s] <= 1 /\ (Present(s)' /\ restores'[s] > 0 => sale'[s].refunded)
    BY <1>4, <1>5 DEF AloneInv, AloneOn
<1> QED BY <1>1, <1>2, <1>4, <1>5, <1>6, <1>7, AloneCommit

LEMMA CancelAlone ==
    ASSUME TypeOK, TypeOK', MoneyInv, AloneInv, NEW r \in Requests, CancelCommit(r)
    PROVE  AloneInv'
<1>1. PICK s \in Sales : s = txn[r].sale
    BY TxnType
<1>2. InFlight(r)
    BY DEF CancelCommit, AtCommit, InFlight
<1>3. /\ sale'[s].status = "DELETED"
      /\ \A t \in Sales \ {s} : sale'[t] = sale[t] /\ payments'[t] = payments[t]
      /\ restores' = restores /\ raced' = raced
    BY <1>1 DEF CancelCommit, TypeOK, NoSale
<1>4. /\ ~InFlight(r)' /\ txn'[r].op # "cancel"
      /\ \A q \in Requests \ {r} : pc'[q] = pc[q] /\ txn'[q] = txn[q]
    BY LeaveFrame, LeaveOp DEF CancelCommit
<1>5. "requests" \notin raced[s] =>
          restores'[s] <= 1 /\ (Present(s)' /\ restores'[s] > 0 => sale'[s].refunded)
    BY <1>3 DEF AloneInv, AloneOn, Present
<1> QED BY <1>1, <1>2, <1>3, <1>4, <1>5, AloneCommit

\* A void knows whether the items were given back already, and says so when it
\* gives them back.
LEMMA VoidAlone ==
    ASSUME TypeOK, TypeOK', MoneyInv, AloneInv, NEW r \in Requests, VoidCommit(r)
    PROVE  AloneInv'
<1>1. PICK s \in Sales : s = txn[r].sale
    BY TxnType
<1>2. InFlight(r) /\ sale'[s].status # "UNSTAGED"
    BY <1>1, WrittenStays
<1>3. /\ sale' = [sale EXCEPT ![s] = Flush(VoidRow(r), txn[r].read, @)]
      /\ restores' = [restores EXCEPT ![s] = IF txn[r].read.refunded THEN @ ELSE @ + 1]
      /\ Present(s) /\ pc[r] = "commit"
    BY <1>1 DEF VoidCommit, VoidRow, AtCommit
<1>4. /\ \A t \in Sales \ {s} : /\ sale'[t] = sale[t]
                                /\ payments'[t] = payments[t]
                                /\ restores'[t] = restores[t]
      /\ raced' = raced
    BY <1>1 DEF VoidCommit, TypeOK
<1>5. /\ ~InFlight(r)' /\ txn'[r].op # "cancel"
      /\ \A q \in Requests \ {r} : pc'[q] = pc[q] /\ txn'[q] = txn[q]
    BY LeaveFrame, LeaveOp DEF VoidCommit
<1>6. ASSUME "requests" \notin raced[s]
      PROVE  restores'[s] <= 1 /\ (Present(s)' /\ restores'[s] > 0 => sale'[s].refunded)
  <2>1. AtWork(r, s) /\ pc[r] # "sync"
      BY <1>1, <1>2, <1>3 DEF AtWork
  <2>2. txn[r].read = sale[s] /\ restores[s] <= 1 /\ (restores[s] > 0 => sale[s].refunded)
      BY <1>3, <1>6, <2>1 DEF AloneInv, AloneOn
  <2>3. /\ sale'[s].refunded = IF VoidRow(r).refunded = txn[r].read.refunded
                               THEN sale[s].refunded ELSE VoidRow(r).refunded
        /\ VoidRow(r).refunded = TRUE
        /\ txn[r].read.refunded \in BOOLEAN
    <3>1. sale'[s] = Flush(VoidRow(r), txn[r].read, sale[s])
        BY <1>3 DEF TypeOK
    <3>2. txn[r].read.refunded \in BOOLEAN
        BY TxnType DEF SaleRow
    <3>3. VoidRow(r).refunded = TRUE
        BY OtherRefunded
    <3> QED BY <3>1, <3>2, <3>3, FlushFields
  <2>4. sale'[s].refunded
      BY <2>2, <2>3
  <2>5. restores'[s] = (IF txn[r].read.refunded THEN restores[s] ELSE restores[s] + 1)
        /\ restores[s] \in Nat
      BY <1>3 DEF TypeOK
  <2>6. restores'[s] <= 1
    <3>1. CASE txn[r].read.refunded
        BY <2>2, <2>5, <3>1
    <3>2. CASE ~txn[r].read.refunded
      <4>1. restores[s] = 0
          BY <2>2, <2>5, <3>2
      <4> QED BY <2>5, <3>2, <4>1
    <3> QED BY <3>1, <3>2
  <2> QED BY <2>4, <2>6
<1> QED BY <1>1, <1>2, <1>4, <1>5, <1>6, AloneCommit

LEMMA StageAlone ==
    ASSUME TypeOK, MoneyInv, AloneInv, NEW s \in Sales, Stage(s)
    PROVE  AloneInv'
<1>1. /\ sale[s].status = "UNSTAGED" /\ sale'[s].status = "PENDING_PAYMENT"
      /\ \A t \in Sales \ {s} : sale'[t] = sale[t]
      /\ UNCHANGED <<payments, restores, raced, pc, txn>>
    BY DEF Stage, TypeOK, NoSale
<1>2. restores[s] = 0
    BY <1>1 DEF AloneInv
<1>3. \A q \in Requests : ~AtWork(q, s)
    BY <1>1 DEF MoneyInv, Informed, AtWork
<1>4. AloneOn(s)'
  <2>1. \A q \in Requests : ~AtWork(q, s)'
      BY <1>1, <1>3 DEF AtWork, InFlight
  <2> QED BY <1>1, <1>2, <2>1 DEF AloneOn
<1>5. ASSUME NEW t \in Sales \ {s} PROVE AloneOn(t)'
  <2>1. AloneOn(t) /\ raced[t] \subseteq raced'[t]
      BY <1>1 DEF AloneInv
  <2>2. ASSUME NEW q \in Requests, AtWork(q, t)'
        PROVE  AtWork(q, t) /\ pc'[q] = pc[q] /\ txn'[q] = txn[q]
      BY <1>1, <2>2 DEF AtWork, InFlight
  <2> QED BY <1>1, <2>1, <2>2, AloneKept
<1>6. \A t \in Sales : sale'[t].status = "UNSTAGED" => restores'[t] = 0
    BY <1>1 DEF AloneInv
<1>7. \A r \in Requests : txn'[r].op = "cancel" => txn'[r].prior = 0
    BY <1>1 DEF AloneInv
<1> QED BY <1>4, <1>5, <1>6, <1>7 DEF AloneInv

LEMMA StillAlone ==
    ASSUME AloneInv, UNCHANGED <<sale, payments, restores, raced, pc, txn>>
    PROVE  AloneInv'
BY DEF AloneInv, AloneOn, AtWork, InFlight, Present

LEMMA AloneStep ==
    ASSUME Typed, Typed', MoneyInv, AloneInv, [Next]_vars
    PROVE  AloneInv'
<1>1. TypeOK /\ TypeOK'
    BY DEF Typed
<1>2. CASE \E s \in Sales : Stage(s)
    BY <1>1, <1>2, StageAlone
<1>3. CASE (\E s \in Sales : ViewReceipt(s)) \/ UNCHANGED vars
    BY <1>3, StillAlone DEF ViewReceipt, vars, saleVars
<1>4. CASE \E r \in Requests : Arrive(r)
    BY <1>1, <1>4, ArriveAlone
<1>5. CASE \E r \in Requests :
              (\E row \in Rows : MoveProduct(r, row) \/ MoveService(r, row)) \/ MoveMaterial(r)
    BY <1>1, <1>5, ItemsAlone
<1>6. CASE \E r \in Requests :
              FinalizeCommit(r) \/ FinalizeSync(r) \/ CollectCommit(r) \/ CollectNothingDue(r)
    BY <1>1, <1>6, WrittenAlone
<1>7. CASE \E r \in Requests : CancelCommit(r) \/ VoidCommit(r)
    BY <1>1, <1>7, CancelAlone, VoidAlone
<1>8. CASE \E r \in Requests : Abandon(r) \/ StockRoom(r) \/ GenerateDocument(r)
                               \/ ReadOutbox(r) \/ ApplyRollup(r)
    BY <1>1, <1>8, OthersAlone
<1> QED BY <1>2, <1>3, <1>4, <1>5, <1>6, <1>7, <1>8
        DEF Next, Work, OutOfStock, DeadlockVictim, SaleGone, Fail

LEMMA InitAlone == Init => AloneInv
BY DEF Init, AloneInv, AloneOn, AtWork, InFlight, Present, NoSale, Blank

LEMMA AloneAlways == Spec => [](Typed /\ MoneyInv /\ AloneInv)
<1>1. Init => Typed /\ MoneyInv /\ AloneInv
    BY InitTyped, InitMoney, InitAlone
<1>2. Typed /\ MoneyInv /\ AloneInv /\ [Next]_vars => (Typed /\ MoneyInv /\ AloneInv)'
    BY TypeStep, ServiceInHandStep, MoneyStep, AloneStep DEF Typed
<1> QED BY <1>1, <1>2, PTL DEF Spec

\* However often a sale is finalized, voided and finalized again, its items go
\* back to the shelf a second time only if requests for it have overlapped.
THEOREM RestoredOnceUnlessRaced == Spec => []SecondRestoreNeedsRace
<1>1. Typed /\ MoneyInv /\ AloneInv => SecondRestoreNeedsRace
  <2> SUFFICES ASSUME Typed, AloneInv, NEW s \in Sales, restores[s] > 1
               PROVE  "requests" \in raced[s]
      BY DEF SecondRestoreNeedsRace
  <2>1. restores[s] \in Nat
      BY DEF Typed, TypeOK
  <2> QED BY <2>1 DEF AloneInv, AloneOn
<1> QED BY <1>1, AloneAlways, PTL

-----------------------------------------------------------------------------
(* What the steps do to the payments. *)

\* Only three commits touch the payment rows, each those of its own sale.
LEMMA PaymentSteps ==
    ASSUME TypeOK, [Next]_vars, NEW s \in Sales, payments'[s] # payments[s]
    PROVE  \E r \in Requests :
              /\ s = txn[r].sale
              /\ FinalizeCommit(r) \/ CollectCommit(r) \/ CancelCommit(r)
<1>1. payments' # payments
    OBVIOUS
<1>2. \E r \in Requests : FinalizeCommit(r) \/ CollectCommit(r) \/ CancelCommit(r)
  <2>1. CASE (\E t \in Sales : Stage(t) \/ ViewReceipt(t)) \/ UNCHANGED vars
      BY <1>1, <2>1 DEF Stage, ViewReceipt, vars, saleVars
  <2>2. CASE \E r \in Requests : Arrive(r) \/ StockRoom(r) \/ Abandon(r)
    <3>1. ASSUME NEW r \in Requests, Arrive(r) PROVE payments' = payments
      <4>1. PICK op, t, given, todo : Begin(r, op, t, given, todo)
          BY <3>1 DEF Arrive, BeginFinalize, BeginCollect, BeginCancel, BeginVoid
      <4> QED BY <4>1 DEF Begin, saleVars
    <3> QED BY <1>1, <2>2, <3>1 DEF StockRoom, Abandon, saleVars
  <2>3. CASE \E r \in Requests :
              (\E row \in Rows : MoveProduct(r, row) \/ MoveService(r, row)) \/ MoveMaterial(r)
      BY <1>1, <2>3 DEF MoveProduct, MoveService, MoveMaterial, saleVars
  <2>4. CASE \E r \in Requests : FinalizeSync(r) \/ CollectNothingDue(r) \/ VoidCommit(r)
      BY <1>1, <2>4 DEF FinalizeSync, CollectNothingDue, VoidCommit
  <2>5. CASE \E r \in Requests : GenerateDocument(r) \/ ReadOutbox(r) \/ ApplyRollup(r)
      BY <1>1, <2>5 DEF GenerateDocument, ReadOutbox, ApplyRollup, saleVars
  <2> QED BY <2>1, <2>2, <2>3, <2>4, <2>5
          DEF Next, Work, OutOfStock, DeadlockVictim, SaleGone, Fail
<1>3. PICK r \in Requests : FinalizeCommit(r) \/ CollectCommit(r) \/ CancelCommit(r)
    BY <1>2
<1>4. s = txn[r].sale
    BY <1>3 DEF FinalizeCommit, CollectCommit, CancelCommit, TypeOK
<1> QED BY <1>3, <1>4

\* Before its commit, the one request at work on a sale knows its payments.
LEMMA PriorIsCurrent ==
    ASSUME AloneInv, NEW r \in Requests, NEW s \in Sales, s = txn[r].sale,
           pc[r] = "commit", "requests" \notin raced[s]
    PROVE  txn[r].prior = payments[s]
BY DEF AloneInv, AloneOn, AtWork, InFlight

LEMMA ErasedStep ==
    ASSUME TypeOK, AloneInv, [Next]_vars, NEW s \in Sales,
           payments'[s] < payments[s], "requests" \notin raced[s]
    PROVE  FALSE
<1>1. payments[s] \in Nat
    BY DEF TypeOK
<1>2. PICK r \in Requests : /\ s = txn[r].sale
                            /\ FinalizeCommit(r) \/ CollectCommit(r) \/ CancelCommit(r)
    BY <1>1, PaymentSteps
<1>3. CASE FinalizeCommit(r)
  <2>1. payments'[s] = payments[s] + FinalizeApplied(r)
      BY <1>2, <1>3 DEF FinalizeCommit, FinalizeApplied, TypeOK
  <2> QED BY <1>1, <2>1, FinalizeRowType
<1>4. CASE CollectCommit(r)
  <2>1. payments'[s] = payments[s] + CollectApplied(r)
      BY <1>2, <1>4 DEF CollectCommit, CollectApplied, TypeOK
  <2> QED BY <1>1, <2>1, CollectRowType
<1>5. CASE CancelCommit(r)
  <2>1. txn[r].prior = payments[s] /\ txn[r].prior = 0
      BY <1>2, <1>5, PriorIsCurrent DEF CancelCommit, AtCommit, AloneInv
  <2>2. payments'[s] = 0
      BY <1>2, <1>5 DEF CancelCommit, TypeOK
  <2> QED BY <2>1, <2>2
<1> QED BY <1>2, <1>3, <1>4, <1>5

\* A cancel deletes payment rows only if it overlapped with the request that
\* took the money.
THEOREM PaymentsErasedOnlyByRace == Spec => PaymentsNeverErased
<1>1. Typed /\ MoneyInv /\ AloneInv /\ [Next]_vars =>
          [\A s \in Sales : payments'[s] < payments[s] => "requests" \in raced[s]]_vars
    BY ErasedStep DEF Typed
<1> QED BY <1>1, AloneAlways, PTL DEF Spec, PaymentsNeverErased

LEMMA CollectedStep ==
    ASSUME TypeOK, AloneInv, [Next]_vars, NEW s \in Sales,
           payments'[s] > payments[s], cuts'[s] = cuts[s], raced[s] = {}
    PROVE  payments'[s] <= Total[s]
<1>1. payments[s] \in Nat /\ cuts[s] \in Nat
    BY DEF TypeOK
<1>2. PICK r \in Requests : /\ s = txn[r].sale
                            /\ FinalizeCommit(r) \/ CollectCommit(r) \/ CancelCommit(r)
    BY <1>1, PaymentSteps
<1>3. CASE FinalizeCommit(r)
  <2>1. cuts'[s] = cuts[s] + 1
      BY <1>2, <1>3 DEF FinalizeCommit, TypeOK
  <2> QED BY <1>1, <2>1
<1>4. CASE CollectCommit(r)
  <2>1. payments'[s] = payments[s] + CollectApplied(r) /\ pc[r] = "commit" /\ Owed(r) > 0
      BY <1>2, <1>4 DEF CollectCommit, CollectApplied, AtCommit, TypeOK
  <2>2. txn[r].prior = payments[s]
      BY <1>2, <2>1, PriorIsCurrent
  <2>3. CollectApplied(r) <= Owed(r) /\ CollectApplied(r) \in Nat /\ Owed(r) \in Nat
      BY CollectRowType, TxnType, AppliedType DEF CollectApplied
  <2>4. Total[s] \in Nat
      BY CheckoutAssumption
  <2>5. Owed(r) + payments[s] = Total[s]
      BY <1>1, <1>2, <2>1, <2>2, <2>4 DEF Owed, Remaining
  <2> QED BY <1>1, <2>1, <2>3, <2>4, <2>5
<1>5. CASE CancelCommit(r)
  <2>1. payments'[s] = 0
      BY <1>2, <1>5 DEF CancelCommit, TypeOK
  <2> QED BY <1>1, <2>1
<1> QED BY <1>2, <1>3, <1>4, <1>5

\* Partial payments that are collected one after the other never add up to
\* more than the total.
THEOREM CollectStopsAtTotal == Spec => CollectNeverOverpays
<1>1. Typed /\ MoneyInv /\ AloneInv /\ [Next]_vars =>
          [\A s \in Sales :
              payments'[s] > payments[s] /\ cuts'[s] = cuts[s] /\ raced[s] = {}
                  => payments'[s] <= Total[s]]_vars
    BY CollectedStep DEF Typed
<1> QED BY <1>1, AloneAlways, PTL DEF Spec, CollectNeverOverpays

-----------------------------------------------------------------------------
(* One rollup at a time. *)

\* A sale that is gone stays gone, and only ReadOutbox and ApplyRollup move its
\* outbox row to or from DONE.
CountedSame(s) ==
    /\ raced[s] \subseteq raced'[s]
    /\ rolled'[s] <= rolled[s]
    /\ sale[s].status = "DELETED" => sale'[s].status = "DELETED"
    /\ sale'[s].status # "DELETED" => (outbox'[s] = "DONE" <=> outbox[s] = "DONE")

LEMMA CountedKept ==
    ASSUME TypeOK, TypeOK', NEW s \in Sales, CountedOn(s), CountedSame(s),
           \A q \in Requests : Rolling(q, s)' => Rolling(q, s)
    PROVE  CountedOn(s)'
<1> SUFFICES ASSUME "rollups" \notin raced'[s]
             PROVE  CountedOn(s)'
    BY DEF CountedOn
<1>1. "rollups" \notin raced[s] /\ rolled[s] \in Int /\ rolled'[s] \in Int
    BY DEF CountedSame, TypeOK
<1>2. rolled'[s] <= 1
    BY <1>1 DEF CountedOn, CountedSame
<1>3. \A q, r \in Requests : Rolling(q, s)' /\ Rolling(r, s)' => q = r
    BY <1>1 DEF CountedOn
<1>4. ASSUME sale'[s].status # "DELETED"
      PROVE  /\ rolled'[s] > 0 => outbox'[s] = "DONE"
             /\ \A r \in Requests : Rolling(r, s)' => outbox'[s] # "DONE"
  <2>1. /\ rolled[s] > 0 => outbox[s] = "DONE"
        /\ \A r \in Requests : Rolling(r, s) => outbox[s] # "DONE"
      BY <1>1, <1>4 DEF CountedOn, CountedSame
  <2>2. rolled'[s] > 0 => rolled[s] > 0
      BY <1>1 DEF CountedSame
  <2> QED BY <1>4, <2>1, <2>2 DEF CountedSame
<1> QED BY <1>2, <1>3, <1>4 DEF CountedOn

\* A step of one request that does not go on to apply a rollup.
LEMMA CountedFrame ==
    ASSUME TypeOK, TypeOK', CountedInv, NEW r \in Requests,
           \A q \in Requests \ {r} : pc'[q] = pc[q] /\ txn'[q] = txn[q],
           pc'[r] # "rollup",
           \A s \in Sales : CountedSame(s)
    PROVE  CountedInv'
<1> SUFFICES ASSUME NEW s \in Sales PROVE CountedOn(s)'
    BY DEF CountedInv
<1>1. CountedOn(s) /\ CountedSame(s)
    BY DEF CountedInv
<1>2. \A q \in Requests : Rolling(q, s)' => Rolling(q, s)
    BY DEF Rolling
<1> QED BY <1>1, <1>2, CountedKept

LEMMA CountedUnwritten ==
    ASSUME TypeOK, NEW s \in Sales, raced[s] \subseteq raced'[s],
           UNCHANGED <<sale, outbox, rolled>>
    PROVE  CountedSame(s)
BY DEF CountedSame, TypeOK

\* The requests' steps that write neither the sale nor its outbox row.
LEMMA OthersCounted ==
    ASSUME TypeOK, TypeOK', CountedInv, NEW r \in Requests,
           \/ Arrive(r) \/ Abandon(r) \/ StockRoom(r) \/ GenerateDocument(r)
           \/ (\E row \in Rows : MoveProduct(r, row) \/ MoveService(r, row)) \/ MoveMaterial(r)
    PROVE  CountedInv'
<1> DEFINE Plain == /\ UNCHANGED <<sale, outbox, rolled>>
                    /\ \A s \in Sales : raced[s] \subseteq raced'[s]
                    /\ pc'[r] # "rollup"
                    /\ \A q \in Requests \ {r} : pc'[q] = pc[q] /\ txn'[q] = txn[q]
<1>1. CASE Arrive(r)
  <2>1. PICK op, t, given, todo : Begin(r, op, t, given, todo)
      BY <1>1 DEF Arrive, BeginFinalize, BeginCollect, BeginCancel, BeginVoid
  <2>2. Plain
      BY <2>1 DEF Begin, saleVars, TypeOK
  <2> QED BY <2>2, CountedUnwritten, CountedFrame
<1>2. CASE Abandon(r) \/ StockRoom(r) \/ GenerateDocument(r)
  <2>1. Plain
      BY <1>2 DEF Abandon, StockRoom, GenerateDocument, Leave, saleVars, TypeOK
  <2> QED BY <2>1, CountedUnwritten, CountedFrame
<1>3. CASE (\E row \in Rows : MoveProduct(r, row) \/ MoveService(r, row)) \/ MoveMaterial(r)
  <2>1. Plain
    <3>1. CASE \E row \in Rows : MoveProduct(r, row)
        BY <3>1 DEF MoveProduct, ItemDone, saleVars, TypeOK
    <3>2. CASE \E row \in Rows : MoveService(r, row)
        BY <3>2 DEF MoveService, ItemDone, saleVars, TypeOK
    <3>3. CASE MoveMaterial(r)
        BY <3>3 DEF MoveMaterial, ItemDone, saleVars, TypeOK
    <3> QED BY <1>3, <3>1, <3>2, <3>3
  <2> QED BY <2>1, CountedUnwritten, CountedFrame
<1> QED BY <1>1, <1>2, <1>3

LEMMA EnqueuedDone ==
    ASSUME TypeOK, NEW s \in Sales, NEW t \in Sales
    PROVE  Enqueued(s)[t] = "DONE" <=> outbox[t] = "DONE"
BY DEF TypeOK, Enqueued

\* A commit writes a sale that is there; a cancel takes it away for good.
LEMMA CommitCounted ==
    ASSUME TypeOK, TypeOK', CountedInv, NEW r \in Requests,
           \/ FinalizeCommit(r) \/ FinalizeSync(r) \/ CollectCommit(r)
           \/ CollectNothingDue(r) \/ CancelCommit(r) \/ VoidCommit(r)
    PROVE  CountedInv'
<1>1. PICK s \in Sales : s = txn[r].sale
    BY TxnType
<1>2. /\ raced' = raced
      /\ sale' = sale \/ Present(s)
      /\ \A t \in Sales \ {s} : sale'[t] = sale[t]
      /\ outbox' = outbox \/ outbox' = Enqueued(s)
         \/ (sale'[s].status = "DELETED" /\ \A t \in Sales \ {s} : outbox'[t] = outbox[t])
    BY <1>1 DEF FinalizeCommit, FinalizeSync, CollectCommit, CollectNothingDue, CancelCommit,
                VoidCommit, AtCommit, TypeOK, NoSale
<1>3. \A t \in Sales : rolled'[t] <= rolled[t]
    BY DEF FinalizeCommit, FinalizeSync, CollectCommit, CollectNothingDue, CancelCommit,
           VoidCommit, TypeOK
<1>4. /\ pc'[r] # "rollup"
      /\ \A q \in Requests \ {r} : pc'[q] = pc[q] /\ txn'[q] = txn[q]
    BY DEF FinalizeCommit, FinalizeSync, CollectCommit, CollectNothingDue, CancelCommit,
           VoidCommit, Leave, TypeOK
<1>5. ASSUME NEW t \in Sales PROVE CountedSame(t)
  <2>1. sale[t].status = "DELETED" => sale'[t].status = "DELETED"
      BY <1>2 DEF Present
  <2>2. sale'[t].status # "DELETED" => (outbox'[t] = "DONE" <=> outbox[t] = "DONE")
      BY <1>1, <1>2, EnqueuedDone
  <2> QED BY <1>2, <1>3, <2>1, <2>2 DEF CountedSame
<1> QED BY <1>4, <1>5, CountedFrame

\* The look at the outbox row: a second task that finds the row not DONE while
\* another is on its way marks the sale as raced.
LEMMA ReadOutboxCounted ==
    ASSUME TypeOK, TypeOK', CountedInv, NEW r \in Requests, ReadOutbox(r)
    PROVE  CountedInv'
<1>1. PICK s \in Sales : s = txn[r].sale
    BY TxnType
<1>2. UNCHANGED <<sale, outbox, rolled>>
    BY DEF ReadOutbox, saleVars
<1>3. CASE ~Countable(s)
  <2>1. Leave(r) /\ raced' = raced
      BY <1>1, <1>3 DEF ReadOutbox
  <2>2. /\ pc'[r] # "rollup"
        /\ \A q \in Requests \ {r} : pc'[q] = pc[q] /\ txn'[q] = txn[q]
      BY <2>1 DEF Leave, TypeOK
  <2>3. \A t \in Sales : raced[t] \subseteq raced'[t]
      BY <2>1
  <2> QED BY <1>2, <2>2, <2>3, CountedUnwritten, CountedFrame
<1>4. CASE Countable(s)
  <2>1. /\ pc' = [pc EXCEPT ![r] = "rollup"] /\ txn' = txn
        /\ raced' = IF \E q \in Requests : Rolling(q, s)
                    THEN [raced EXCEPT ![s] = @ \cup {"rollups"}] ELSE raced
      BY <1>1, <1>4 DEF ReadOutbox, Rolling
  <2>2. ASSUME NEW t \in Sales \ {s} PROVE CountedOn(t)'
    <3>1. raced'[t] = raced[t]
        BY <2>1 DEF TypeOK
    <3>2. \A q \in Requests : Rolling(q, t)' => Rolling(q, t)
        BY <1>1, <2>1 DEF Rolling, TypeOK
    <3>3. CountedOn(t)
        BY DEF CountedInv
    <3> QED BY <1>2, <3>1, <3>2, <3>3, CountedUnwritten, CountedKept
  <2>3. CountedOn(s)'
    <3> SUFFICES ASSUME "rollups" \notin raced'[s] PROVE CountedOn(s)'
        BY DEF CountedOn
    <3>1. raced' = raced /\ \A q \in Requests : ~Rolling(q, s)
        BY <2>1 DEF TypeOK
    <3>2. \A q \in Requests : Rolling(q, s)' => q = r
        BY <2>1, <3>1 DEF Rolling, TypeOK
    <3>3. outbox[s] # "DONE" /\ CountedOn(s) /\ "rollups" \notin raced[s]
        BY <1>4, <3>1 DEF Countable, CountedInv
    <3>4. /\ rolled'[s] <= 1
          /\ sale'[s].status # "DELETED" =>
                 /\ rolled'[s] > 0 => outbox'[s] = "DONE"
                 /\ outbox'[s] # "DONE"
        BY <1>2, <3>3 DEF CountedOn
    <3> QED BY <3>2, <3>4 DEF CountedOn
  <2> QED BY <2>2, <2>3 DEF CountedInv
<1> QED BY <1>3, <1>4

\* The commit of a rollup: the outbox row was not DONE when it was read, and no
\* other task has counted the sale since.
LEMMA ApplyRollupCounted ==
    ASSUME TypeOK, TypeOK', CountedInv, NEW r \in Requests, ApplyRollup(r)
    PROVE  CountedInv'
<1>1. PICK s \in Sales : s = txn[r].sale
    BY TxnType
<1>2. /\ sale' = sale /\ raced' = raced
      /\ \A t \in Sales \ {s} : outbox'[t] = outbox[t] /\ rolled'[t] = rolled[t]
      /\ \/ outbox'[s] = "DONE" /\ rolled'[s] = rolled[s] + 1 /\ Present(s)
         \/ outbox'[s] = "FAILED" /\ rolled'[s] = rolled[s] /\ Present(s)
         \/ outbox'[s] = outbox[s] /\ rolled'[s] = rolled[s] /\ ~Present(s)
    BY <1>1 DEF ApplyRollup, TypeOK
<1>3. /\ pc[r] = "rollup" /\ pc'[r] # "rollup"
      /\ \A q \in Requests \ {r} : pc'[q] = pc[q] /\ txn'[q] = txn[q]
    BY DEF ApplyRollup, Leave, TypeOK
<1>4. ASSUME NEW t \in Sales \ {s} PROVE CountedOn(t)'
  <2>1. CountedOn(t) /\ rolled[t] \in Int
      BY DEF CountedInv, TypeOK
  <2>2. CountedSame(t)
      BY <1>2, <2>1 DEF CountedSame
  <2>3. \A q \in Requests : Rolling(q, t)' => Rolling(q, t)
      BY <1>3 DEF Rolling
  <2> QED BY <2>1, <2>2, <2>3, CountedKept
<1>5. CountedOn(s)'
  <2> SUFFICES ASSUME "rollups" \notin raced[s] PROVE CountedOn(s)'
      BY <1>2 DEF CountedOn
  <2>1. /\ rolled[s] <= 1
        /\ \A q \in Requests : Rolling(q, s) => q = r
        /\ sale[s].status # "DELETED" => ~(rolled[s] > 0)
      BY <1>1, <1>3 DEF CountedInv, CountedOn, Rolling
  <2>2. \A q \in Requests : ~Rolling(q, s)'
      BY <1>3, <2>1 DEF Rolling
  <2>3. rolled[s] \in Int
      BY DEF TypeOK
  <2>4. CASE Present(s)
    <3>1. rolled[s] <= 0
        BY <2>1, <2>3, <2>4 DEF Present
    <3>2. rolled'[s] <= 1 /\ (rolled'[s] > 0 => outbox'[s] = "DONE")
        BY <1>2, <2>3, <2>4, <3>1
    <3> QED BY <2>2, <3>2 DEF CountedOn
  <2>5. CASE ~Present(s)
    <3>1. rolled'[s] = rolled[s] /\ sale' = sale
        BY <1>2, <2>5
    <3> QED BY <2>1, <2>2, <3>1 DEF CountedOn
  <2> QED BY <2>4, <2>5
<1> QED BY <1>4, <1>5 DEF CountedInv

LEMMA CountedStep ==
    ASSUME Typed, Typed', CountedInv, [Next]_vars
    PROVE  CountedInv'
<1>1. TypeOK /\ TypeOK'
    BY DEF Typed
<1>2. CASE (\E s \in Sales : Stage(s) \/ ViewReceipt(s)) \/ UNCHANGED vars
  <2>1. /\ UNCHANGED <<outbox, rolled, raced, pc, txn>>
        /\ \A t \in Sales : sale'[t] = sale[t]
               \/ (sale[t].status # "DELETED" /\ sale'[t].status # "DELETED")
      BY <1>1, <1>2 DEF Stage, ViewReceipt, vars, saleVars, TypeOK, NoSale
  <2>2. ASSUME NEW t \in Sales PROVE CountedOn(t)'
    <3>1. CountedOn(t) /\ rolled[t] \in Int
        BY <1>1 DEF CountedInv, TypeOK
    <3>2. CountedSame(t)
        BY <2>1, <3>1 DEF CountedSame
    <3>3. \A q \in Requests : Rolling(q, t)' => Rolling(q, t)
        BY <2>1 DEF Rolling
    <3> QED BY <1>1, <3>1, <3>2, <3>3, CountedKept
  <2> QED BY <2>2 DEF CountedInv
<1>3. CASE \E r \in Requests :
              \/ Arrive(r) \/ Abandon(r) \/ StockRoom(r) \/ GenerateDocument(r)
              \/ (\E row \in Rows : MoveProduct(r, row) \/ MoveService(r, row))
              \/ MoveMaterial(r)
    BY <1>1, <1>3, OthersCounted
<1>4. CASE \E r \in Requests :
              \/ FinalizeCommit(r) \/ FinalizeSync(r) \/ CollectCommit(r)
              \/ CollectNothingDue(r) \/ CancelCommit(r) \/ VoidCommit(r)
    BY <1>1, <1>4, CommitCounted
<1>5. CASE \E r \in Requests : ReadOutbox(r) \/ ApplyRollup(r)
    BY <1>1, <1>5, ReadOutboxCounted, ApplyRollupCounted
<1> QED BY <1>2, <1>3, <1>4, <1>5
        DEF Next, Work, OutOfStock, DeadlockVictim, SaleGone, Fail

LEMMA InitCounted == Init => CountedInv
BY DEF Init, CountedInv, CountedOn, Rolling

\* A sale is counted twice in the rollups only if two of its rollup tasks read
\* the outbox row before either had committed.
THEOREM CountedOnceUnlessRaced == Spec => []CountedAtMostOnce
<1>1. Init => Typed /\ CountedInv
    BY InitTyped, InitCounted
<1>2. Typed /\ CountedInv /\ [Next]_vars => (Typed /\ CountedInv)'
    BY TypeStep, ServiceInHandStep, CountedStep DEF Typed
<1>3. Typed /\ CountedInv => CountedAtMostOnce
  <2> SUFFICES ASSUME Typed, CountedInv, NEW s \in Sales, rolled[s] > 1
               PROVE  "rollups" \in raced[s]
      BY DEF CountedAtMostOnce
  <2>1. rolled[s] \in Int
      BY DEF Typed, TypeOK
  <2> QED BY <2>1 DEF CountedInv, CountedOn
<1> QED BY <1>1, <1>2, <1>3, PTL DEF Spec

-----------------------------------------------------------------------------
(* The refinement of SaleBook.  What a request writes at its commit is what  *)
(* the book does in one step, as long as the sale is as the request read it; *)
(* if requests have overlapped, the commit is a disturbance.                 *)

\* A request that goes on after its checks read a sale that passed them.
Checked(r) ==
    pc[r] \in {"items", "material", "commit"} =>
        /\ txn[r].op = "finalize" =>
              /\ txn[r].read.status \in Outstanding \cup {"REFUNDED"}
              /\ txn[r].given \in Tenders \cup {0}
        /\ txn[r].op = "collect" =>
              txn[r].read.status \in Outstanding /\ txn[r].given \in Tenders
        /\ txn[r].op = "cancel" => txn[r].read.status = "PENDING_PAYMENT"
        /\ txn[r].op = "void" => txn[r].read.status \in Outstanding \cup {"COMPLETED"}

CheckedInv == \A r \in Requests : Checked(r)

LEMMA ArriveChecked ==
    ASSUME TypeOK, NEW r \in Requests, Arrive(r)
    PROVE  Checked(r)' /\ \A q \in Requests \ {r} : pc'[q] = pc[q] /\ txn'[q] = txn[q]
<1>1. PICK s \in Sales :
        \/ \E given \in Tenders \cup {0} : BeginFinalize(r, s, given)
        \/ \E given \in Tenders : BeginCollect(r, s, given)
        \/ BeginCancel(r, s)
        \/ BeginVoid(r, s)
    BY DEF Arrive
<1>2. sale[s].status \in Statuses
    BY DEF TypeOK, SaleRow
<1>3. ASSUME NEW op, NEW given, NEW todo, Begin(r, op, s, given, todo)
      PROVE  /\ txn'[r].op = op /\ txn'[r].given = given /\ txn'[r].read = sale[s]
             /\ \A q \in Requests \ {r} : pc'[q] = pc[q] /\ txn'[q] = txn[q]
    BY <1>3 DEF Begin, TypeOK, Blank
<1>4. CASE \E given \in Tenders \cup {0} : BeginFinalize(r, s, given)
    BY <1>2, <1>3, <1>4 DEF BeginFinalize, Present, Statuses, Checked
<1>5. CASE \E given \in Tenders : BeginCollect(r, s, given)
    BY <1>3, <1>5 DEF BeginCollect, Checked
<1>6. CASE BeginCancel(r, s)
    BY <1>3, <1>6 DEF BeginCancel, Checked
<1>7. CASE BeginVoid(r, s)
    BY <1>3, <1>7 DEF BeginVoid, Checked
<1> QED BY <1>1, <1>4, <1>5, <1>6, <1>7

\* The item loop changes nothing of what was read.
LEMMA ItemsChecked ==
    ASSUME TypeOK, CheckedInv, NEW r \in Requests,
           (\E row \in Rows : MoveProduct(r, row) \/ MoveService(r, row)) \/ MoveMaterial(r)
    PROVE  Checked(r)' /\ \A q \in Requests \ {r} : pc'[q] = pc[q] /\ txn'[q] = txn[q]
<1>1. /\ pc[r] \in {"items", "material"}
      /\ txn'[r].op = txn[r].op
      /\ txn'[r].given = txn[r].given
      /\ txn'[r].read = txn[r].read
      /\ \A q \in Requests \ {r} : pc'[q] = pc[q] /\ txn'[q] = txn[q]
    <2>1. CASE \E row \in Rows : MoveProduct(r, row)
        BY <2>1 DEF MoveProduct, ItemDone, TypeOK, Txn
    <2>2. CASE \E row \in Rows : MoveService(r, row)
        BY <2>2 DEF MoveService, ItemDone, TypeOK, Txn
    <2>3. CASE MoveMaterial(r)
        BY <2>3 DEF MoveMaterial, ItemDone, TypeOK, Txn
    <2> QED BY <2>1, <2>2, <2>3
<1> QED BY <1>1 DEF CheckedInv, Checked

\* Every other step of a request takes it past its commit.
LEMMA OthersChecked ==
    ASSUME TypeOK, NEW r \in Requests,
           \/ Abandon(r) \/ StockRoom(r) \/ GenerateDocument(r) \/ ReadOutbox(r)
           \/ ApplyRollup(r) \/ FinalizeCommit(r) \/ FinalizeSync(r) \/ CollectCommit(r)
           \/ CollectNothingDue(r) \/ CancelCommit(r) \/ VoidCommit(r)
    PROVE  Checked(r)' /\ \A q \in Requests \ {r} : pc'[q] = pc[q] /\ txn'[q] = txn[q]
<1>1. /\ pc'[r] \notin {"items", "material", "commit"}
      /\ \A q \in Requests \ {r} : pc'[q] = pc[q] /\ txn'[q] = txn[q]
    BY DEF Abandon, StockRoom, GenerateDocument, ReadOutbox, ApplyRollup, FinalizeCommit,
           FinalizeSync, CollectCommit, CollectNothingDue, CancelCommit, VoidCommit, Leave,
           TypeOK
<1> QED BY <1>1 DEF Checked

LEMMA CheckedStep ==
    ASSUME TypeOK, CheckedInv, [Next]_vars
    PROVE  CheckedInv'
<1>1. CASE (\E s \in Sales : Stage(s) \/ ViewReceipt(s)) \/ UNCHANGED vars
  <2>1. UNCHANGED <<pc, txn>>
      BY <1>1 DEF Stage, ViewReceipt, vars
  <2> QED BY <2>1 DEF CheckedInv, Checked
<1>2. CASE \E r \in Requests : Arrive(r) \/ Work(r) \/ StockRoom(r) \/ Fail(r)
  <2>1. PICK r \in Requests : Arrive(r) \/ Work(r) \/ StockRoom(r) \/ Fail(r)
      BY <1>2
  <2>2. Checked(r)' /\ \A q \in Requests \ {r} : pc'[q] = pc[q] /\ txn'[q] = txn[q]
      BY <2>1, ArriveChecked, ItemsChecked, OthersChecked
         DEF Work, OutOfStock, DeadlockVictim, SaleGone, Fail
  <2> QED BY <2>2 DEF CheckedInv, Checked
<1> QED BY <1>1, <1>2 DEF Next

LEMMA InitChecked == Init => CheckedInv
BY DEF Init, CheckedInv, Checked

-----------------------------------------------------------------------------
(* Steps of the shop as steps of the book. *)

\* A step that changes no sale's status and no payment, and no overlap, shows
\* nothing.
LEMMA BookStutters ==
    ASSUME \A s \in Sales : sale'[s].status = sale[s].status,
           payments' = payments,
           \A s \in Sales : "requests" \in raced'[s] <=> "requests" \in raced[s]
    PROVE  UNCHANGED Book!bookVars
<1>1. [s \in Sales |-> sale[s].status]' = [s \in Sales |-> sale[s].status]
    OBVIOUS
<1>2. {s \in Sales : "requests" \in raced[s]}' = {s \in Sales : "requests" \in raced[s]}
    OBVIOUS
<1> QED BY <1>1, <1>2 DEF Book!bookVars

LEMMA BookTurns ==
    ASSUME TypeOK, TypeOK', NEW s \in Sales, NEW new, NEW more,
           sale'[s].status = new, payments'[s] = payments[s] + more, raced' = raced,
           \A t \in Sales \ {s} : sale'[t] = sale[t] /\ payments'[t] = payments[t]
    PROVE  Book!Turns(s, new, more)
<1>1. [t \in Sales |-> sale[t].status]' = [[t \in Sales |-> sale[t].status] EXCEPT ![s] = new]
    OBVIOUS
<1>2. payments' = [payments EXCEPT ![s] = @ + more]
    BY DEF TypeOK
<1> QED BY <1>1, <1>2 DEF Book!Turns

LEMMA BookDisturbed ==
    ASSUME TypeOK, TypeOK', NEW s \in Sales, "requests" \in raced[s], raced' = raced,
           Present(s), SaleMoney(s)', Grows(s),
           Present(s)' \/ (sale'[s].status = "DELETED" /\ payments'[s] = 0),
           \A t \in Sales \ {s} : sale'[t] = sale[t] /\ payments'[t] = payments[t]
    PROVE  Book!Disturbed(s)
<1> DEFINE Shown == [t \in Sales |-> sale[t].status]
<1>1. \A t \in Sales : sale[t].status \in Statuses /\ sale'[t].status \in Statuses
    BY DEF TypeOK, SaleRow
<1>2. Shown[s] \in Book!OnBook /\ (Present(s)' => Shown'[s] \in Book!OnBook)
    BY <1>1 DEF Present, Statuses, Outstanding, Book!OnBook, Book!Open
<1>3. Shown' \in [Sales -> Book!OnBook \cup {"UNSTAGED", "DELETED"}]
    BY <1>1 DEF Statuses, Outstanding, Book!OnBook, Book!Open
<1>4. payments' \in [Sales -> Nat] /\ payments[s] \in Nat
    BY DEF TypeOK
<1>5. Present(s)' => payments'[s] >= payments[s]
    BY <1>4 DEF Grows, Present
<1>6. Shown'[s] = "COMPLETED" => payments'[s] >= Total[s]
    BY DEF SaleMoney
<1>7. {t \in Sales : "requests" \in raced[t]}' = {t \in Sales : "requests" \in raced[t]}
    OBVIOUS
<1> QED BY <1>2, <1>3, <1>4, <1>5, <1>6, <1>7 DEF Book!Disturbed, Book!There

\* At its commit, a request that overlapped with none finds the sale as it read
\* it, so the status it wants is the status it writes.
LEMMA WritesWanted ==
    ASSUME TypeOK, AloneInv, NEW r \in Requests, NEW s \in Sales, s = txn[r].sale,
           pc[r] = "commit", "requests" \notin raced[s], NEW wanted,
           sale'[s] = Flush(wanted, txn[r].read, sale[s])
    PROVE  /\ sale'[s].status = wanted.status
           /\ txn[r].read = sale[s]
           /\ txn[r].prior = payments[s]
<1>1. txn[r].read = sale[s] /\ txn[r].prior = payments[s]
    BY DEF AloneInv, AloneOn, AtWork, InFlight
<1> QED BY <1>1, FlushFields

LEMMA FinalizeOnBook ==
    ASSUME TypeOK, TypeOK', AloneInv, CheckedInv, NEW r \in Requests, NEW s \in Sales,
           s = txn[r].sale, FinalizeCommit(r), "requests" \notin raced[s]
    PROVE  Book!Finalize(s)
<1> DEFINE given == txn[r].given
<1>1. /\ pc[r] = "commit" /\ txn[r].op = "finalize" /\ raced' = raced
      /\ sale' = [sale EXCEPT ![s] = Flush(FinalizeRow(r), txn[r].read, @)]
      /\ payments' = [payments EXCEPT ![s] = @ + FinalizeApplied(r)]
    BY DEF FinalizeCommit, AtCommit, FinalizeRow, FinalizeStatus, FinalizeApplied
<1>2. /\ sale'[s] = Flush(FinalizeRow(r), txn[r].read, sale[s])
      /\ payments'[s] = payments[s] + FinalizeApplied(r)
      /\ \A t \in Sales \ {s} : sale'[t] = sale[t] /\ payments'[t] = payments[t]
    BY <1>1 DEF TypeOK
<1>3. sale'[s].status = FinalizeStatus(r) /\ txn[r].read = sale[s]
    BY <1>1, <1>2, WritesWanted, FinalizeRowType
<1>4. sale[s].status \in Outstanding \cup {"REFUNDED"} /\ given \in Tenders \cup {0}
    BY <1>1, <1>3 DEF CheckedInv, Checked
<1>5. Book!There(s) /\ sale[s].status # "COMPLETED"
    BY <1>4 DEF Outstanding, Book!There, Book!OnBook, Book!Open
<1>w. PICK status, applied : status = FinalizeStatus(r) /\ applied = FinalizeApplied(r)
    OBVIOUS
<1>6. Book!Turns(s, status, applied)
    BY <1>w, <1>1, <1>2, <1>3, BookTurns
<1>7. Total[s] \in Nat
    BY CheckoutAssumption
<1>8. CASE given = 0
  <2>1. FinalizeStatus(r) = "PENDING_PAYMENT" /\ FinalizeApplied(r) = 0
      BY <1>7, <1>8 DEF FinalizeStatus, FinalizeApplied, Applied
  <2> QED BY <1>w, <1>5, <1>6, <2>1 DEF Book!Finalize
<1>9. CASE given # 0
  <2>1. given \in Tenders /\ given \in Nat
      BY <1>4, <1>9, CheckoutAssumption
  <2>2. /\ FinalizeApplied(r) = Book!Share(Total[s], given)
        /\ FinalizeStatus(r) = Book!After(Total[s], given)
      BY <1>7, <1>9, <2>1 DEF FinalizeStatus, FinalizeApplied, Applied, StatusAfter, Remaining,
                              Book!Share, Book!After
  <2>3. status = Book!After(Total[s], given) /\ applied = Book!Share(Total[s], given)
      BY <1>w, <2>2
  <2> QED BY <1>5, <1>6, <2>1, <2>3 DEF Book!Finalize, Book!Turns
<1> QED BY <1>8, <1>9

LEMMA CollectOnBook ==
    ASSUME TypeOK, TypeOK', AloneInv, CheckedInv, NEW r \in Requests, NEW s \in Sales,
           s = txn[r].sale, CollectCommit(r), "requests" \notin raced[s]
    PROVE  Book!Collect(s)
<1> DEFINE given == txn[r].given
<1>1. /\ pc[r] = "commit" /\ txn[r].op = "collect" /\ raced' = raced /\ Owed(r) > 0
      /\ sale' = [sale EXCEPT ![s] = Flush(CollectRow(r), txn[r].read, @)]
      /\ payments' = [payments EXCEPT ![s] = @ + CollectApplied(r)]
    BY DEF CollectCommit, AtCommit, CollectRow, CollectStatus, CollectApplied
<1>2. /\ sale'[s] = Flush(CollectRow(r), txn[r].read, sale[s])
      /\ payments'[s] = payments[s] + CollectApplied(r)
      /\ \A t \in Sales \ {s} : sale'[t] = sale[t] /\ payments'[t] = payments[t]
    BY <1>1 DEF TypeOK
<1>3. /\ sale'[s].status = CollectStatus(r)
      /\ txn[r].read = sale[s]
      /\ txn[r].prior = payments[s]
    BY <1>1, <1>2, WritesWanted, CollectRowType
<1>4. sale[s].status \in Outstanding /\ given \in Tenders /\ given \in Nat \ {0}
    BY <1>1, <1>3, CheckoutAssumption DEF CheckedInv, Checked
<1>w. PICK status, applied : status = CollectStatus(r) /\ applied = CollectApplied(r)
    OBVIOUS
<1>5. Book!Turns(s, status, applied)
    BY <1>w, <1>1, <1>2, <1>3, BookTurns
<1>6. Total[s] \in Nat /\ payments[s] \in Nat
    BY CheckoutAssumption DEF TypeOK
<1>7. payments[s] < Total[s] /\ Owed(r) = Total[s] - payments[s] /\ Owed(r) \in Nat
    BY <1>1, <1>3, <1>6 DEF Owed, Remaining
<1>8. /\ CollectApplied(r) = Book!Share(Owed(r), given)
      /\ CollectStatus(r) = Book!After(Owed(r), given)
    BY <1>4, <1>7 DEF CollectStatus, CollectApplied, Applied, StatusAfter, Remaining,
                      Book!Share, Book!After
<1>9. sale[s].status \in Book!Open
    BY <1>4 DEF Outstanding, Book!Open
<1>10. /\ status = Book!After(Total[s] - payments[s], given)
       /\ applied = Book!Share(Total[s] - payments[s], given)
    BY <1>w, <1>7, <1>8
<1> QED BY <1>4, <1>5, <1>7, <1>9, <1>10 DEF Book!Collect, Book!Turns

LEMMA NothingDueOnBook ==
    ASSUME TypeOK, TypeOK', AloneInv, CheckedInv, NEW r \in Requests, NEW s \in Sales,
           s = txn[r].sale, CollectNothingDue(r), "requests" \notin raced[s]
    PROVE  Book!Collect(s)
<1>1. /\ pc[r] = "commit" /\ txn[r].op = "collect" /\ raced' = raced /\ Owed(r) = 0
      /\ sale' = [sale EXCEPT ![s] = Flush(ClosedRow(r), txn[r].read, @)]
      /\ payments' = payments
    BY DEF CollectNothingDue, AtCommit, ClosedRow
<1>2. /\ sale'[s] = Flush(ClosedRow(r), txn[r].read, sale[s])
      /\ \A t \in Sales \ {s} : sale'[t] = sale[t] /\ payments'[t] = payments[t]
    BY <1>1 DEF TypeOK
<1>3. /\ sale'[s].status = "COMPLETED"
      /\ txn[r].read = sale[s]
      /\ txn[r].prior = payments[s]
    BY <1>1, <1>2, WritesWanted, OtherRowType
<1>4. Total[s] \in Nat /\ payments[s] \in Nat
    BY CheckoutAssumption DEF TypeOK
<1>5. ~(payments[s] < Total[s])
    BY <1>1, <1>3, <1>4 DEF Owed, Remaining
<1>6. payments'[s] = payments[s] + 0
    BY <1>1, <1>4
<1>7. Book!Turns(s, "COMPLETED", 0)
    BY <1>1, <1>2, <1>3, <1>6, BookTurns
<1>8. sale[s].status \in Book!Open
    BY <1>1, <1>3 DEF CheckedInv, Checked, Outstanding, Book!Open
<1> QED BY <1>5, <1>7, <1>8 DEF Book!Collect

LEMMA CancelOnBook ==
    ASSUME TypeOK, TypeOK', AloneInv, CheckedInv, NEW r \in Requests, NEW s \in Sales,
           s = txn[r].sale, CancelCommit(r), "requests" \notin raced[s]
    PROVE  Book!Cancel(s)
<1>1. /\ pc[r] = "commit" /\ txn[r].op = "cancel" /\ raced' = raced
      /\ sale'[s].status = "DELETED" /\ payments'[s] = 0
      /\ \A t \in Sales \ {s} : sale'[t] = sale[t] /\ payments'[t] = payments[t]
    BY DEF CancelCommit, AtCommit, TypeOK, NoSale
<1>2. txn[r].read = sale[s] /\ payments[s] = 0
    BY <1>1 DEF AloneInv, AloneOn, AtWork, InFlight
<1>3. payments'[s] = payments[s] + 0
    BY <1>1, <1>2
<1>4. sale[s].status = "PENDING_PAYMENT"
    BY <1>1, <1>2 DEF CheckedInv, Checked
<1>5. Book!Turns(s, "DELETED", 0)
    BY <1>1, <1>3, BookTurns
<1> QED BY <1>2, <1>4, <1>5 DEF Book!Cancel

LEMMA VoidOnBook ==
    ASSUME TypeOK, TypeOK', AloneInv, CheckedInv, NEW r \in Requests, NEW s \in Sales,
           s = txn[r].sale, VoidCommit(r), "requests" \notin raced[s]
    PROVE  Book!Void(s)
<1>1. /\ pc[r] = "commit" /\ txn[r].op = "void" /\ raced' = raced
      /\ sale' = [sale EXCEPT ![s] = Flush(VoidRow(r), txn[r].read, @)]
      /\ payments' = payments
    BY DEF VoidCommit, AtCommit, VoidRow
<1>2. /\ sale'[s] = Flush(VoidRow(r), txn[r].read, sale[s])
      /\ \A t \in Sales \ {s} : sale'[t] = sale[t] /\ payments'[t] = payments[t]
    BY <1>1 DEF TypeOK
<1>3. sale'[s].status = "REFUNDED" /\ txn[r].read = sale[s]
    BY <1>1, <1>2, WritesWanted, OtherRowType
<1>4. payments'[s] = payments[s] + 0
    BY <1>1 DEF TypeOK
<1>5. Book!Turns(s, "REFUNDED", 0)
    BY <1>1, <1>2, <1>3, <1>4, BookTurns
<1>6. sale[s].status \in Book!Open \cup {"COMPLETED"}
    BY <1>1, <1>3 DEF CheckedInv, Checked, Outstanding, Book!Open
<1> QED BY <1>5, <1>6 DEF Book!Void

\* A commit on a sale for which requests have overlapped.
LEMMA CommitDisturbs ==
    ASSUME TypeOK, TypeOK', MoneyInv, NEW r \in Requests, NEW s \in Sales, s = txn[r].sale,
           "requests" \in raced[s],
           \/ FinalizeCommit(r) \/ CollectCommit(r) \/ CollectNothingDue(r)
           \/ CancelCommit(r) \/ VoidCommit(r)
    PROVE  Book!Disturbed(s)
<1>1. /\ Present(s) /\ raced' = raced
      /\ \A t \in Sales \ {s} : sale'[t] = sale[t] /\ payments'[t] = payments[t]
    BY DEF FinalizeCommit, CollectCommit, CollectNothingDue, CancelCommit, VoidCommit,
           AtCommit, TypeOK
<1>2. SaleMoney(s)' /\ Grows(s)
    BY FinalizeCommitMoney, CollectCommitMoney, CollectNothingDueMoney, CancelCommitMoney,
       VoidCommitMoney
<1>3. Present(s)' \/ (sale'[s].status = "DELETED" /\ payments'[s] = 0)
  <2>1. CASE FinalizeCommit(r)
    <3>1. sale' = [sale EXCEPT ![s] = Flush(FinalizeRow(r), txn[r].read, @)]
        BY <2>1 DEF FinalizeCommit, FinalizeRow, FinalizeStatus, FinalizeApplied
    <3>2. FinalizeRow(r).status \notin {"UNSTAGED", "DELETED"}
        BY FinalizeRowType DEF Outstanding
    <3> QED BY <1>1, <3>1, <3>2, FlushFields DEF TypeOK, Present
  <2>2. CASE CollectCommit(r)
    <3>1. sale' = [sale EXCEPT ![s] = Flush(CollectRow(r), txn[r].read, @)]
        BY <2>2 DEF CollectCommit, CollectRow, CollectStatus, CollectApplied
    <3>2. CollectRow(r).status \notin {"UNSTAGED", "DELETED"}
        BY CollectRowType DEF Outstanding
    <3> QED BY <1>1, <3>1, <3>2, FlushFields DEF TypeOK, Present
  <2>3. CASE CollectNothingDue(r)
    <3>1. sale' = [sale EXCEPT ![s] = Flush(ClosedRow(r), txn[r].read, @)]
        BY <2>3 DEF CollectNothingDue, ClosedRow
    <3>2. ClosedRow(r).status = "COMPLETED"
        BY OtherRowType
    <3> QED BY <1>1, <3>1, <3>2, FlushFields DEF TypeOK, Present
  <2>4. CASE VoidCommit(r)
    <3>1. sale' = [sale EXCEPT ![s] = Flush(VoidRow(r), txn[r].read, @)]
        BY <2>4 DEF VoidCommit, VoidRow
    <3>2. VoidRow(r).status = "REFUNDED"
        BY OtherRowType
    <3> QED BY <1>1, <3>1, <3>2, FlushFields DEF TypeOK, Present
  <2>5. CASE CancelCommit(r)
      BY <2>5 DEF CancelCommit, TypeOK, NoSale
  <2> QED BY <2>1, <2>2, <2>3, <2>4, <2>5
<1> QED BY <1>1, <1>2, <1>3, BookDisturbed

LEMMA CommitOnBook ==
    ASSUME TypeOK, TypeOK', MoneyInv, AloneInv, CheckedInv, NEW r \in Requests,
           \/ FinalizeCommit(r) \/ CollectCommit(r) \/ CollectNothingDue(r)
           \/ CancelCommit(r) \/ VoidCommit(r)
    PROVE  Book!Next
<1>1. PICK s \in Sales : s = txn[r].sale
    BY TxnType
<1>2. CASE "requests" \in raced[s]
  <2>1. Book!Disturbed(s)
      BY <1>1, <1>2, CommitDisturbs
  <2> QED BY <2>1 DEF Book!Next
<1>3. CASE "requests" \notin raced[s]
  <2>1. Book!Finalize(s) \/ Book!Collect(s) \/ Book!Cancel(s) \/ Book!Void(s)
      BY <1>1, <1>3, FinalizeOnBook, CollectOnBook, NothingDueOnBook, CancelOnBook, VoidOnBook
  <2> QED BY <2>1 DEF Book!Next
<1> QED BY <1>2, <1>3

\* The second sync of a finalize keeps the status, whatever it is by now.
LEMMA SyncOnBook ==
    ASSUME TypeOK, NEW r \in Requests, FinalizeSync(r)
    PROVE  UNCHANGED Book!bookVars
<1>1. PICK s \in Sales : s = txn[r].sale
    BY TxnType
<1>2. SyncRow(r).status = txn[r].read.status
    BY SyncRowType
<1>3. sale' = IF Present(s) THEN [sale EXCEPT ![s] = Flush(SyncRow(r), txn[r].read, @)]
                            ELSE sale
    BY <1>1 DEF FinalizeSync, SyncRow
<1>4. \A t \in Sales : sale'[t].status = sale[t].status
    BY <1>2, <1>3, FlushFields DEF TypeOK
<1> QED BY <1>4, BookStutters DEF FinalizeSync

\* A request that arrives is an overlap, if another is at work on its sale.
LEMMA ArriveOnBook ==
    ASSUME TypeOK, NEW r \in Requests, Arrive(r)
    PROVE  Book!Next \/ UNCHANGED Book!bookVars
<1>1. PICK s \in Sales : \E op, given, todo : Begin(r, op, s, given, todo)
    BY DEF Arrive, BeginFinalize, BeginCollect, BeginCancel, BeginVoid
<1>2. /\ UNCHANGED <<sale, payments>>
      /\ raced' = raced \/ raced' = [raced EXCEPT ![s] = @ \cup {"requests"}]
    BY <1>1 DEF Begin, saleVars
<1>3. CASE raced' = raced
    BY <1>2, <1>3, BookStutters
<1>4. CASE raced' = [raced EXCEPT ![s] = @ \cup {"requests"}]
  <2>1. {t \in Sales : "requests" \in raced[t]}' =
            {t \in Sales : "requests" \in raced[t]} \cup {s}
      BY <1>4 DEF TypeOK
  <2>2. Book!Overlap(s)
      BY <1>2, <2>1 DEF Book!Overlap
  <2> QED BY <2>2 DEF Book!Next
<1> QED BY <1>2, <1>3, <1>4

LEMMA ReadOutboxOnBook ==
    ASSUME TypeOK, NEW r \in Requests, ReadOutbox(r)
    PROVE  UNCHANGED Book!bookVars
<1>1. UNCHANGED <<sale, payments>>
    BY DEF ReadOutbox, saleVars
<1>2. \A s \in Sales : "requests" \in raced'[s] <=> "requests" \in raced[s]
    BY TxnType DEF ReadOutbox, TypeOK
<1> QED BY <1>1, <1>2, BookStutters

LEMMA StageOnBook ==
    ASSUME TypeOK, TypeOK', NEW s \in Sales, Stage(s)
    PROVE  Book!Next
<1>1. /\ sale[s].status = "UNSTAGED" /\ sale'[s].status = "PENDING_PAYMENT"
      /\ \A t \in Sales \ {s} : sale'[t] = sale[t]
      /\ UNCHANGED <<payments, raced>>
    BY DEF Stage, TypeOK, NoSale
<1>2. payments'[s] = payments[s] + 0
    BY <1>1 DEF TypeOK
<1>3. Book!Turns(s, "PENDING_PAYMENT", 0)
    BY <1>1, <1>2, BookTurns
<1> QED BY <1>1, <1>3 DEF Book!Stage, Book!Next

LEMMA BookStep ==
    ASSUME Typed, Typed', MoneyInv, AloneInv, CheckedInv, [Next]_vars
    PROVE  [Book!Next]_(Book!bookVars)
<1>1. TypeOK /\ TypeOK'
    BY DEF Typed
<1>2. CASE \E s \in Sales : Stage(s)
    BY <1>1, <1>2, StageOnBook
<1>3. CASE (\E s \in Sales : ViewReceipt(s)) \/ UNCHANGED vars
  <2>1. UNCHANGED <<sale, payments, raced>>
      BY <1>3 DEF ViewReceipt, vars, saleVars
  <2> QED BY <2>1, BookStutters
<1>4. CASE \E r \in Requests : Arrive(r)
    BY <1>1, <1>4, ArriveOnBook
<1>5. CASE \E r \in Requests :
              \/ (\E row \in Rows : MoveProduct(r, row) \/ MoveService(r, row))
              \/ MoveMaterial(r) \/ Abandon(r) \/ StockRoom(r) \/ GenerateDocument(r)
              \/ ApplyRollup(r)
  <2>1. UNCHANGED <<sale, payments, raced>>
      BY <1>5 DEF MoveProduct, MoveService, MoveMaterial, Abandon, StockRoom,
                  GenerateDocument, ApplyRollup, saleVars
  <2> QED BY <2>1, BookStutters
<1>6. CASE \E r \in Requests : FinalizeSync(r) \/ ReadOutbox(r)
    BY <1>1, <1>6, SyncOnBook, ReadOutboxOnBook
<1>7. CASE \E r \in Requests :
              \/ FinalizeCommit(r) \/ CollectCommit(r) \/ CollectNothingDue(r)
              \/ CancelCommit(r) \/ VoidCommit(r)
    BY <1>1, <1>7, CommitOnBook
<1> QED BY <1>2, <1>3, <1>4, <1>5, <1>6, <1>7
        DEF Next, Work, OutOfStock, DeadlockVictim, SaleGone, Fail

\* The handlers, each a read and a write at different times without a lock on
\* the sale, implement the atomic life cycle of a sale: what overlaps with
\* nothing is one step of it, and what overlaps stays within its promises.
THEOREM HandlersImplementBook == Spec => ImplementsSaleBook
<1>1. Init => Book!Init
  <2> SUFFICES ASSUME Init PROVE Book!Init
      OBVIOUS
  <2>1. [s \in Sales |-> sale[s].status] = [s \in Sales |-> "UNSTAGED"]
      BY DEF Init, NoSale
  <2>2. {s \in Sales : "requests" \in raced[s]} = {}
      BY DEF Init
  <2> QED BY <2>1, <2>2 DEF Init, Book!Init
<1>2. Init => CheckedInv
    BY InitChecked
<1>3. Typed /\ CheckedInv /\ [Next]_vars => CheckedInv'
    BY CheckedStep DEF Typed
<1>4. /\ Typed /\ MoneyInv /\ AloneInv /\ CheckedInv
      /\ (Typed /\ MoneyInv /\ AloneInv)'
      /\ [Next]_vars
      => [Book!Next]_(Book!bookVars)
    BY BookStep
<1> QED BY <1>1, <1>2, <1>3, <1>4, AloneAlways, PTL DEF Spec, ImplementsSaleBook, Book!Spec
=============================================================================
