---------------------------- MODULE StockProofs ----------------------------
(***************************************************************************)
(* Proofs about the stock of the shop: a checkout that works on its own    *)
(* copies of rows implements the abstract ledger for every row that is     *)
(* locked before it is loaded, and no recorded movement leaves a row below *)
(* zero, locked in time or not.                                            *)
(***************************************************************************)
EXTENDS CheckoutProofs

\* A direct row is in an identity map only under its lock, so the session's
\* copy is the committed quantity plus what the session has moved.
Guarded(r, row) ==
    row \in loaded[r] /\ row \in Direct =>
        lock[row] = r /\ copy[r][row] = stock[row] + pend[r][row]

\* What a session has moved it has loaded, and not below zero.
Moved(r, row) ==
    pend[r][row] # 0 => row \in loaded[r] /\ copy[r][row] >= 0

StockInv == \A r \in Requests, row \in Rows : Guarded(r, row) /\ Moved(r, row)

LEMMA DirectRows == Direct \subseteq Rows
BY DEF Direct

-----------------------------------------------------------------------------
(* The stock invariant is inductive. *)

LEMMA LockAndMoveStock ==
    ASSUME InvTypeOK, StockInv, NEW r \in Requests, NEW row \in Rows, NEW delta \in Int,
           LockAndMove(r, row, delta)
    PROVE  StockInv'
<1> DEFINE moved == IF row \in Tracked THEN delta ELSE 0
<1>1. /\ Lockable(r, row) /\ ~Short(r, row, delta)
      /\ lock' = [lock EXCEPT ![row] = r]
      /\ loaded' = [loaded EXCEPT ![r] = @ \cup {row}]
      /\ copy' = [copy EXCEPT ![r][row] = View(r, row) + moved]
      /\ pend' = [pend EXCEPT ![r][row] = @ + moved]
      /\ stock' = stock
    BY DEF LockAndMove
<1> SUFFICES ASSUME NEW q \in Requests, NEW other \in Rows
             PROVE  Guarded(q, other)' /\ Moved(q, other)'
    BY DEF StockInv
<1>2. Guarded(q, other) /\ Moved(q, other)
    BY DEF StockInv
<1>3. CASE q = r /\ other = row
    <2>1. /\ loaded'[r] = loaded[r] \cup {row} /\ lock'[row] = r
          /\ copy'[r][row] = View(r, row) + moved
          /\ pend'[r][row] = pend[r][row] + moved
          /\ pend[r][row] \in Int /\ stock[row] \in Int /\ copy[r][row] \in Int
        BY <1>1 DEF InvTypeOK
    <2>2. CASE row \in loaded[r]
        <3>1. View(r, row) = copy[r][row]
            BY <2>2 DEF View
        <3>2. row \in Direct => copy[r][row] = stock[row] + pend[r][row]
            BY <1>2, <1>3, <2>2 DEF Guarded
        <3>3. pend[r][row] # 0 => copy[r][row] >= 0
            BY <1>2, <1>3 DEF Moved
        <3> QED BY <1>1, <1>3, <2>1, <3>1, <3>2, <3>3 DEF Guarded, Moved, Short
    <2>3. CASE row \notin loaded[r]
        <3>1. View(r, row) = stock[row] /\ pend[r][row] = 0
            BY <1>2, <1>3, <2>3 DEF View, Moved
        <3> QED BY <1>1, <1>3, <2>1, <3>1 DEF Guarded, Moved, Short
    <2> QED BY <2>2, <2>3
<1>4. CASE q = r /\ other # row
    <2>1. /\ other \in loaded'[r] <=> other \in loaded[r]
          /\ lock'[other] = lock[other]
          /\ copy'[r][other] = copy[r][other] /\ pend'[r][other] = pend[r][other]
        BY <1>1, <1>4 DEF InvTypeOK
    <2> QED BY <1>1, <1>2, <1>4, <2>1 DEF Guarded, Moved
<1>5. CASE q # r
    <2>1. /\ loaded'[q] = loaded[q] /\ copy'[q] = copy[q] /\ pend'[q] = pend[q]
          /\ lock'[other] = IF other = row THEN r ELSE lock[other]
        BY <1>1, <1>5 DEF InvTypeOK
    <2>2. other = row => lock[other] # q
        BY <1>1, <1>5, InventoryAssumption DEF Lockable
    <2> QED BY <1>1, <1>2, <2>1, <2>2 DEF Guarded, Moved
<1> QED BY <1>3, <1>4, <1>5

LEMMA LockServiceStock ==
    ASSUME InvTypeOK, StockInv, NEW r \in Requests, NEW svc \in Services,
           LockService(r, svc)
    PROVE  StockInv'
<1> DEFINE rows == {svc, Uses[svc]}
<1>1. /\ Lockable(r, svc)
      /\ lock' = [lock EXCEPT ![svc] = r]
      /\ loaded' = [loaded EXCEPT ![r] = @ \cup rows]
      /\ copy' = [copy EXCEPT ![r] =
                     [row \in Rows |-> IF row \in rows THEN View(r, row) ELSE @[row]]]
      /\ stock' = stock /\ pend' = pend
    BY DEF LockService
<1>2. svc \in Rows
    BY InventoryAssumption
<1>3. \A row \in rows : row \in Direct => row = svc
    BY DEF Direct
<1> SUFFICES ASSUME NEW q \in Requests, NEW other \in Rows
             PROVE  Guarded(q, other)' /\ Moved(q, other)'
    BY DEF StockInv
<1>4. Guarded(q, other) /\ Moved(q, other)
    BY DEF StockInv
<1>5. CASE q = r
    <2>1. /\ other \in loaded'[r] <=> other \in loaded[r] \/ other \in rows
          /\ copy'[r][other] = IF other \in rows THEN View(r, other) ELSE copy[r][other]
          /\ lock'[other] = IF other = svc THEN r ELSE lock[other]
          /\ pend[r][other] \in Int /\ stock[other] \in Int
        BY <1>1, <1>2 DEF InvTypeOK
    <2>2. CASE other \in loaded[r]
        <3>1. copy'[r][other] = copy[r][other]
            BY <2>1, <2>2 DEF View
        <3> QED BY <1>1, <1>4, <1>5, <2>1, <2>2, <3>1 DEF Guarded, Moved
    <2>3. CASE other \notin loaded[r]
        <3>1. pend[r][other] = 0 /\ View(r, other) = stock[other]
            BY <1>4, <1>5, <2>3 DEF Moved, View
        <3> QED BY <1>1, <1>3, <1>5, <2>1, <2>3, <3>1 DEF Guarded, Moved
    <2> QED BY <2>2, <2>3
<1>6. CASE q # r
    <2>1. /\ loaded'[q] = loaded[q] /\ copy'[q] = copy[q] /\ pend'[q] = pend[q]
          /\ lock'[other] = IF other = svc THEN r ELSE lock[other]
        BY <1>1, <1>2, <1>6 DEF InvTypeOK
    <2>2. other = svc => lock[other] # q
        BY <1>1, <1>6, InventoryAssumption DEF Lockable
    <2> QED BY <1>1, <1>4, <2>1, <2>2 DEF Guarded, Moved
<1> QED BY <1>5, <1>6

\* The rows a commit changes are nobody else's.
LEMMA CloseSessionStock ==
    ASSUME InvTypeOK, StockInv, NEW r \in Requests, CloseSession(r),
           \A row \in Rows : lock[row] # r => stock'[row] = stock[row] \/ row \notin Direct
    PROVE  StockInv'
<1> SUFFICES ASSUME NEW q \in Requests, NEW other \in Rows
             PROVE  Guarded(q, other)' /\ Moved(q, other)'
    BY DEF StockInv
<1>1. Guarded(q, other) /\ Moved(q, other)
    BY DEF StockInv
<1>2. CASE q = r
    BY <1>2 DEF CloseSession, EmptyCopy, InvTypeOK, Guarded, Moved
<1>3. CASE q # r
    <2>1. /\ loaded'[q] = loaded[q] /\ copy'[q] = copy[q] /\ pend'[q] = pend[q]
          /\ lock'[other] = IF lock[other] = r THEN NoRequest ELSE lock[other]
        BY <1>3 DEF CloseSession, InvTypeOK
    <2> QED BY <1>1, <1>3, <2>1 DEF Guarded, Moved
<1> QED BY <1>2, <1>3

LEMMA CommitStockStock ==
    ASSUME InvTypeOK, StockInv, NEW r \in Requests, CommitStock(r)
    PROVE  /\ StockInv'
           /\ \A row \in Rows :
                /\ stock'[row] = IF pend[r][row] # 0 THEN copy[r][row] ELSE stock[row]
                /\ ledger'[row] = ledger[row] + pend[r][row]
<1>1. CloseSession(r)
    BY DEF CommitStock
<1>2. \A row \in Rows :
        /\ stock'[row] = IF pend[r][row] # 0 THEN copy[r][row] ELSE stock[row]
        /\ ledger'[row] = ledger[row] + pend[r][row]
    BY DEF CommitStock
<1>3. \A row \in Rows : lock[row] # r => stock'[row] = stock[row] \/ row \notin Direct
    BY <1>2 DEF StockInv, Guarded, Moved
<1> QED BY <1>1, <1>2, <1>3, CloseSessionStock

LEMMA RollbackStockStock ==
    ASSUME InvTypeOK, StockInv, NEW r \in Requests, RollbackStock(r)
    PROVE  StockInv'
BY CloseSessionStock DEF RollbackStock

LEMMA SingleRowStock ==
    ASSUME InvTypeOK, StockInv, NEW row \in Rows, lock[row] = NoRequest,
           \A other \in Rows \ {row} : stock'[other] = stock[other],
           UNCHANGED <<lock, loaded, copy, pend>>
    PROVE  StockInv'
<1> SUFFICES ASSUME NEW q \in Requests, NEW other \in Rows
             PROVE  Guarded(q, other)' /\ Moved(q, other)'
    BY DEF StockInv
<1>1. Guarded(q, other) /\ Moved(q, other)
    BY DEF StockInv
<1> QED BY <1>1, InventoryAssumption DEF Guarded, Moved

\* What a step does to the stock: nothing that shows, a commit, a stock-room
\* movement or an overwrite.
Shows == \/ UNCHANGED <<stock, ledger>>
         \/ \E r \in Requests : CommitStock(r)
         \/ \E row \in Rows, target \in Int : ApplyMovement(row, target)
         \/ \E row \in Rows, quantity \in Int : PatchStock(row, quantity)

LEMMA StockRoomShows ==
    ASSUME Typed, StockInv, NEW r \in Requests, StockRoom(r)
    PROVE  StockInv' /\ Shows
<1>1. InvTypeOK
    BY DEF Typed, TypeOK
<1>2. PICK row \in Rows :
        \/ \E quantity \in RestockBy : Restock(row, quantity)
        \/ \E quantity \in CountTo : CountStock(row, quantity)
        \/ \E delta \in AdjustBy : AdjustStock(row, delta)
        \/ \E quantity \in PatchTo : PatchStock(row, quantity)
    BY DEF StockRoom
<1>3. \/ \E target \in Int : ApplyMovement(row, target)
      \/ \E quantity \in Int : PatchStock(row, quantity)
    <2>1. stock[row] \in Int
        BY <1>1 DEF InvTypeOK
    <2>2. CASE \E quantity \in RestockBy : Restock(row, quantity)
        <3>1. PICK quantity \in RestockBy : Restock(row, quantity)
            BY <2>2
        <3>2. stock[row] + quantity \in Int
            BY <2>1, CheckoutAssumption
        <3> QED BY <3>1, <3>2 DEF Restock
    <2>3. CASE \E quantity \in CountTo : CountStock(row, quantity)
        BY <2>3, CheckoutAssumption DEF CountStock
    <2>4. CASE \E delta \in AdjustBy : AdjustStock(row, delta)
        <3>1. PICK delta \in AdjustBy : AdjustStock(row, delta)
            BY <2>4
        <3>2. stock[row] + delta \in Int
            BY <2>1, CheckoutAssumption
        <3> QED BY <3>1, <3>2 DEF AdjustStock
    <2>5. CASE \E quantity \in PatchTo : PatchStock(row, quantity)
        BY <2>5, CheckoutAssumption
    <2> QED BY <1>2, <2>2, <2>3, <2>4, <2>5
<1>4. /\ lock[row] = NoRequest
      /\ \A other \in Rows \ {row} : stock'[other] = stock[other]
      /\ UNCHANGED <<lock, loaded, copy, pend>>
    BY <1>1, <1>3 DEF ApplyMovement, PatchStock, InvTypeOK
<1> QED BY <1>1, <1>3, <1>4, SingleRowStock DEF Shows

LEMMA StockStep ==
    ASSUME Typed, StockInv, [Next]_vars
    PROVE  StockInv' /\ Shows
<1>1. InvTypeOK /\ TypeOK
    BY DEF Typed, TypeOK
<1>2. CASE UNCHANGED invVars
    BY <1>2 DEF StockInv, Guarded, Moved, invVars, Shows
<1>3. CASE \E r \in Requests : StockRoom(r)
    BY <1>3, StockRoomShows
<1>4. CASE \E r \in Requests, row \in Rows : MoveProduct(r, row)
    <2>1. PICK r \in Requests, row \in Rows : MoveProduct(r, row)
        BY <1>4
    <2> QED BY <1>1, <2>1, UnitsType, LockAndMoveStock DEF MoveProduct, LockAndMove, Shows
<1>5. CASE \E r \in Requests, row \in Rows : MoveService(r, row)
    <2>1. PICK r \in Requests, row \in Rows : MoveService(r, row)
        BY <1>5
    <2> QED BY <1>1, <2>1, LockServiceStock DEF MoveService, LockService, Shows
<1>6. CASE \E r \in Requests : MoveMaterial(r)
    <2>1. PICK r \in Requests : MoveMaterial(r)
        BY <1>6
    <2> DEFINE svc == txn[r].service
    <2>2. svc \in Services /\ svc \in Rows /\ Uses[svc] \in Rows /\ PerUnit[svc] \in Nat
        BY <2>1, InventoryAssumption DEF Typed, ServiceInHand, MoveMaterial
    <2>3. MaterialUnits(r) \in Int
        BY <1>1, <2>2, UnitsType DEF MaterialUnits
    <2> QED BY <1>1, <2>1, <2>2, <2>3, LockAndMoveStock DEF MoveMaterial, LockAndMove, Shows
<1>7. CASE \E r \in Requests : RollbackStock(r)
    BY <1>1, <1>7, RollbackStockStock DEF RollbackStock, Shows
<1>8. CASE \E r \in Requests : CommitStock(r)
    BY <1>1, <1>8, CommitStockStock DEF Shows
<1>9. CASE UNCHANGED vars
    BY <1>9, <1>2 DEF vars
<1>10. CASE \E s \in Sales : Stage(s) \/ ViewReceipt(s)
    BY <1>10, <1>2 DEF Stage, ViewReceipt
<1>11. CASE \E r \in Requests : Arrive(r)
    BY <1>11, <1>2, ZenonT(30) DEF Arrive, BeginFinalize, BeginCollect, BeginCancel, BeginVoid, Begin
<1>12. CASE \E r \in Requests : FinalizeSync(r) \/ CollectCommit(r)
                                \/ CollectNothingDue(r) \/ CancelCommit(r)
    BY <1>12, <1>2 DEF FinalizeSync, CollectCommit, CollectNothingDue, CancelCommit
<1>13. CASE \E r \in Requests : GenerateDocument(r) \/ ReadOutbox(r) \/ ApplyRollup(r)
    BY <1>13, <1>2 DEF GenerateDocument, ReadOutbox, ApplyRollup
<1>14. CASE \E r \in Requests : FinalizeCommit(r) \/ VoidCommit(r)
    BY <1>14, <1>8 DEF FinalizeCommit, VoidCommit
<1>15. CASE \E r \in Requests : Abandon(r)
    BY <1>15, <1>7 DEF Abandon
<1> QED BY <1>3, <1>4, <1>5, <1>6, <1>9, <1>10, <1>11, <1>12, <1>13, <1>14, <1>15
        DEF Next, Work, OutOfStock, DeadlockVictim, SaleGone, Fail

LEMMA InitStock == Init => StockInv
BY DEF Init, InvInit, StockInv, Guarded, Moved, EmptyCopy

LEMMA StockAlways == Spec => [](Typed /\ StockInv)
<1>1. Init => Typed /\ StockInv
    BY InitTyped, InitStock
<1>2. Typed /\ StockInv /\ [Next]_vars => (Typed /\ StockInv)'
    BY TypeStep, ServiceInHandStep, StockStep DEF Typed
<1> QED BY <1>1, <1>2, PTL DEF Spec

-----------------------------------------------------------------------------
\* No recorded movement leaves a row below zero, not even a material that a
\* handler moved in a stale copy.
THEOREM StockNeverBelowZero == Spec => NeverBelowZero
<1>1. ASSUME Typed, StockInv, [Next]_vars, NEW row \in Rows, ledger'[row] # ledger[row]
      PROVE  stock'[row] >= 0
    <2>1. InvTypeOK
        BY <1>1 DEF Typed, TypeOK
    <2>2. CASE \E r \in Requests : CommitStock(r)
        <3>1. PICK r \in Requests : CommitStock(r)
            BY <2>2
        <3>2. ledger'[row] = ledger[row] + pend[r][row]
            BY <3>1 DEF CommitStock
        <3>3. pend[r][row] # 0
            BY <1>1, <2>1, <3>2 DEF InvTypeOK
        <3>4. stock'[row] = copy[r][row]
            BY <3>1, <3>3 DEF CommitStock
        <3> QED BY <1>1, <3>3, <3>4 DEF StockInv, Moved
    <2>3. CASE \E other \in Rows, target \in Int : ApplyMovement(other, target)
        <3>1. PICK other \in Rows, target \in Int : ApplyMovement(other, target)
            BY <2>3
        <3>2. other = row
            BY <1>1, <2>1, <3>1 DEF ApplyMovement, InvTypeOK
        <3> QED BY <2>1, <3>1, <3>2 DEF ApplyMovement, InvTypeOK
    <2>4. CASE UNCHANGED ledger
        BY <1>1, <2>4
    <2> QED BY <1>1, <2>2, <2>3, <2>4, StockStep DEF Shows, PatchStock
<1>2. Typed /\ StockInv /\ [Next]_vars
          => [\A row \in Rows : ledger'[row] # ledger[row] => stock'[row] >= 0]_vars
    BY <1>1
<1> QED BY <1>2, StockAlways, PTL DEF Spec, NeverBelowZero

-----------------------------------------------------------------------------
\* A commit posts to the abstract ledger.
LEMMA CommitPosts ==
    ASSUME InvTypeOK, StockInv, NEW r \in Requests, CommitStock(r)
    PROVE  DirectLedger!Post
<1>1. \A row \in Rows :
        /\ stock'[row] = IF pend[r][row] # 0 THEN copy[r][row] ELSE stock[row]
        /\ ledger'[row] = ledger[row] + pend[r][row]
    BY CommitStockStock
<1>2. \A row \in Rows : /\ stock[row] \in Int /\ ledger[row] \in Int
                        /\ copy[r][row] \in Int /\ pend[r][row] \in Int
    BY DEF InvTypeOK
<1>3. ASSUME NEW row \in Direct
      PROVE  /\ stock'[row] \in Int /\ ledger'[row] \in Int
             /\ stock'[row] - stock[row] = ledger'[row] - ledger[row]
             /\ stock'[row] # stock[row] => stock'[row] >= 0
    <2>1. row \in Rows /\ Guarded(r, row) /\ Moved(r, row)
        BY DirectRows DEF StockInv
    <2> QED BY <1>1, <1>2, <2>1 DEF Guarded, Moved
<1> QED BY <1>3 DEF DirectLedger!Post, OnDirect

LEMMA MovementPosts ==
    ASSUME InvTypeOK, NEW row \in Rows, NEW target \in Int, ApplyMovement(row, target)
    PROVE  DirectLedger!Post
<1>1. ASSUME NEW other \in Direct
      PROVE  /\ stock'[other] \in Int /\ ledger'[other] \in Int
             /\ stock'[other] - stock[other] = ledger'[other] - ledger[other]
             /\ stock'[other] # stock[other] => stock'[other] >= 0
    <2>1. other \in Rows /\ stock[other] \in Int /\ ledger[other] \in Int
        BY DirectRows DEF InvTypeOK
    <2>2. CASE other = row
        BY <2>1, <2>2 DEF ApplyMovement, InvTypeOK
    <2>3. CASE other # row
        BY <2>1, <2>3 DEF ApplyMovement, InvTypeOK
    <2> QED BY <2>2, <2>3
<1> QED BY <1>1 DEF DirectLedger!Post, OnDirect

LEMMA PatchOverwrites ==
    ASSUME InvTypeOK, NEW row \in Rows, NEW quantity \in Int, PatchStock(row, quantity)
    PROVE  \/ \E direct \in Direct : DirectLedger!Overwrite(direct)
           \/ UNCHANGED DirectLedger!ledgerVars
<1>1. /\ ledger' = ledger
      /\ \A other \in Rows : stock'[other] \in Int
      /\ \A other \in Rows \ {row} : stock'[other] = stock[other]
    BY DEF PatchStock, InvTypeOK
<1>2. OnDirect(ledger)' = OnDirect(ledger)
    BY <1>1 DEF OnDirect
<1>3. CASE row \in Direct
    <2>1. DirectLedger!Overwrite(row)
        BY <1>1, <1>2, DirectRows DEF DirectLedger!Overwrite, OnDirect
    <2> QED BY <1>3, <2>1
<1>4. CASE row \notin Direct
    <2>1. OnDirect(stock)' = OnDirect(stock)
        BY <1>1, <1>4, DirectRows DEF OnDirect
    <2> QED BY <1>2, <2>1 DEF DirectLedger!ledgerVars
<1> QED BY <1>3, <1>4

\* The shop implements the abstract stock ledger for every row that is not a
\* service's material: each step posts movements that the history records by
\* the amount the quantity changed, is an overwrite from the catalogue form, or
\* shows nothing.
THEOREM StockImplementsLedger == Spec => ImplementsStockLedger
<1>1. Init => DirectLedger!Init
    BY DirectRows DEF Init, InvInit, DirectLedger!Init, OnDirect
<1>2. ASSUME Typed, StockInv, [Next]_vars
      PROVE  [DirectLedger!Next]_(DirectLedger!ledgerVars)
    <2>1. InvTypeOK
        BY <1>2 DEF Typed, TypeOK
    <2>2. CASE UNCHANGED <<stock, ledger>>
        BY <2>2 DEF DirectLedger!ledgerVars, OnDirect
    <2>3. CASE \E r \in Requests : CommitStock(r)
        BY <1>2, <2>1, <2>3, CommitPosts DEF DirectLedger!Next
    <2>4. CASE \E row \in Rows, target \in Int : ApplyMovement(row, target)
        BY <2>1, <2>4, MovementPosts DEF DirectLedger!Next
    <2>5. CASE \E row \in Rows, quantity \in Int : PatchStock(row, quantity)
        BY <2>1, <2>5, PatchOverwrites DEF DirectLedger!Next
    <2> QED BY <1>2, <2>2, <2>3, <2>4, <2>5, StockStep DEF Shows
<1> QED BY <1>1, <1>2, StockAlways, PTL DEF Spec, ImplementsStockLedger, DirectLedger!Spec
=============================================================================
