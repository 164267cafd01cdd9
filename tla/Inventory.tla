----------------------------- MODULE Inventory -----------------------------
(***************************************************************************)
(* Stock rows as the request handlers see them (crud/stock.py and          *)
(* crud/product_materials.py).                                             *)
(*                                                                         *)
(* A request runs one database transaction in one SQLAlchemy session.  Two *)
(* things decide what it may read and write:                               *)
(*                                                                         *)
(*   - the row lock: SELECT ... FOR UPDATE waits for the holder and the    *)
(*     lock is kept until commit or rollback;                              *)
(*   - the identity map: the session keeps the first copy of a row it      *)
(*     loads.  A later SELECT of the same row, locked or not, returns that *)
(*     copy unrefreshed (core/session.py: expire_on_commit=False, and no   *)
(*     query uses populate_existing).                                      *)
(*                                                                         *)
(* Quantities are integers: the float columns hold unit counts.            *)
(***************************************************************************)
EXTENDS Integers

CONSTANTS
    Requests,      \* the HTTP requests that will ever be served
    NoRequest,     \* owner of an unlocked row
    Rows,          \* catalogue rows (table products)
    Services,      \* rows with item_type = SERVICE
    Tracked,       \* rows with track_stock = TRUE; never a service
    Uses,          \* material of a service; the service itself if labour only
    PerUnit,       \* units of material one unit of the service consumes
    OpeningStock   \* products.stock at the start

ASSUME InventoryAssumption ==
    /\ NoRequest \notin Requests
    /\ Rows # {}
    /\ Services \subseteq Rows
    /\ Tracked \subseteq Rows \ Services
    /\ Uses \in [Services -> Rows]
    /\ \A svc \in Services : Uses[svc] = svc \/ Uses[svc] \notin Services
    /\ PerUnit \in [Services -> Nat \ {0}]
    /\ OpeningStock \in [Rows -> Nat]

VARIABLES
    stock,    \* products.stock, as committed
    ledger,   \* sum of stock_history.quantity per row, as committed
    lock,     \* the request that holds the row lock, or NoRequest
    loaded,   \* rows in the identity map of a request's session
    copy,     \* the session's copy of stock, its own changes included
    pend      \* sum of the history rows the session added and not committed

invVars == <<stock, ledger, lock, loaded, copy, pend>>

\* Rows that no service consumes as its material.
Direct == Rows \ {Uses[svc] : svc \in {svc \in Services : Uses[svc] # svc}}

OnDirect(column) == [row \in Direct |-> column[row]]

\* The stock of the direct rows, and of all rows, as an abstract ledger.
DirectLedger == INSTANCE StockLedger WITH
    Rows <- Direct,
    OpeningStock <- OnDirect(OpeningStock),
    stock <- OnDirect(stock),
    ledger <- OnDirect(ledger)

WholeLedger == INSTANCE StockLedger

EmptyCopy == [row \in Rows |-> 0]

InvTypeOK ==
    /\ stock \in [Rows -> Int]
    /\ ledger \in [Rows -> Int]
    /\ lock \in [Rows -> Requests \cup {NoRequest}]
    /\ loaded \in [Requests -> SUBSET Rows]
    /\ copy \in [Requests -> [Rows -> Int]]
    /\ pend \in [Requests -> [Rows -> Int]]

InvInit ==
    /\ stock = OpeningStock
    /\ ledger = [row \in Rows |-> 0]
    /\ lock = [row \in Rows |-> NoRequest]
    /\ loaded = [r \in Requests |-> {}]
    /\ copy = [r \in Requests |-> EmptyCopy]
    /\ pend = [r \in Requests |-> EmptyCopy]

-----------------------------------------------------------------------------
(* Steps of a transaction. *)

\* Mutant: the rows are selected without FOR UPDATE.
LockableAlways(r, row) == row \in Rows

Lockable(r, row) == lock[row] \in {NoRequest, r}

\* What a SELECT of the row gives the session: its own copy if it has one.
View(r, row) == IF row \in loaded[r] THEN copy[r][row] ELSE stock[row]

\* Mutant: only an empty shelf is refused.
ShortWhenEmpty(r, row, delta) == row \in Tracked /\ View(r, row) < 0

\* A movement the handlers refuse: apply_sale_item_deduction and
\* apply_movement both answer 409 when the row would go below zero.
Short(r, row, delta) == row \in Tracked /\ View(r, row) + delta < 0

\* SELECT ... FOR UPDATE on the row, then apply_movement on the session's copy.
\* A row that does not track stock is locked and left alone.
LockAndMove(r, row, delta) ==
    LET moved == IF row \in Tracked THEN delta ELSE 0
    IN  /\ Lockable(r, row)
        /\ ~Short(r, row, delta)
        /\ lock' = [lock EXCEPT ![row] = r]
        /\ loaded' = [loaded EXCEPT ![r] = @ \cup {row}]
        /\ copy' = [copy EXCEPT ![r][row] = View(r, row) + moved]
        /\ pend' = [pend EXCEPT ![r][row] = @ + moved]
        /\ UNCHANGED <<stock, ledger>>

\* The service row is locked; list_materials then joins the material row in
\* without a lock, which puts the material into the identity map.
LockService(r, svc) ==
    LET rows == {svc, Uses[svc]}
    IN  /\ Lockable(r, svc)
        /\ lock' = [lock EXCEPT ![svc] = r]
        /\ loaded' = [loaded EXCEPT ![r] = @ \cup rows]
        /\ copy' = [copy EXCEPT ![r] =
                       [row \in Rows |-> IF row \in rows THEN View(r, row) ELSE @[row]]]
        /\ UNCHANGED <<stock, ledger, pend>>

\* Mutant: the connection goes back to the pool with its transaction open.
CloseSessionLeaking(r) ==
    /\ loaded' = [loaded EXCEPT ![r] = {}]
    /\ copy' = [copy EXCEPT ![r] = EmptyCopy]
    /\ pend' = [pend EXCEPT ![r] = EmptyCopy]
    /\ UNCHANGED lock

\* The session ends: its locks are released and its identity map is dropped.
CloseSession(r) ==
    /\ lock' = [row \in Rows |-> IF lock[row] = r THEN NoRequest ELSE lock[row]]
    /\ loaded' = [loaded EXCEPT ![r] = {}]
    /\ copy' = [copy EXCEPT ![r] = EmptyCopy]
    /\ pend' = [pend EXCEPT ![r] = EmptyCopy]

\* COMMIT: an UPDATE writes the session's value of each row it changed, and the
\* history rows become visible.
CommitStock(r) ==
    /\ stock' = [row \in Rows |-> IF pend[r][row] # 0 THEN copy[r][row] ELSE stock[row]]
    /\ ledger' = [row \in Rows |-> ledger[row] + pend[r][row]]
    /\ CloseSession(r)

RollbackStock(r) == CloseSession(r) /\ UNCHANGED <<stock, ledger>>

-----------------------------------------------------------------------------
(* Stock-room requests.  Each locks one row, moves it and commits, so nobody *)
(* sees it half done; it waits while a checkout holds the row.               *)

ApplyMovement(row, target) ==
    /\ lock[row] = NoRequest
    /\ target >= 0
    /\ stock' = [stock EXCEPT ![row] = target]
    /\ ledger' = [ledger EXCEPT ![row] = @ + (target - stock[row])]
    /\ UNCHANGED <<lock, loaded, copy, pend>>

Restock(row, quantity) == ApplyMovement(row, stock[row] + quantity)

CountStock(row, quantity) == ApplyMovement(row, quantity)

AdjustStock(row, delta) == ApplyMovement(row, stock[row] + delta)

\* PATCH /products/{id} with a stock field: the UPDATE waits for the row lock
\* and writes the number it was given; no movement is recorded.  The row of a
\* service is always reset to 0.
PatchStock(row, quantity) ==
    /\ lock[row] = NoRequest
    /\ stock' = [stock EXCEPT ![row] = IF row \in Services THEN 0 ELSE quantity]
    /\ UNCHANGED <<ledger, lock, loaded, copy, pend>>
=============================================================================
