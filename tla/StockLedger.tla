---------------------------- MODULE StockLedger ----------------------------
(***************************************************************************)
(* What the stock of a shop promises, without any transaction machinery:   *)
(* every product has a quantity on hand, every recorded movement changes   *)
(* the quantity and the movement history by the same amount in one step,   *)
(* and no recorded movement leaves a negative quantity.  The one way to    *)
(* change a quantity behind the history's back is to overwrite it, which   *)
(* PATCH /products/{id} does.                                              *)
(***************************************************************************)
EXTENDS Integers

CONSTANTS
    Rows,          \* catalogue rows (products and services)
    OpeningStock   \* quantity on hand before the first movement

VARIABLES
    stock,         \* products.stock
    ledger         \* sum of stock_history.quantity per product

ledgerVars == <<stock, ledger>>

Init ==
    /\ stock = OpeningStock
    /\ ledger = [row \in Rows |-> 0]

\* One transaction posts its movements: any rows, each by what the history
\* records for it, and none below zero.
Post ==
    /\ stock' \in [Rows -> Int]
    /\ ledger' \in [Rows -> Int]
    /\ \A row \in Rows :
        /\ stock'[row] - stock[row] = ledger'[row] - ledger[row]
        /\ stock'[row] # stock[row] => stock'[row] >= 0

\* The catalogue form sets a quantity outright and writes no history row.
Overwrite(row) ==
    /\ stock' \in [Rows -> Int]
    /\ \A other \in Rows \ {row} : stock'[other] = stock[other]
    /\ ledger' = ledger

Next == Post \/ \E row \in Rows : Overwrite(row)

Spec == Init /\ [][Next]_ledgerVars
=============================================================================
