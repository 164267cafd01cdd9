----------------------------- MODULE MCCheckout -----------------------------
(***************************************************************************)
(* Catalogues and baskets for checking Checkout.                           *)
(***************************************************************************)
EXTENDS Checkout, TLC

CONSTANTS ale, beer, print, paper, sa, sb

\* Two products that both sales want, so that two checkouts can wait for each
\* other.
TwoProducts == {ale, beer}
NoServices == {}
NoUses == <<>>
ShelfStock == [row \in TwoProducts |-> 2]
OneSaleOfTwo == [s \in {sa} |-> [row \in TwoProducts |-> 1]]
TwoSalesOfTwo == [s \in {sa, sb} |-> [row \in TwoProducts |-> 1]]

\* A service that consumes a material which is also sold on its own.
Copyshop == {print, paper, beer}
PrintService == {print}
PrintUses == [svc \in PrintService |-> paper]
PrintPerUnit == [svc \in PrintService |-> 1]
CopyshopGoods == {paper, beer}
CopyshopStock == [row \in Copyshop |-> IF row \in CopyshopGoods THEN 2 ELSE 0]
\* One sale is the service and a product, the other the material by itself.
CopyshopSales ==
    [s \in {sa, sb} |->
        IF s = sa THEN [row \in Copyshop |-> IF row \in {print, beer} THEN 1 ELSE 0]
                  ELSE [row \in Copyshop |-> IF row = paper THEN 2 ELSE 0]]

ShelfAdjust == {-1}

TotalOfTwo == [s \in Sales |-> 2]

Symmetric == Permutations(Requests)
=============================================================================
