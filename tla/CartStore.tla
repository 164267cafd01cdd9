------------------------------ MODULE CartStore ------------------------------
(***************************************************************************)
(* The cart (useCartStore.ts) of a user who works in several businesses    *)
(* and several tabs: what is in it, whose it is and what it costs.         *)
(*                                                                         *)
(* A tab reads the cart from localStorage when it loads and writes all of  *)
(* it there with every change.  The cart is bound to a business; a page of *)
(* another business empties it, but only once the tab knows its user.      *)
(* A line keeps the price it was added at, from the tab's copy of the      *)
(* product list; the server charges the product's price at staging.        *)
(* Counter says what becomes of a cart that is sent to the server.         *)
(***************************************************************************)
EXTENDS Integers, FiniteSetsExt

CONSTANTS
    Windows,                  \* the tabs
    Businesses, NoBusiness,
    Products,
    Home,                     \* Home[product]: the business that sells it
    Prices,                   \* Prices[product]: what its selling price may be
    Shelf,                    \* Shelf[product]: stock on its card
    Discounts,                \* amounts typed into the discount field
    Fee                       \* amount of an extra fee

ASSUME CartStoreAssumption ==
    /\ NoBusiness \notin Businesses
    /\ IsFiniteSet(Products)
    /\ Home \in [Products -> Businesses]
    /\ Prices \in [Products -> SUBSET Nat]
    /\ Shelf \in [Products -> Nat \ {0}]
    /\ Discounts \subseteq Int
    /\ Fee \in Nat \ {0}

VARIABLES
    store,      \* each tab's copy of the cart
    kept,       \* the cart in localStorage
    place,      \* the business whose terminal or cart page each tab shows
    known,      \* tabs whose session, and so the user, has loaded
    early,      \* history: a cart was edited before its tab knew the user
    tag,        \* tag[product]: its selling price in the database
    catalogue, \* the product list the backend answers with, from its cache
    list        \* list[tab]: the product list each tab shows

priceVars == <<tag, catalogue, list>>
cartVars == <<store, kept, place, known, early, priceVars>>

-----------------------------------------------------------------------------
\* price is what a line was added at, fee the business at which the extra fee
\* was entered.  History: the price of an old line was edited since the list it
\* was added from was read; a cut cart lost goods since its discount was typed.
Cart == [scope : Businesses \cup {NoBusiness},
         qty : [Products -> Nat],
         price : [Products -> Nat],
         discount : Nat,
         fee : Businesses \cup {NoBusiness},
         old : SUBSET Products,
         cut : BOOLEAN]

EmptyCart(scope) == [scope |-> scope, qty |-> [p \in Products |-> 0],
                     price |-> [p \in Products |-> 0], discount |-> 0,
                     fee |-> NoBusiness, old |-> {}, cut |-> FALSE]

\* A list has the prices of the moment it was read from the database.  History:
\* the products whose price was edited since.
List == [price : [Products -> Nat], edited : SUBSET Products]

CartTypeOK ==
    /\ store \in [Windows -> Cart]
    /\ kept \in Cart
    /\ place \in [Windows -> Businesses \cup {NoBusiness}]
    /\ known \subseteq Windows
    /\ early \in BOOLEAN
    /\ tag \in [Products -> Nat]
    /\ catalogue \in List
    /\ list \in [Windows -> List]

FreshList == [price |-> tag, edited |-> {}]

CartInit ==
    /\ store = [t \in Windows |-> EmptyCart(NoBusiness)]
    /\ kept = EmptyCart(NoBusiness)
    /\ place = [t \in Windows |-> NoBusiness]
    /\ known = {}
    /\ early = FALSE
    /\ tag \in {prices \in [Products -> UNION {Prices[p] : p \in Products}] :
                   \A p \in Products : prices[p] \in Prices[p]}
    /\ catalogue = FreshList
    /\ list = [t \in Windows |-> catalogue]

-----------------------------------------------------------------------------
Lesser(a, b) == IF a < b THEN a ELSE b
AtLeastZero(n) == IF n < 0 THEN 0 ELSE n

\* What the lines of a cart come to at given prices.
WorthAt(c, prices) == MapThenSumSet(LAMBDA p : c.qty[p] * prices[p], Products)

Goods(c) == WorthAt(c, c.price)
Fees(c) == IF c.fee = NoBusiness THEN 0 ELSE Fee

\* A line with another quantity; without any it is filtered out.
Line(c, p, n) ==
    [c EXCEPT !.qty[p] = n,
              !.price[p] = IF n = 0 THEN 0 ELSE @,
              !.old = IF n = 0 THEN @ \ {p} ELSE @,
              !.cut = @ \/ n < c.qty[p]]

\* addToCart, from a product list: a new line takes the price of the list, an
\* existing one keeps its own and grows up to the stock on the card.
Added(c, p, l) ==
    IF c.qty[p] = 0
    THEN [c EXCEPT !.qty[p] = 1, !.price[p] = l.price[p], !.old = @ \cup ({p} \cap l.edited)]
    ELSE IF c.qty[p] < Shelf[p] THEN Line(c, p, c.qty[p] + 1) ELSE c

\* updateQty, by a step or to the number typed.
Counted(c, p, n) == Line(c, p, Lesser(AtLeastZero(n), Shelf[p]))

\* removeFromCart
Removed(c, p) == Line(c, p, 0)

\* Mutant: a negative amount is taken as it was typed.
DiscountedAsTyped(c, value) ==
    [c EXCEPT !.discount = Lesser(value, Goods(c)), !.cut = FALSE]

\* setDiscount: no more than the goods are worth at that moment.
Discounted(c, value) ==
    [c EXCEPT !.discount = Lesser(AtLeastZero(value), Goods(c)), !.cut = FALSE]

\* Mutant: a discount that outgrew its goods is taken off the fees as well.
GrandTotalUnclamped(c) == AtLeastZero(Goods(c) - c.discount + Fees(c))

\* getFinancials: what the cashier is shown.  Taxes are switched off.
DiscountApplied(c) == Lesser(AtLeastZero(c.discount), Goods(c))
GrandTotal(c) == AtLeastZero(AtLeastZero(Goods(c) - DiscountApplied(c)) + Fees(c))

\* initialize_checkout: the sale the server makes of the cart, at the prices of
\* the database and with the discount as it was sent.
StagedSubtotal(c) == AtLeastZero(WorthAt(c, tag) - c.discount)
StagedTotal(c) == StagedSubtotal(c) + Fees(c)

\* CheckoutWorkspace: the goods of the staged sale, recovered for its labels.
GoodsLabel(c) == StagedSubtotal(c) + c.discount

\* Mutant: the scope is noted, but what is in the cart stays.
ScopedKeeping(c, b) == [c EXCEPT !.scope = b]

\* validateAndSetScope: a cart of another business is emptied.
Scoped(c, b) == IF c.scope = b THEN c ELSE EmptyCart(b)

-----------------------------------------------------------------------------
\* set() of the persisted store: the tab's memory, and all of it to localStorage.
SetStore(t, c) ==
    /\ store' = [store EXCEPT ![t] = c]
    /\ kept' = c
    /\ tag' = tag

\* The effect of a page that mounts: it checks the scope if the user is known.
Mounted(t, c, b) == SetStore(t, IF t \in known' THEN Scoped(c, b) ELSE c)

\* useProducts: the tab fetches the product list and shows it.
FetchList(t) == list' = [list EXCEPT ![t] = catalogue] /\ catalogue' = catalogue

\* The tab loads a page of b: rehydration, which empties a cart without a
\* scope, and a new product list; the session has still to be fetched.
LoadPage(t, b) ==
    /\ place' = [place EXCEPT ![t] = b]
    /\ known' = known \ {t}
    /\ Mounted(t, IF kept.scope = NoBusiness THEN EmptyCart(NoBusiness) ELSE kept, b)
    /\ FetchList(t)
    /\ UNCHANGED early

\* A link to a page of b: the tab keeps its memory, its lists and its session.
Follow(t, b) ==
    /\ place[t] # NoBusiness
    /\ place' = [place EXCEPT ![t] = b]
    /\ known' = known
    /\ Mounted(t, store[t], b)
    /\ UNCHANGED <<early, catalogue, list>>

\* useSession answers, and the effect runs again.
SessionLoads(t) ==
    /\ place[t] # NoBusiness
    /\ t \notin known
    /\ known' = known \cup {t}
    /\ Mounted(t, store[t], place[t])
    /\ UNCHANGED <<place, early, catalogue, list>>

\* History: a line of p is old from now on.
Outdated(c, p) == IF c.qty[p] > 0 THEN [c EXCEPT !.old = @ \cup {p}] ELSE c

Edit(t, c) ==
    /\ place[t] # NoBusiness
    /\ SetStore(t, c)
    /\ early' = (early \/ t \notin known)
    /\ UNCHANGED <<place, known, catalogue, list>>

AddToCart(t, p) ==
    /\ Home[p] = place[t]
    /\ Edit(t, Added(store[t], p, list[t]))
RemoveFromCart(t, p) == Edit(t, Removed(store[t], p))
UpdateQty(t, p) ==
    /\ store[t].qty[p] > 0
    /\ \E n \in 0..(Shelf[p] + 1) : Edit(t, Counted(store[t], p, n))
SetDiscount(t) ==
    /\ \E p \in Products : store[t].qty[p] > 0
    /\ \E value \in Discounts : Edit(t, Discounted(store[t], value))

\* setServices: a fee is entered, or taken out.
SetServices(t) ==
    \/ Edit(t, [store[t] EXCEPT !.fee = place[t]])
    \/ store[t].fee # NoBusiness /\ Edit(t, [store[t] EXCEPT !.fee = NoBusiness])

\* clearCart: the scope stays.
ClearCart(t) == Edit(t, EmptyCart(store[t].scope))

\* The list goes stale and is fetched again while the page stays.
RefetchProducts(t) ==
    /\ place[t] # NoBusiness
    /\ FetchList(t)
    /\ UNCHANGED <<store, kept, place, known, early, tag>>

\* get_products finds no answer in its cache and reads the list.  An edit purges
\* the cache, but an answer that was read before it may be stored after the purge
\* and last until it expires: when the list is read again is open.
ReadCatalogue ==
    /\ catalogue' = FreshList
    /\ UNCHANGED <<store, kept, place, known, early, tag, list>>

\* Somebody edits a product's selling price; no cart is told.
EditPrice(p) ==
    /\ \E n \in Prices[p] : n # tag[p] /\ tag' = [tag EXCEPT ![p] = n]
    /\ store' = [t \in Windows |-> Outdated(store[t], p)]
    /\ kept' = Outdated(kept, p)
    /\ catalogue' = [catalogue EXCEPT !.edited = @ \cup {p}]
    /\ list' = [t \in Windows |-> [list[t] EXCEPT !.edited = @ \cup {p}]]
    /\ UNCHANGED <<place, known, early>>

CartNext ==
    \/ \E p \in Products : EditPrice(p)
    \/ ReadCatalogue
    \/ \E t \in Windows :
        \/ \E b \in Businesses : LoadPage(t, b) \/ Follow(t, b)
        \/ SessionLoads(t)
        \/ \E p \in Products : AddToCart(t, p) \/ RemoveFromCart(t, p) \/ UpdateQty(t, p)
        \/ SetDiscount(t) \/ SetServices(t) \/ ClearCart(t)
        \/ RefetchProducts(t)

CartSpec == CartInit /\ [][CartNext]_cartVars

-----------------------------------------------------------------------------
\* useCartStore.ts:742 "Must match backend initialize_checkout": whatever was
\* added, removed, typed and reloaded in which order, in whichever tab, the total
\* on the screen is the total the server will ask, although the two clamp the
\* discount apart and the cart adds up prices of its own, unless the price of
\* something in it was edited since the list it was added from was read.  The
\* checkout page then labels the goods and the discount as the cart did
\* (CheckoutWorkspace.tsx:119 "recover goods for honest labels"), unless goods
\* were taken out after the discount was typed.
QuotedAsStaged ==
    \A t \in Windows : store[t].old = {} =>
        /\ GrandTotal(store[t]) = StagedTotal(store[t])
        /\ ~store[t].cut =>
            /\ GoodsLabel(store[t]) = Goods(store[t])
            /\ store[t].discount = DiscountApplied(store[t])

\* useCartStore.ts:561 "Enforce zero leakage": a tab that knows its user shows
\* a cart of its own business only, through reloads and links and the carts of
\* other tabs, unless a cart was edited before the user was known.
CartIsOfThisBusiness ==
    \A t \in known :
        ~early =>
            /\ store[t].scope = place[t]
            /\ store[t].fee \in {NoBusiness, place[t]}
            /\ \A p \in Products : store[t].qty[p] > 0 => Home[p] = place[t]
=============================================================================
