------------------------------- MODULE Counter -------------------------------
(***************************************************************************)
(* The cashier's side of one sale after another in the browser: the cart,  *)
(* the staged sale a tab remembers (stagedSale.ts), the terminal, checkout *)
(* and completion pages, and the calls between them and the server, which  *)
(* may be answered late or never.                                          *)
(*                                                                         *)
(* Every tab has a copy of the cart in memory.  Each change of it writes   *)
(* the whole of it to localStorage, which the tabs share and which a tab   *)
(* reads only when it loads (what is in a cart is the subject of           *)
(* CartStore; here it is the set of units that were rung up).  The id of   *)
(* the staged sale is in sessionStorage, one per tab.  Refusals are not    *)
(* told from calls that never reached the server: the page keeps what it   *)
(* has after either.                                                       *)
(***************************************************************************)
EXTENDS Naturals, FiniteSets

CONSTANTS
    Tabs,
    Units,            \* units of goods; each is rung up once
    Sales, NoSale,    \* sale ids
    MaxFinals,        \* bounds how often one sale is finalized
    MaxCalls          \* bounds the calls in flight

ASSUME CounterAssumption ==
    Tabs # {} /\ NoSale \notin Sales /\ MaxFinals \in Nat /\ MaxCalls \in Nat

VARIABLES
    cart,       \* each tab's copy of the cart
    saved,      \* the cart in localStorage
    page,       \* the page each tab shows, its sale, and the calls it waits for
    marker,     \* the staged sale each tab remembers
    calls,      \* calls that have not come back
    sale,       \* the sales on the server
    unsure,     \* history: tabs that left, or never got the answer of, a call
    dismissed,  \* history: tabs on which a staged sale was dismissed
    returned,   \* history: tabs that went to a checkout they did not remember
    opened,     \* history: sales whose checkout was opened on a tab that did not stage them
    shared      \* history: units that came to be in the carts of two tabs

counterVars == <<cart, saved, page, marker, calls, sale, unsure, dismissed, returned, opened, shared>>
clientVars == <<cart, saved, page, marker>>
slipVars == <<unsure, dismissed, returned, opened, shared>>

-----------------------------------------------------------------------------
Kinds == {"stage", "pay", "cancel", "discard"}

\* "terminal" is the terminal or the cart page, which have the same controls.
Page == [shows : {"nothing", "terminal", "checkout", "complete"},
         sale : Sales \cup {NoSale},
         busy : SUBSET Kinds,
         past : SUBSET Sales]         \* the checkouts among the tab's earlier pages

Call == [tab : Tabs, kind : Kinds, sale : Sales, units : SUBSET Units, served : BOOLEAN,
         awaited : BOOLEAN]           \* the script that sent it still runs

Row == [status : {"UNSTAGED", "PENDING_PAYMENT", "PARTIALLY_PAID", "COMPLETED", "DELETED"},
        by : Tabs,
        units : SUBSET Units,
        finals : Nat,            \* how often it was finalized
        paid : BOOLEAN,          \* it has payment rows
        doc : BOOLEAN]           \* it has a document

Unstaged == [status |-> "UNSTAGED", by |-> CHOOSE t \in Tabs : TRUE, units |-> {},
             finals |-> 0, paid |-> FALSE, doc |-> FALSE]

CounterTypeOK ==
    /\ cart \in [Tabs -> SUBSET Units]
    /\ saved \in SUBSET Units
    /\ page \in [Tabs -> Page]
    /\ marker \in [Tabs -> Sales \cup {NoSale}]
    /\ calls \in SUBSET Call
    /\ sale \in [Sales -> Row]
    /\ unsure \in SUBSET Tabs
    /\ dismissed \in SUBSET Tabs
    /\ returned \in SUBSET Tabs
    /\ opened \in SUBSET Sales
    /\ shared \in SUBSET Units

CounterInit ==
    /\ cart = [t \in Tabs |-> {}]
    /\ saved = {}
    /\ page = [t \in Tabs |-> [shows |-> "nothing", sale |-> NoSale, busy |-> {}, past |-> {}]]
    /\ marker = [t \in Tabs |-> NoSale]
    /\ calls = {}
    /\ sale = [s \in Sales |-> Unstaged]
    /\ unsure = {}
    /\ dismissed = {}
    /\ returned = {}
    /\ opened = {}
    /\ shared = {}

-----------------------------------------------------------------------------
\* set() of the persisted store: the tab's memory, and all of it to localStorage.
SetCart(t, units) ==
    /\ cart' = [cart EXCEPT ![t] = units]
    /\ saved' = units

SameCart == UNCHANGED <<cart, saved>>

Show(t, shows, s) ==
    page' = [page EXCEPT ![t] = [shows |-> shows, sale |-> s, busy |-> {},
                                 past |-> IF shows = "checkout" THEN @.past \cup {s} ELSE @.past]]

\* The page that waited for a call is gone; only the call is not.
Unmount(t) == unsure' = IF \E m \in calls : m.tab = t THEN unsure \cup {t} ELSE unsure

\* The tab loads a page: the cart comes from localStorage, and whatever the tab
\* was waiting for may still be served, but not answered.
Fresh(t) ==
    /\ SetCart(t, saved)
    /\ Unmount(t)
    /\ calls' = {[m EXCEPT !.awaited = @ /\ m.tab # t] : m \in calls}
    /\ shared' = shared \cup (saved \cap UNION {cart[u] : u \in Tabs \ {t}})

Load(t) ==
    /\ Fresh(t)
    /\ Show(t, "terminal", NoSale)
    /\ UNCHANGED <<marker, sale, dismissed, returned, opened>>

Reaches(t, s) == returned' = IF marker[t] = s THEN returned ELSE returned \cup {t}

\* The tab loads a checkout by its address: a reload of it, or the link "Resume"
\* or the page itself opened in another tab.
OpenCheckout(t, s) ==
    /\ \E u \in Tabs : \/ page[u].shows = "terminal" /\ marker[u] = s
                       \/ page[u].shows = "checkout" /\ page[u].sale = s
    /\ Fresh(t)
    /\ Show(t, "checkout", s)
    /\ Reaches(t, s)
    /\ opened' = IF sale[s].by = t THEN opened ELSE opened \cup {s}
    /\ UNCHANGED <<marker, sale, dismissed>>

\* A link to the terminal, or Back; Back leads there from the summary too.
GoToTerminal(t) ==
    /\ page[t].shows # "nothing"
    /\ Show(t, "terminal", NoSale)
    /\ Unmount(t)
    /\ UNCHANGED <<cart, saved, marker, calls, sale, dismissed, returned, opened, shared>>

\* Back from the terminal, as far as a checkout that was opened before; only the
\* summary of a sale keeps Back from it.
BackToCheckout(t, s) ==
    /\ page[t].shows = "terminal"
    /\ s \in page[t].past
    /\ Show(t, "checkout", s)
    /\ Unmount(t)
    /\ Reaches(t, s)
    /\ UNCHANGED <<cart, saved, marker, calls, sale, dismissed, opened, shared>>

\* "Resume" on the banner of the terminal.
Resume(t) ==
    /\ page[t].shows = "terminal"
    /\ marker[t] # NoSale
    /\ Show(t, "checkout", marker[t])
    /\ Unmount(t)
    /\ UNCHANGED <<cart, saved, marker, calls, sale, dismissed, returned, opened, shared>>

\* "Dismiss" on the banner: the tab forgets the staged sale.
Dismiss(t) ==
    /\ page[t].shows = "terminal"
    /\ marker[t] # NoSale
    /\ marker' = [marker EXCEPT ![t] = NoSale]
    /\ dismissed' = dismissed \cup {t}
    /\ UNCHANGED <<cart, saved, page, calls, sale, unsure, returned, opened, shared>>

-----------------------------------------------------------------------------
\* Cards, removal by Ctrl+click and "Clear" stay enabled while a sale is being
\* staged.  A unit is rung up once.
RungUp(u) ==
    \/ u \in saved
    \/ \E t \in Tabs : u \in cart[t]
    \/ \E m \in calls : u \in m.units
    \/ \E s \in Sales : u \in sale[s].units

Add(t, u) ==
    /\ page[t].shows = "terminal"
    /\ ~RungUp(u)
    /\ SetCart(t, cart[t] \cup {u})
    /\ UNCHANGED <<page, marker, calls, sale, slipVars>>

Remove(t, units) ==
    /\ page[t].shows = "terminal"
    /\ units \subseteq cart[t]
    /\ SetCart(t, cart[t] \ units)
    /\ UNCHANGED <<page, marker, calls, sale, slipVars>>

-----------------------------------------------------------------------------
(* Calls. *)

SendCall(t, kind, s, units) ==
    /\ kind \notin page[t].busy
    /\ Cardinality(calls) < MaxCalls
    /\ calls' = calls \cup {[tab |-> t, kind |-> kind, sale |-> s, units |-> units,
                             served |-> FALSE, awaited |-> TRUE]}
    /\ page' = [page EXCEPT ![t].busy = @ \cup {kind}]

\* Mutant: the tab does not look whether it has a staged sale.
RemembersNothing(t) == FALSE

Remembers(t) == marker[t] # NoSale

\* handleCheckoutRedirect, stageAndCheckout: a tab that remembers a staged sale
\* opens it; any other sends its cart.
Checkout(t) ==
    /\ page[t].shows = "terminal"
    /\ cart[t] # {}
    /\ "stage" \notin page[t].busy
    /\ IF Remembers(t)
       THEN Show(t, "checkout", marker[t]) /\ calls' = calls
       ELSE \E s \in Sales :
              /\ sale[s].status = "UNSTAGED"
              /\ \A m \in calls : m.sale # s
              /\ SendCall(t, "stage", s, cart[t])
    /\ UNCHANGED <<cart, saved, marker, sale, slipVars>>

\* onPay
Pay(t) ==
    /\ page[t].shows = "checkout"
    /\ SendCall(t, "pay", page[t].sale, {})
    /\ UNCHANGED <<cart, saved, marker, sale, slipVars>>

\* cancelStagedAndReturn, enabled also while a payment is being sent.
Cancel(t) ==
    /\ page[t].shows = "checkout"
    /\ SendCall(t, "cancel", page[t].sale, {})
    /\ UNCHANGED <<cart, saved, marker, sale, slipVars>>

\* "Discard" on the terminal's banner.  The button stays enabled during its
\* call; a second one would be refused.
Discard(t) ==
    /\ page[t].shows = "terminal"
    /\ marker[t] # NoSale
    /\ SendCall(t, "discard", marker[t], {})
    /\ UNCHANGED <<cart, saved, marker, sale, slipVars>>

-----------------------------------------------------------------------------
(* The server. *)

Served(m) == calls' = (calls \ {m}) \cup {[m EXCEPT !.served = TRUE]}

\* initialize_checkout
ServeStage(m) ==
    /\ m.kind = "stage"
    /\ sale' = [sale EXCEPT ![m.sale] = [Unstaged EXCEPT !.status = "PENDING_PAYMENT",
                                           !.by = m.tab, !.units = m.units]]

\* finalize_checkout, for the whole amount, a part of it, or on credit.
ServePay(m) ==
    /\ m.kind = "pay"
    /\ sale[m.sale].status \in {"PENDING_PAYMENT", "PARTIALLY_PAID"}
    /\ ~sale[m.sale].doc
    /\ sale[m.sale].finals < MaxFinals
    /\ \E status \in {"PENDING_PAYMENT", "PARTIALLY_PAID", "COMPLETED"} :
         sale' = [sale EXCEPT ![m.sale].status = status,
                              ![m.sale].finals = @ + 1,
                              ![m.sale].paid = @ \/ status # "PENDING_PAYMENT"]

\* cancel_staged_sale
ServeCancel(m) ==
    /\ m.kind \in {"cancel", "discard"}
    /\ sale[m.sale].status = "PENDING_PAYMENT"
    /\ ~sale[m.sale].doc
    /\ ~sale[m.sale].paid
    /\ sale' = [sale EXCEPT ![m.sale].status = "DELETED"]

Serve(m) ==
    /\ ~m.served
    /\ ServeStage(m) \/ ServePay(m) \/ ServeCancel(m)
    /\ Served(m)
    /\ UNCHANGED <<clientVars, slipVars>>

\* The background task writes the document of a finalized sale.
MintDocument(s) ==
    /\ sale[s].finals > 0
    /\ sale[s].status # "DELETED"
    /\ ~sale[s].doc
    /\ sale' = [sale EXCEPT ![s].doc = TRUE]
    /\ UNCHANGED <<clientVars, calls, slipVars>>

-----------------------------------------------------------------------------
(* Answers.  What follows an await runs whatever page the tab shows by now.  *)

\* Mutant: the cart is kept.
StagedKeeping(m) ==
    /\ SameCart
    /\ marker' = [marker EXCEPT ![m.tab] = m.sale]
    /\ Show(m.tab, "checkout", m.sale)

\* The cart is emptied, the sale remembered, its checkout opened.
Staged(m) ==
    /\ SetCart(m.tab, {})
    /\ marker' = [marker EXCEPT ![m.tab] = m.sale]
    /\ Show(m.tab, "checkout", m.sale)

\* Mutant: the tab goes on remembering the sale as staged.
PaidRemembering(m) ==
    /\ SetCart(m.tab, {})
    /\ marker' = marker
    /\ Show(m.tab, "complete", m.sale)

\* The cart is emptied, the sale forgotten, its summary opened.
Paid(m) ==
    /\ SetCart(m.tab, {})
    /\ marker' = [marker EXCEPT ![m.tab] = NoSale]
    /\ Show(m.tab, "complete", m.sale)

\* The sale is forgotten and the terminal opened.
Cancelled(m) ==
    /\ SameCart
    /\ marker' = [marker EXCEPT ![m.tab] = NoSale]
    /\ Show(m.tab, "terminal", NoSale)

\* The sale is forgotten, the page stays.
Discarded(m) ==
    /\ SameCart
    /\ marker' = [marker EXCEPT ![m.tab] = NoSale]
    /\ page' = [page EXCEPT ![m.tab].busy = @ \ {"discard"}]

Receive(m) ==
    /\ m.served /\ m.awaited
    /\ \/ m.kind = "stage" /\ Staged(m)
       \/ m.kind = "pay" /\ Paid(m)
       \/ m.kind = "cancel" /\ Cancelled(m)
       \/ m.kind = "discard" /\ Discarded(m)
    /\ calls' = calls \ {m}
    /\ unsure' = IF m.kind # "discard" /\ \E other \in calls \ {m} : other.tab = m.tab
                 THEN unsure \cup {m.tab} ELSE unsure
    /\ UNCHANGED <<sale, dismissed, returned, opened, shared>>

\* An error answer, or no answer: the page keeps everything as it is.
Fail(m) ==
    /\ calls' = calls \ {m}
    /\ page' = IF m.awaited THEN [page EXCEPT ![m.tab].busy = @ \ {m.kind}] ELSE page
    /\ unsure' = IF m.served THEN unsure \cup {m.tab} ELSE unsure
    /\ UNCHANGED <<cart, saved, marker, sale, dismissed, returned, opened, shared>>

CounterNext ==
    \/ \E t \in Tabs :
        \/ Load(t) \/ GoToTerminal(t) \/ Resume(t) \/ Dismiss(t)
        \/ \E s \in Sales : OpenCheckout(t, s) \/ BackToCheckout(t, s)
        \/ \E u \in Units : Add(t, u) \/ Remove(t, {u})
        \/ Remove(t, cart[t])
        \/ Checkout(t) \/ Pay(t) \/ Cancel(t) \/ Discard(t)
    \/ \E m \in calls : Serve(m) \/ Receive(m) \/ Fail(m)
    \/ \E s \in Sales : MintDocument(s)

CounterSpec == CounterInit /\ [][CounterNext]_counterVars

-----------------------------------------------------------------------------
\* A staged sale that was neither finalized nor deleted.
Pending(s) == sale[s].status = "PENDING_PAYMENT" /\ sale[s].finals = 0

\* CartSideBar.tsx:246: resume the staged sale "instead of creating a second
\* pending row".  One tab has two unfinished sales only after it was left during
\* a call, missed an answer, had a staged sale dismissed, or went to a checkout it
\* did not remember (and forgot the one it did by cancelling that).
SecondPendingNeedsSlip ==
    \A s, r \in Sales :
        s # r /\ Pending(s) /\ Pending(r) /\ sale[s].by = sale[r].by
            => sale[s].by \in unsure \cup dismissed \cup returned

\* A unit that was rung up once is staged once: the cart is emptied when its sale
\* is staged, and what a reload brings back does not go to the server again,
\* unless a tab was left during a call or missed an answer, or two tabs came to
\* have the unit in their carts.
SoldTwiceNeedsSlip ==
    \A s, r \in Sales : \A u \in sale[s].units \cap sale[r].units :
        s # r => u \in shared \/ sale[s].by \in unsure \/ sale[r].by \in unsure

\* CompleteSaleClient.tsx:125 "Prevent Back from reopening checkout (double-pay
\* risk)": a sale is finalized again, which the server allows a sale on credit,
\* only after the tab that staged it was left during a call or missed an answer,
\* or went back beyond the terminal to the checkout it had left, or after another
\* tab opened that checkout.
FinalizedTwiceNeedsSlip ==
    \A s \in Sales : sale[s].finals > 1 => sale[s].by \in unsure \cup returned \/ s \in opened
=============================================================================
