--------------------------- MODULE TerminalProofs ---------------------------
(***************************************************************************)
(* Proofs about Counter and CartStore.                                     *)
(***************************************************************************)
EXTENDS MCTerminal, FiniteSetTheorems, WellFoundedInduction, TLAPS

-----------------------------------------------------------------------------
(* Counter: the inductive invariant. *)

\* A checkout is the checkout of a sale.
PagesFilled == \A t \in Tabs : page[t].shows = "checkout" => page[t].sale # NoSale

\* A sale whose id is free has its first content until it is staged.
RowsFresh == \A s \in Sales : sale[s].status = "UNSTAGED" => sale[s] = Unstaged

\* A sale the tab may act on: it staged the sale, or opened another tab's.
Acts(t, s) == sale[s].by = t \/ (t \in returned /\ s \in opened)

\* A sale the tab knows: it is staged, and the call that did so has come back.
Knows(t, s) ==
    /\ s \in Sales
    /\ sale[s].status # "UNSTAGED"
    /\ Acts(t, s)
    /\ \A m \in calls : m.kind = "stage" => m.sale # s

TabsKnow ==
    \A t \in Tabs :
        /\ marker[t] # NoSale => Knows(t, marker[t]) /\ sale[marker[t]].by = t
        /\ page[t].sale # NoSale => Knows(t, page[t].sale)
        /\ \A s \in page[t].past : Knows(t, s)

\* A stage call has its sale to itself; any other call is about a sale that the
\* tab knows, and once it was served its effect is there.
CallsBacked ==
    \A m \in calls :
        /\ m.kind = "stage" /\ ~m.served => sale[m.sale].status = "UNSTAGED"
        /\ m.kind = "stage" /\ m.served =>
            sale[m.sale].status # "UNSTAGED" /\ sale[m.sale].by = m.tab /\ sale[m.sale].finals = 0
        /\ m.kind = "stage" => \A n \in calls : n.sale = m.sale => n = m
        /\ m.kind # "stage" => sale[m.sale].status # "UNSTAGED" /\ Acts(m.tab, m.sale)
        /\ m.kind = "pay" /\ m.served => sale[m.sale].finals > 0
        /\ m.kind \in {"cancel", "discard"} /\ m.served => sale[m.sale].status = "DELETED"

\* A tab that never left a call is still on the page that sent it, and sent one
\* of a kind.
Waits(m) ==
    /\ m.awaited
    /\ m.kind \in page[m.tab].busy \/ (m.kind = "discard" /\ page[m.tab].shows # "terminal")
    /\ m.kind = "stage" => page[m.tab].shows = "terminal"
    /\ m.kind \in {"pay", "cancel"} => page[m.tab].shows = "checkout"
    /\ m.kind = "pay" => page[m.tab].sale = m.sale
    /\ \A n \in calls : n.tab = m.tab /\ n.kind = m.kind => n = m

CallsWait == \A m \in calls : m.tab \in unsure \/ Waits(m)

Slip(t) == t \in unsure \cup dismissed \cup returned

\* The tab remembers the sale, or forgot it on its checkout when it was discarded.
Minds(t, s) ==
    \/ marker[t] = s
    \/ marker[t] = NoSale /\ sale[s].status = "DELETED" /\ page[t].shows = "checkout"

StageCallOf(t, s) ==
    \E m \in calls : m.kind = "stage" /\ m.served /\ m.tab = t /\ m.sale = s

\* A tab without a slip stages only when it remembers nothing, and remembers
\* every sale it staged that is unfinished.
CallsRemembered ==
    \A m \in calls : ~Slip(m.tab) =>
        IF m.kind = "stage"
        THEN marker[m.tab] = NoSale /\ \A n \in calls : n.tab = m.tab => n = m
        ELSE Minds(m.tab, m.sale)

PageRemembered ==
    \A t \in Tabs : ~Slip(t) /\ page[t].shows = "checkout" => Minds(t, page[t].sale)

PendingRemembered ==
    \A s \in Sales : Pending(s) /\ ~Slip(sale[s].by) =>
        marker[sale[s].by] = s \/ StageCallOf(sale[s].by, s)

Remembered == CallsRemembered /\ PageRemembered /\ PendingRemembered

\* What is in localStorage is in the cart of the tab that wrote it; a unit in
\* two carts came there by a reload.
CartsApart ==
    /\ saved = {} \/ \E t \in Tabs : saved = cart[t]
    /\ \A t, u \in Tabs : t # u => cart[t] \cap cart[u] \subseteq shared

\* A unit that was sent is in no cart, except that of the tab that sent it until
\* the answer comes.
SentApart ==
    /\ \A m \in calls, t \in Tabs : m.kind = "stage" /\ t # m.tab =>
        m.tab \in unsure \/ cart[t] \cap m.units \subseteq shared
    /\ \A s \in Sales, t \in Tabs :
        \/ cart[t] \cap sale[s].units \subseteq shared
        \/ sale[s].by \in unsure
        \/ t = sale[s].by /\ StageCallOf(t, s)

\* No two calls or sales have a unit in common.
SalesApart ==
    /\ \A m, n \in calls : m.kind = "stage" /\ n.kind = "stage" /\ m # n =>
        m.units \cap n.units \subseteq shared \/ m.tab \in unsure \/ n.tab \in unsure
    /\ \A m \in calls, s \in Sales : m.kind = "stage" /\ m.sale # s =>
        m.units \cap sale[s].units \subseteq shared \/ m.tab \in unsure \/ sale[s].by \in unsure
    /\ \A r, s \in Sales : r # s =>
        sale[r].units \cap sale[s].units \subseteq shared
            \/ sale[r].by \in unsure \/ sale[s].by \in unsure

\* A sale that was finalized, and whose checkout no other tab opened, is out of
\* its tab's sight when the answer has come.
OnPage(t, s) == page[t].shows = "checkout" /\ page[t].sale = s

PaidOnce ==
    \A s \in Sales : sale[s].finals > 0 /\ sale[s].by \notin unsure \cup returned /\ s \notin opened =>
        /\ sale[s].finals = 1
        /\ \/ \E m \in calls : m.kind = "pay" /\ m.served /\ m.sale = s
           \/ marker[sale[s].by] # s /\ ~OnPage(sale[s].by, s)
        /\ \A m \in calls : m.kind = "pay" /\ m.sale = s => m.served

CounterInv ==
    /\ CounterTypeOK
    /\ PagesFilled
    /\ RowsFresh
    /\ TabsKnow
    /\ CallsBacked
    /\ CallsWait
    /\ Remembered
    /\ CartsApart
    /\ SentApart
    /\ SalesApart
    /\ PaidOnce

-----------------------------------------------------------------------------
(* Types. *)

LEMMA UnstagedType == Unstaged \in Row
BY CounterAssumption DEF Unstaged, Row

LEMMA CallTypes ==
    /\ \A m \in Call, b \in BOOLEAN : [m EXCEPT !.awaited = b] \in Call
    /\ \A m \in Call : [m EXCEPT !.served = TRUE] \in Call
    /\ \A t \in Tabs, kind \in Kinds, s \in Sales, units \in SUBSET Units :
         [tab |-> t, kind |-> kind, sale |-> s, units |-> units,
          served |-> FALSE, awaited |-> TRUE] \in Call
BY DEF Call

\* A served call writes a row.
LEMMA ServedRows ==
    ASSUME CounterTypeOK, NEW m \in calls, Serve(m)
    PROVE  sale' \in [Sales -> Row]
<1>1. m.sale \in Sales /\ m.tab \in Tabs /\ m.units \in SUBSET Units
    BY DEF CounterTypeOK, Call
<1>2. sale \in [Sales -> Row]
    BY DEF CounterTypeOK
<1>3. CASE ServeStage(m)
    BY <1>1, <1>2, <1>3, UnstagedType DEF ServeStage, Row
<1>4. CASE ServePay(m)
  <2>1. sale[m.sale].finals + 1 \in Nat
      BY <1>1, <1>2 DEF Row
  <2>2. PICK status \in {"PENDING_PAYMENT", "PARTIALLY_PAID", "COMPLETED"} :
           sale' = [sale EXCEPT ![m.sale].status = status,
                                ![m.sale].finals = @ + 1,
                                ![m.sale].paid = @ \/ status # "PENDING_PAYMENT"]
      BY <1>4 DEF ServePay
  <2>3. PICK paid \in BOOLEAN : paid = (sale[m.sale].paid \/ status # "PENDING_PAYMENT")
      OBVIOUS
  <2>4. PICK finals \in Nat : finals = sale[m.sale].finals + 1
      BY <2>1
  <2>5. sale' = [sale EXCEPT ![m.sale].status = status, ![m.sale].finals = finals,
                             ![m.sale].paid = paid]
      BY <1>1, <1>2, <2>2, <2>3, <2>4
  <2> QED BY <1>1, <1>2, <2>5, SMTT(20) DEF Row
<1>5. CASE ServeCancel(m)
    BY <1>1, <1>2, <1>5 DEF ServeCancel, Row
<1> QED BY <1>3, <1>4, <1>5 DEF Serve

LEMMA CounterTypeInit == CounterInit => CounterTypeOK /\ PagesFilled
BY CounterAssumption, UnstagedType DEF CounterInit, CounterTypeOK, PagesFilled, Page

LEMMA CounterTypeStep ==
    CounterTypeOK /\ PagesFilled /\ [CounterNext]_counterVars => CounterTypeOK' /\ PagesFilled'
<1> SUFFICES ASSUME CounterTypeOK, PagesFilled, [CounterNext]_counterVars
             PROVE  CounterTypeOK' /\ PagesFilled'
    OBVIOUS
<1> USE CounterAssumption DEF CounterTypeOK, PagesFilled, slipVars
<1>0. ASSUME NEW t \in Tabs, Fresh(t) PROVE calls' \in SUBSET Call
  <2>1. \A m \in calls : (m.awaited /\ m.tab # t) \in BOOLEAN
      OBVIOUS
  <2>2. \A m \in calls : [m EXCEPT !.awaited = @ /\ m.tab # t] \in Call
      BY <2>1, CallTypes
  <2> QED BY <1>0, <2>2 DEF Fresh
<1>1. ASSUME NEW t \in Tabs, Load(t) PROVE CounterTypeOK' /\ PagesFilled'
  <2>1. calls' \in SUBSET Call
      BY <1>0, <1>1 DEF Load
  <2> QED BY <1>1, <2>1 DEF Load, Fresh, SetCart, Show, Unmount, Page
<1>2. ASSUME NEW t \in Tabs, GoToTerminal(t) PROVE CounterTypeOK' /\ PagesFilled'
    BY <1>2 DEF GoToTerminal, Show, Unmount, Page
<1>3. ASSUME NEW t \in Tabs, Resume(t) PROVE CounterTypeOK' /\ PagesFilled'
    BY <1>3 DEF Resume, Show, Unmount, Page
<1>4. ASSUME NEW t \in Tabs, Dismiss(t) PROVE CounterTypeOK' /\ PagesFilled'
    BY <1>4 DEF Dismiss
<1>5. ASSUME NEW t \in Tabs, NEW s \in Sales, BackToCheckout(t, s) PROVE CounterTypeOK' /\ PagesFilled'
    BY <1>5 DEF BackToCheckout, Reaches, Show, Unmount, Page
<1>6. ASSUME NEW t \in Tabs, NEW u \in Units, Add(t, u) PROVE CounterTypeOK' /\ PagesFilled'
    BY <1>6 DEF Add, SetCart
<1>7. ASSUME NEW t \in Tabs, NEW units, Remove(t, units) PROVE CounterTypeOK' /\ PagesFilled'
    BY <1>7 DEF Remove, SetCart
<1>8. ASSUME NEW t \in Tabs, Checkout(t) PROVE CounterTypeOK' /\ PagesFilled'
  <2>1. CASE Show(t, "checkout", marker[t]) /\ calls' = calls /\ Remembers(t)
      BY <1>8, <2>1 DEF Checkout, Remembers, Show, Page
  <2>2. CASE \E s \in Sales : SendCall(t, "stage", s, cart[t])
      BY SMTT(30), <1>8, <2>2, CallTypes DEF Checkout, SendCall, Page, Kinds
  <2> QED BY <1>8, <2>1, <2>2 DEF Checkout
<1>9. ASSUME NEW t \in Tabs, Pay(t) \/ Cancel(t) \/ Discard(t) PROVE CounterTypeOK' /\ PagesFilled'
  <2>1. PICK kind \in Kinds, s \in Sales : SendCall(t, kind, s, {})
      BY <1>9 DEF Pay, Cancel, Discard, Page, Kinds
  <2>2. calls' \in SUBSET Call
      BY <2>1, CallTypes DEF SendCall
  <2>3. page' \in [Tabs -> Page] /\ PagesFilled'
      BY <2>1 DEF SendCall, Page
  <2> QED BY <1>9, <2>2, <2>3 DEF Pay, Cancel, Discard
<1>10. ASSUME NEW m \in calls, Serve(m) PROVE CounterTypeOK' /\ PagesFilled'
  <2>1. calls' \in SUBSET Call
      BY <1>10 DEF Serve, Served, Call
  <2>2. sale' \in [Sales -> Row]
      BY <1>10, ServedRows
  <2> QED BY <1>10, <2>1, <2>2 DEF Serve, clientVars
<1>11. ASSUME NEW m \in calls, Receive(m) PROVE CounterTypeOK' /\ PagesFilled'
  <2>1. m.tab \in Tabs /\ m.sale \in Sales
      BY <1>11 DEF Call
  <2>2. calls' \in SUBSET Call /\ unsure' \in SUBSET Tabs
      BY <1>11, <2>1 DEF Receive
  <2>3. CASE Staged(m)
      BY <1>11, <2>1, <2>2, <2>3 DEF Receive, Staged, SetCart, Show, Page
  <2>4. CASE Paid(m)
      BY <1>11, <2>1, <2>2, <2>4 DEF Receive, Paid, SetCart, Show, Page
  <2>5. CASE Cancelled(m)
      BY <1>11, <2>1, <2>2, <2>5 DEF Receive, Cancelled, SameCart, Show, Page
  <2>6. CASE Discarded(m)
      BY <1>11, <2>1, <2>2, <2>6 DEF Receive, Discarded, SameCart, Page
  <2> QED BY <1>11, <2>3, <2>4, <2>5, <2>6 DEF Receive
<1>12. ASSUME NEW m \in calls, Fail(m) PROVE CounterTypeOK' /\ PagesFilled'
    BY <1>12 DEF Fail, Page, Call
<1>13. ASSUME NEW s \in Sales, MintDocument(s) PROVE CounterTypeOK' /\ PagesFilled'
  <2>1. [sale[s] EXCEPT !.doc = TRUE] \in Row
      BY DEF Row
  <2>2. sale' \in [Sales -> Row]
      BY <1>13, <2>1 DEF MintDocument
  <2> QED BY <1>13, <2>2 DEF MintDocument, clientVars
<1>14. ASSUME NEW t \in Tabs, NEW s \in Sales, OpenCheckout(t, s) PROVE CounterTypeOK' /\ PagesFilled'
  <2>1. calls' \in SUBSET Call
      BY <1>0, <1>14 DEF OpenCheckout
  <2>2. page' \in [Tabs -> Page] /\ PagesFilled'
      BY <1>14 DEF OpenCheckout, Show, Page
  <2> QED BY <1>14, <2>1, <2>2 DEF OpenCheckout, Fresh, Reaches, SetCart, Unmount
<1> QED BY <1>1, <1>2, <1>3, <1>4, <1>5, <1>6, <1>7, <1>8, <1>9, <1>10, <1>11, <1>12, <1>13, <1>14
        DEF CounterNext, counterVars

-----------------------------------------------------------------------------
(* What the steps do to the calls and the sales, field by field. *)

\* The two calls differ at most in how far they have come.
SameCall(m, n) == n.tab = m.tab /\ n.kind = m.kind /\ n.sale = m.sale /\ n.units = m.units

LEMMA ServedCall ==
    ASSUME CounterTypeOK, NEW m \in calls, Serve(m)
    PROVE  \E n \in Call :
             /\ SameCall(m, n) /\ n.served /\ n.awaited = m.awaited
             /\ calls' = (calls \ {m}) \cup {n}
<1> DEFINE n == [m EXCEPT !.served = TRUE]
<1>1. n \in Call
    BY CallTypes DEF CounterTypeOK
<1>2. SameCall(m, n) /\ n.served /\ n.awaited = m.awaited
    BY DEF CounterTypeOK, Call, SameCall
<1>3. calls' = (calls \ {m}) \cup {n}
    BY DEF Serve, Served
<1> QED BY <1>1, <1>2, <1>3

\* Serve(m) leaves the tabs alone, and the sales but for m's.
ServedAt(m) ==
    /\ m.sale \in Sales /\ m.tab \in Tabs /\ ~m.served
    /\ \A s \in Sales : s # m.sale => sale'[s] = sale[s]
    /\ UNCHANGED <<cart, saved, page, marker, unsure, dismissed, returned, opened, shared>>

KeptBut(s) == sale'[s].by = sale[s].by /\ sale'[s].units = sale[s].units

ServedStage(m) ==
    /\ m.kind = "stage"
    /\ sale'[m.sale].status = "PENDING_PAYMENT"
    /\ sale'[m.sale].by = m.tab
    /\ sale'[m.sale].units = m.units
    /\ sale'[m.sale].finals = 0

ServedPay(m) ==
    /\ m.kind = "pay"
    /\ sale[m.sale].status \in {"PENDING_PAYMENT", "PARTIALLY_PAID"}
    /\ sale'[m.sale].status \in {"PENDING_PAYMENT", "PARTIALLY_PAID", "COMPLETED"}
    /\ sale'[m.sale].finals = sale[m.sale].finals + 1
    /\ KeptBut(m.sale)

ServedCancel(m) ==
    /\ m.kind \in {"cancel", "discard"}
    /\ sale[m.sale].status = "PENDING_PAYMENT"
    /\ sale'[m.sale].status = "DELETED"
    /\ sale'[m.sale].finals = sale[m.sale].finals
    /\ KeptBut(m.sale)

LEMMA ServedSale ==
    ASSUME CounterTypeOK, NEW m \in calls, Serve(m)
    PROVE  ServedAt(m) /\ (ServedStage(m) \/ ServedPay(m) \/ ServedCancel(m))
<1> USE DEF CounterTypeOK, clientVars, slipVars, ServedAt, ServedStage, ServedPay, ServedCancel, KeptBut
<1>1. m.sale \in Sales /\ m.tab \in Tabs /\ ~m.served
    BY DEF Serve, Call
<1>2. CASE ServeStage(m)
    BY SMTT(30), <1>1, <1>2 DEF Serve, ServeStage, Unstaged, Row
<1>3. CASE ServePay(m)
  <2>1. PICK status \in {"PENDING_PAYMENT", "PARTIALLY_PAID", "COMPLETED"} :
          sale' = [sale EXCEPT ![m.sale].status = status,
                               ![m.sale].finals = @ + 1,
                               ![m.sale].paid = @ \/ status # "PENDING_PAYMENT"]
      BY <1>3 DEF ServePay
  <2> QED BY <1>1, <1>3, <2>1, SMTT(20) DEF Serve, ServePay, Row
<1>4. CASE ServeCancel(m)
    BY <1>1, <1>4 DEF Serve, ServeCancel, Row
<1> QED BY <1>2, <1>3, <1>4 DEF Serve

\* n is the call that SendCall sent.
IsSent(n, t, kind, s, units) ==
    /\ n \in Call
    /\ n.tab = t /\ n.kind = kind /\ n.sale = s /\ n.units = units
    /\ ~n.served /\ n.awaited
    /\ calls' = calls \cup {n}
    /\ kind \notin page[t].busy
    /\ page'[t].shows = page[t].shows /\ page'[t].sale = page[t].sale
    /\ page'[t].past = page[t].past /\ page'[t].busy = page[t].busy \cup {kind}
    /\ \A u \in Tabs : u # t => page'[u] = page[u]

LEMMA SentCall ==
    ASSUME CounterTypeOK, NEW t \in Tabs, NEW kind \in Kinds, NEW s \in Sales,
           NEW units \in SUBSET Units, SendCall(t, kind, s, units)
    PROVE  \E n \in Call : IsSent(n, t, kind, s, units)
<1> DEFINE n == [tab |-> t, kind |-> kind, sale |-> s, units |-> units,
                 served |-> FALSE, awaited |-> TRUE]
<1>1. n \in Call
    BY CallTypes
<1>2. n.tab = t /\ n.kind = kind /\ n.sale = s /\ n.units = units /\ ~n.served /\ n.awaited
    OBVIOUS
<1>3. calls' = calls \cup {n} /\ kind \notin page[t].busy
    BY DEF SendCall
<1>4. /\ page'[t].shows = page[t].shows /\ page'[t].sale = page[t].sale
      /\ page'[t].past = page[t].past /\ page'[t].busy = page[t].busy \cup {kind}
      /\ \A u \in Tabs : u # t => page'[u] = page[u]
    BY DEF SendCall, CounterTypeOK, Page
<1> HIDE DEF n
<1> QED BY <1>1, <1>2, <1>3, <1>4 DEF IsSent

LEMMA CallsAfterLoad ==
    ASSUME CounterTypeOK, NEW t \in Tabs, Fresh(t)
    PROVE  /\ \A n \in calls' : \E m \in calls :
                SameCall(m, n) /\ n.served = m.served /\ (m.tab # t => n = m)
           /\ \A m \in calls : m.tab # t => m \in calls'
           /\ \A n1, n2 \in calls' : \E m1, m2 \in calls :
                SameCall(m1, n1) /\ SameCall(m2, n2) /\ (m1 = m2 => n1 = n2)
<1> USE DEF CounterTypeOK
<1> DEFINE Left(m) == [m EXCEPT !.awaited = @ /\ m.tab # t]
<1>1. \A m \in calls : SameCall(m, Left(m)) /\ Left(m).served = m.served
    BY DEF Call, SameCall
<1>2. ASSUME NEW m \in calls, m.tab # t PROVE Left(m) = m
  <2>1. m.awaited \in BOOLEAN
      BY DEF Call
  <2>2. (m.awaited /\ m.tab # t) = m.awaited
      BY <1>2, <2>1
  <2>3. Left(m) = [m EXCEPT !.awaited = m.awaited]
      BY <2>2
  <2> QED BY <2>3 DEF Call
<1>3. calls' = {Left(m) : m \in calls}
    BY DEF Fresh
<1> HIDE DEF Left
<1> QED BY <1>1, <1>2, <1>3

LEMMA MintedSale ==
    ASSUME CounterTypeOK, NEW s \in Sales, MintDocument(s)
    PROVE  /\ \A r \in Sales :
                /\ sale'[r].status = sale[r].status /\ sale'[r].by = sale[r].by
                /\ sale'[r].units = sale[r].units /\ sale'[r].finals = sale[r].finals
                /\ sale[r].finals = 0 => sale'[r] = sale[r]
           /\ UNCHANGED <<cart, saved, page, marker, calls, unsure, dismissed, returned, opened, shared>>
BY DEF CounterTypeOK, MintDocument, Row, clientVars, slipVars

LEMMA Typed ==
    ASSUME CounterTypeOK
    PROVE  /\ \A m \in calls : m \in Call /\ m.tab \in Tabs /\ m.sale \in Sales /\ m.kind \in Kinds
           /\ \A t \in Tabs : /\ marker[t] \in Sales \cup {NoSale}
                              /\ page[t].sale \in Sales \cup {NoSale}
                              /\ page[t].past \subseteq Sales
           /\ \A s \in Sales : sale[s].by \in Tabs /\ sale[s].finals \in Nat
           /\ NoSale \notin Sales
BY CounterAssumption DEF CounterTypeOK, Call, Page, Row

\* The tab's cart and localStorage are units.
CartIs(t, units) ==
    /\ cart'[t] = units /\ saved' = units
    /\ \A u \in Tabs : u # t => cart'[u] = cart[u]

\* The tab shows another page.
Opens(t, shows, s) ==
    /\ page'[t].shows = shows /\ page'[t].sale = s /\ page'[t].busy = {}
    /\ page'[t].past \subseteq page[t].past \cup (IF shows = "checkout" THEN {s} ELSE {})
    /\ \A u \in Tabs : u # t => page'[u] = page[u]

LEMMA Shown ==
    ASSUME CounterTypeOK, NEW t \in Tabs, NEW shows, NEW s, Show(t, shows, s)
    PROVE  Opens(t, shows, s)
BY DEF CounterTypeOK, Show, Opens

LEMMA CartSet ==
    ASSUME CounterTypeOK, NEW t \in Tabs, NEW units, SetCart(t, units)
    PROVE  CartIs(t, units)
BY DEF CounterTypeOK, SetCart, CartIs

LEMMA LoadDone ==
    ASSUME CounterTypeOK, NEW t \in Tabs, Load(t)
    PROVE  /\ Fresh(t) /\ CartIs(t, saved) /\ Opens(t, "terminal", NoSale) /\ Unmount(t)
           /\ shared' = shared \cup (saved \cap UNION {cart[u] : u \in Tabs \ {t}})
           /\ UNCHANGED <<marker, sale, dismissed, returned, opened>>
BY Shown, CartSet DEF Load, Fresh

\* A tab that loads the checkout of a sale it does not remember is in returned
\* from then on, and the sale is in opened when another tab staged it.
LEMMA OpenDone ==
    ASSUME CounterTypeOK, NEW t \in Tabs, NEW s \in Sales, OpenCheckout(t, s)
    PROVE  /\ Fresh(t) /\ CartIs(t, saved) /\ Opens(t, "checkout", s) /\ Unmount(t)
           /\ shared' = shared \cup (saved \cap UNION {cart[u] : u \in Tabs \ {t}})
           /\ \E u \in Tabs : marker[u] = s \/ page[u].sale = s
           /\ returned \subseteq returned' /\ returned' \subseteq returned \cup {t}
           /\ marker[t] = s \/ t \in returned'
           /\ opened \subseteq opened' /\ opened' \subseteq opened \cup {s}
           /\ sale[s].by = t \/ s \in opened'
           /\ UNCHANGED <<marker, sale, dismissed>>
<1>1. CartIs(t, saved) /\ Opens(t, "checkout", s)
    BY Shown, CartSet DEF OpenCheckout, Fresh
<1>2. /\ returned \subseteq returned' /\ returned' \subseteq returned \cup {t}
      /\ marker[t] = s \/ t \in returned'
    BY DEF OpenCheckout, Reaches
<1>3. /\ opened \subseteq opened' /\ opened' \subseteq opened \cup {s}
      /\ sale[s].by = t \/ s \in opened'
    BY DEF OpenCheckout
<1> QED BY <1>1, <1>2, <1>3 DEF OpenCheckout, Fresh

\* A link, Back or "Resume"; returned changes only for a tab that goes back to a
\* checkout it does not remember.
WentTo(t, shows, s) ==
    /\ Opens(t, shows, s) /\ Unmount(t)
    /\ returned \subseteq returned'
    /\ returned' \subseteq returned \cup {t}
    /\ UNCHANGED <<cart, saved, marker, calls, sale, dismissed, opened, shared>>

LEMMA Gone ==
    ASSUME CounterTypeOK, NEW t \in Tabs
    PROVE  /\ GoToTerminal(t) => WentTo(t, "terminal", NoSale) /\ returned' = returned
           /\ Resume(t) => /\ WentTo(t, "checkout", marker[t]) /\ returned' = returned
                           /\ page[t].shows = "terminal" /\ marker[t] \in Sales
           /\ \A s \in Sales : BackToCheckout(t, s) =>
                /\ WentTo(t, "checkout", s)
                /\ page[t].shows = "terminal" /\ s \in page[t].past
                /\ marker[t] = s \/ t \in returned'
BY Shown DEF GoToTerminal, Resume, BackToCheckout, Reaches, WentTo, CounterTypeOK

LEMMA DismissDone ==
    ASSUME CounterTypeOK, NEW t \in Tabs, Dismiss(t)
    PROVE  /\ page[t].shows = "terminal" /\ marker[t] # NoSale
           /\ marker'[t] = NoSale
           /\ \A u \in Tabs : u # t => marker'[u] = marker[u]
           /\ dismissed' = dismissed \cup {t}
           /\ UNCHANGED <<cart, saved, page, calls, sale, unsure, returned, opened, shared>>
BY DEF CounterTypeOK, Dismiss

LEMMA AddDone ==
    ASSUME CounterTypeOK, NEW t \in Tabs, NEW u \in Units, Add(t, u)
    PROVE  /\ CartIs(t, cart[t] \cup {u})
           /\ u \notin saved
           /\ \A v \in Tabs : u \notin cart[v]
           /\ \A s \in Sales : u \notin sale[s].units
           /\ \A m \in calls : u \notin m.units
           /\ UNCHANGED <<page, marker, calls, sale, unsure, dismissed, returned, opened, shared>>
<1>1. CartIs(t, cart[t] \cup {u})
    BY CartSet DEF Add
<1> QED BY <1>1 DEF Add, RungUp, slipVars

LEMMA RemoveDone ==
    ASSUME CounterTypeOK, NEW t \in Tabs, NEW units, Remove(t, units)
    PROVE  /\ CartIs(t, cart[t] \ units)
           /\ UNCHANGED <<page, marker, calls, sale, unsure, dismissed, returned, opened, shared>>
BY CartSet DEF Remove, slipVars

LEMMA SentAboutSale ==
    ASSUME CounterTypeOK, PagesFilled, NEW t \in Tabs, Pay(t) \/ Cancel(t) \/ Discard(t)
    PROVE  \E kind \in {"pay", "cancel", "discard"}, s \in Sales, n \in Call :
             /\ IsSent(n, t, kind, s, {})
             /\ \/ kind = "discard" /\ page[t].shows = "terminal" /\ marker[t] = s
                \/ kind # "discard" /\ page[t].shows = "checkout" /\ page[t].sale = s
             /\ UNCHANGED <<cart, saved, marker, sale, unsure, dismissed, returned, opened, shared>>
<1>1. PICK kind \in {"pay", "cancel", "discard"}, s \in Sales :
             /\ SendCall(t, kind, s, {})
             /\ \/ kind = "discard" /\ page[t].shows = "terminal" /\ marker[t] = s
                \/ kind # "discard" /\ page[t].shows = "checkout" /\ page[t].sale = s
             /\ UNCHANGED <<cart, saved, marker, sale, unsure, dismissed, returned, opened, shared>>
    BY CounterAssumption DEF CounterTypeOK, PagesFilled, Page, Pay, Cancel, Discard, slipVars
<1>2. kind \in Kinds /\ {} \in SUBSET Units
    BY DEF Kinds
<1>3. \E n \in Call : IsSent(n, t, kind, s, {})
    BY <1>1, <1>2, SentCall
<1> QED BY <1>1, <1>3

LEMMA CheckoutDone ==
    ASSUME CounterTypeOK, NEW t \in Tabs, Checkout(t)
    PROVE  /\ page[t].shows = "terminal" /\ "stage" \notin page[t].busy
           /\ UNCHANGED <<cart, saved, marker, sale, unsure, dismissed, returned, opened, shared>>
           /\ \/ /\ marker[t] \in Sales
                 /\ Opens(t, "checkout", marker[t])
                 /\ calls' = calls
              \/ /\ marker[t] = NoSale
                 /\ \E s \in Sales, n \in Call :
                      /\ sale[s].status = "UNSTAGED"
                      /\ \A m \in calls : m.sale # s
                      /\ IsSent(n, t, "stage", s, cart[t])
<1>1. /\ page[t].shows = "terminal" /\ "stage" \notin page[t].busy
      /\ UNCHANGED <<cart, saved, marker, sale, unsure, dismissed, returned, opened, shared>>
    BY DEF Checkout, slipVars
<1>2. "stage" \in Kinds /\ cart[t] \in SUBSET Units /\ marker[t] \in Sales \cup {NoSale}
    BY DEF Kinds, CounterTypeOK
<1>3. CASE Remembers(t)
    BY <1>1, <1>2, <1>3, Shown DEF Checkout, Remembers
<1>4. CASE ~Remembers(t)
  <2>1. PICK s \in Sales : /\ sale[s].status = "UNSTAGED"
                           /\ \A m \in calls : m.sale # s
                           /\ SendCall(t, "stage", s, cart[t])
      BY <1>4 DEF Checkout
  <2>2. \E n \in Call : IsSent(n, t, "stage", s, cart[t])
      BY <1>2, <2>1, SentCall
  <2> QED BY <1>1, <1>2, <1>4, <2>1, <2>2 DEF Remembers
<1> QED BY <1>3, <1>4

\* Receive(m) takes the call away and leaves the other tabs alone.
ReceivedAt(m) ==
    /\ m.tab \in Tabs /\ m.sale \in Sales /\ m.served
    /\ calls' = calls \ {m}
    /\ m.kind # "discard" /\ (\E n \in calls \ {m} : n.tab = m.tab) => m.tab \in unsure'
    /\ unsure \subseteq unsure'
    /\ unsure' \subseteq unsure \cup {m.tab}
    /\ UNCHANGED <<sale, dismissed, returned, opened, shared>>
    /\ \A t \in Tabs : t # m.tab => marker'[t] = marker[t] /\ page'[t] = page[t]

ReceivedStage(m) ==
    /\ m.kind = "stage"
    /\ CartIs(m.tab, {})
    /\ marker'[m.tab] = m.sale
    /\ Opens(m.tab, "checkout", m.sale)

ReceivedPay(m) ==
    /\ m.kind = "pay"
    /\ CartIs(m.tab, {})
    /\ marker'[m.tab] = NoSale
    /\ Opens(m.tab, "complete", m.sale)

ReceivedCancel(m) ==
    /\ m.kind = "cancel"
    /\ UNCHANGED <<cart, saved>>
    /\ marker'[m.tab] = NoSale
    /\ Opens(m.tab, "terminal", NoSale)

ReceivedDiscard(m) ==
    /\ m.kind = "discard"
    /\ UNCHANGED <<cart, saved>>
    /\ marker'[m.tab] = NoSale
    /\ page'[m.tab].shows = page[m.tab].shows /\ page'[m.tab].sale = page[m.tab].sale
    /\ page'[m.tab].past = page[m.tab].past
    /\ page'[m.tab].busy = page[m.tab].busy \ {"discard"}

LEMMA ReceivedCall ==
    ASSUME CounterTypeOK, NEW m \in calls, Receive(m)
    PROVE  /\ ReceivedAt(m)
           /\ ReceivedStage(m) \/ ReceivedPay(m) \/ ReceivedCancel(m) \/ ReceivedDiscard(m)
<1>1. m.tab \in Tabs /\ m.sale \in Sales
    BY Typed
<1>2. /\ m.served /\ calls' = calls \ {m}
      /\ m.kind # "discard" /\ (\E n \in calls \ {m} : n.tab = m.tab) => m.tab \in unsure'
      /\ unsure \subseteq unsure' /\ unsure' \subseteq unsure \cup {m.tab}
      /\ UNCHANGED <<sale, dismissed, returned, opened, shared>>
    BY DEF Receive
<1>3. ASSUME NEW s, marker' = [marker EXCEPT ![m.tab] = s]
      PROVE  marker'[m.tab] = s /\ \A t \in Tabs : t # m.tab => marker'[t] = marker[t]
    BY <1>1, <1>3 DEF CounterTypeOK
<1>4. CASE m.kind = "stage" /\ Staged(m)
  <2>1. Opens(m.tab, "checkout", m.sale) /\ CartIs(m.tab, {})
      BY <1>1, <1>4, Shown, CartSet DEF Staged
  <2> QED BY <1>1, <1>2, <1>3, <1>4, <2>1 DEF Staged, ReceivedAt, ReceivedStage, Opens
<1>5. CASE m.kind = "pay" /\ Paid(m)
  <2>1. Opens(m.tab, "complete", m.sale) /\ CartIs(m.tab, {})
      BY <1>1, <1>5, Shown, CartSet DEF Paid
  <2> QED BY <1>1, <1>2, <1>3, <1>5, <2>1 DEF Paid, ReceivedAt, ReceivedPay, Opens
<1>6. CASE m.kind = "cancel" /\ Cancelled(m)
  <2>1. Opens(m.tab, "terminal", NoSale)
      BY <1>1, <1>6, Shown DEF Cancelled
  <2> QED BY <1>1, <1>2, <1>3, <1>6, <2>1 DEF Cancelled, SameCart, ReceivedAt, ReceivedCancel, Opens
<1>7. CASE m.kind = "discard" /\ Discarded(m)
  <2>1. /\ page'[m.tab].shows = page[m.tab].shows /\ page'[m.tab].sale = page[m.tab].sale
        /\ page'[m.tab].past = page[m.tab].past
        /\ page'[m.tab].busy = page[m.tab].busy \ {"discard"}
        /\ \A t \in Tabs : t # m.tab => page'[t] = page[t]
      BY <1>1, <1>7 DEF Discarded, CounterTypeOK, Page
  <2> QED BY <1>1, <1>2, <1>3, <1>7, <2>1 DEF Discarded, SameCart, ReceivedAt, ReceivedDiscard
<1> QED BY <1>4, <1>5, <1>6, <1>7 DEF Receive

LEMMA FailedCall ==
    ASSUME CounterTypeOK, NEW m \in calls, Fail(m)
    PROVE  /\ m.tab \in Tabs /\ m.sale \in Sales
           /\ calls' = calls \ {m}
           /\ unsure' = IF m.served THEN unsure \cup {m.tab} ELSE unsure
           /\ UNCHANGED <<cart, saved, marker, sale, dismissed, returned, opened, shared>>
           /\ \A t \in Tabs :
                /\ page'[t].shows = page[t].shows /\ page'[t].sale = page[t].sale
                /\ page'[t].past = page[t].past
                /\ t # m.tab => page'[t].busy = page[t].busy
           /\ page[m.tab].busy \ {m.kind} \subseteq page'[m.tab].busy
BY DEF CounterTypeOK, Fail, Page, Call

-----------------------------------------------------------------------------
(* Every step keeps the parts of the invariant. *)

\* An id stays fresh until its sale is staged.
LEMMA RowsFreshStep ==
    CounterTypeOK /\ PagesFilled /\ RowsFresh /\ [CounterNext]_counterVars
        => RowsFresh'
<1> SUFFICES ASSUME CounterTypeOK, PagesFilled, RowsFresh,
                    [CounterNext]_counterVars
             PROVE  RowsFresh'
    OBVIOUS
<1> USE DEF RowsFresh
<1>1. ASSUME NEW t \in Tabs, Load(t) PROVE RowsFresh'
    BY <1>1, CallsAfterLoad, LoadDone DEF CartIs, Opens, Unmount, SameCall
<1>2. ASSUME NEW t \in Tabs, GoToTerminal(t) PROVE RowsFresh'
    BY <1>2, Gone DEF WentTo, Opens, Unmount
<1>3. ASSUME NEW t \in Tabs, Resume(t) PROVE RowsFresh'
    BY <1>3, Gone DEF WentTo, Opens, Unmount
<1>4. ASSUME NEW t \in Tabs, NEW s \in Sales, BackToCheckout(t, s) PROVE RowsFresh'
    BY <1>4, Gone DEF WentTo, Opens, Unmount
<1>5. ASSUME NEW t \in Tabs, Dismiss(t) PROVE RowsFresh'
    BY <1>5, DismissDone
<1>6. ASSUME NEW t \in Tabs, NEW u \in Units, Add(t, u) PROVE RowsFresh'
    BY <1>6, AddDone DEF CartIs
<1>7. ASSUME NEW t \in Tabs, NEW units, Remove(t, units) PROVE RowsFresh'
    BY <1>7, RemoveDone DEF CartIs
<1>8. ASSUME NEW t \in Tabs, Checkout(t) PROVE RowsFresh'
  <2>1. page[t].shows = "terminal" /\ "stage" \notin page[t].busy /\ UNCHANGED <<cart, saved, marker, sale, unsure, dismissed, returned, opened, shared>>
      BY <1>8, CheckoutDone
  <2>2. CASE marker[t] \in Sales /\ Opens(t, "checkout", marker[t]) /\ calls' = calls
      BY <1>8, <2>1, <2>2 DEF Opens
  <2>3. CASE /\ marker[t] = NoSale
             /\ \E s \in Sales, n \in Call :
                  /\ sale[s].status = "UNSTAGED"
                  /\ \A m \in calls : m.sale # s
                  /\ IsSent(n, t, "stage", s, cart[t])
    <3>1. PICK s \in Sales, n \in Call : /\ sale[s].status = "UNSTAGED"
                                /\ \A m \in calls : m.sale # s
                                /\ IsSent(n, t, "stage", s, cart[t])
        BY <2>3
    <3> QED BY <2>1, <2>3, <3>1 DEF IsSent
  <2> QED BY <1>8, <2>2, <2>3, CheckoutDone
<1>9. ASSUME NEW t \in Tabs, Pay(t) \/ Cancel(t) \/ Discard(t) PROVE RowsFresh'
  <2>1. PICK kind \in {"pay", "cancel", "discard"}, s \in Sales, n \in Call :
          /\ IsSent(n, t, kind, s, {})
          /\ \/ kind = "discard" /\ page[t].shows = "terminal" /\ marker[t] = s
             \/ kind # "discard" /\ page[t].shows = "checkout" /\ page[t].sale = s
          /\ UNCHANGED <<cart, saved, marker, sale, unsure, dismissed, returned, opened, shared>>
      BY <1>9, SentAboutSale
  <2>2. CASE kind = "pay"
      BY <2>1, <2>2 DEF IsSent
  <2>3. CASE kind = "cancel"
      BY <2>1, <2>3 DEF IsSent
  <2>4. CASE kind = "discard"
      BY <2>1, <2>4 DEF IsSent
  <2> QED BY <2>1, <2>2, <2>3, <2>4
<1>10. ASSUME NEW m \in calls, Serve(m) PROVE RowsFresh'
  <2>1. PICK n \in Call : /\ SameCall(m, n) /\ n.served /\ n.awaited = m.awaited
                           /\ calls' = (calls \ {m}) \cup {n}
      BY <1>10, ServedCall
  <2>2. ServedAt(m)
      BY <1>10, ServedSale
  <2>3. CASE ServedStage(m)
      BY <2>1, <2>2, <2>3 DEF SameCall, ServedAt, ServedStage
  <2>4. CASE ServedPay(m)
      BY <2>1, <2>2, <2>4 DEF SameCall, ServedAt, ServedPay, KeptBut
  <2>5. CASE ServedCancel(m)
      BY <2>1, <2>2, <2>5 DEF SameCall, ServedAt, ServedCancel, KeptBut
  <2> QED BY <1>10, <2>3, <2>4, <2>5, ServedSale
<1>11. ASSUME NEW m \in calls, Receive(m) PROVE RowsFresh'
  <2>1. ReceivedAt(m)
      BY <1>11, ReceivedCall
  <2>2. CASE ReceivedStage(m)
      BY <2>1, <2>2 DEF ReceivedAt, ReceivedStage, CartIs, Opens
  <2>3. CASE ReceivedPay(m)
      BY <2>1, <2>3 DEF ReceivedAt, ReceivedPay, CartIs, Opens
  <2>4. CASE ReceivedCancel(m)
      BY <2>1, <2>4 DEF ReceivedAt, ReceivedCancel, Opens
  <2>5. CASE ReceivedDiscard(m)
      BY <2>1, <2>5 DEF ReceivedAt, ReceivedDiscard
  <2> QED BY <1>11, <2>2, <2>3, <2>4, <2>5, ReceivedCall
<1>12. ASSUME NEW m \in calls, Fail(m) PROVE RowsFresh'
    BY <1>12, FailedCall
<1>13. ASSUME NEW s \in Sales, MintDocument(s) PROVE RowsFresh'
  <2>1. Unstaged.finals = 0
      BY DEF Unstaged
  <2> QED BY <1>13, <2>1, MintedSale
<1>14. CASE UNCHANGED counterVars
    BY <1>14 DEF counterVars
<1>15. ASSUME NEW t \in Tabs, NEW s \in Sales, OpenCheckout(t, s) PROVE RowsFresh'
    BY <1>15, OpenDone
<1> QED BY <1>1, <1>2, <1>3, <1>4, <1>5, <1>6, <1>7, <1>8, <1>9, <1>10, <1>11, <1>12, <1>13, <1>14, <1>15
        DEF CounterNext

\* A sale stays its tab's.
LEMMA TabsKnowStep ==
    CounterTypeOK /\ PagesFilled /\ TabsKnow /\ CallsBacked /\ [CounterNext]_counterVars
        => TabsKnow'
<1> SUFFICES ASSUME CounterTypeOK, PagesFilled, TabsKnow, CallsBacked,
                    [CounterNext]_counterVars
             PROVE  TabsKnow'
    OBVIOUS
<1> USE DEF TabsKnow, Knows, Acts, CallsBacked
<1>1. ASSUME NEW t \in Tabs, Load(t) PROVE TabsKnow'
    BY <1>1, CallsAfterLoad, LoadDone, Typed, SMTT(20) DEF CartIs, Opens, Unmount, SameCall
<1>2. ASSUME NEW t \in Tabs, GoToTerminal(t) PROVE TabsKnow'
    BY <1>2, Gone, Typed DEF WentTo, Opens, Unmount
<1>3. ASSUME NEW t \in Tabs, Resume(t) PROVE TabsKnow'
    BY <1>3, Gone, Typed DEF WentTo, Opens, Unmount
<1>4. ASSUME NEW t \in Tabs, NEW s \in Sales, BackToCheckout(t, s) PROVE TabsKnow'
    BY <1>4, Gone, Typed DEF WentTo, Opens, Unmount
<1>5. ASSUME NEW t \in Tabs, Dismiss(t) PROVE TabsKnow'
    BY <1>5, DismissDone, Typed
<1>6. ASSUME NEW t \in Tabs, NEW u \in Units, Add(t, u) PROVE TabsKnow'
    BY <1>6, AddDone, Typed DEF CartIs
<1>7. ASSUME NEW t \in Tabs, NEW units, Remove(t, units) PROVE TabsKnow'
    BY <1>7, RemoveDone, Typed DEF CartIs
<1>8. ASSUME NEW t \in Tabs, Checkout(t) PROVE TabsKnow'
  <2>1. page[t].shows = "terminal" /\ "stage" \notin page[t].busy /\ UNCHANGED <<cart, saved, marker, sale, unsure, dismissed, returned, opened, shared>>
      BY <1>8, CheckoutDone
  <2>2. CASE marker[t] \in Sales /\ Opens(t, "checkout", marker[t]) /\ calls' = calls
      BY <1>8, <2>1, <2>2, Typed DEF Opens
  <2>3. CASE /\ marker[t] = NoSale
             /\ \E s \in Sales, n \in Call :
                  /\ sale[s].status = "UNSTAGED"
                  /\ \A m \in calls : m.sale # s
                  /\ IsSent(n, t, "stage", s, cart[t])
    <3>1. PICK s \in Sales, n \in Call : /\ sale[s].status = "UNSTAGED"
                                /\ \A m \in calls : m.sale # s
                                /\ IsSent(n, t, "stage", s, cart[t])
        BY <2>3
    <3> QED BY <2>1, <2>3, <3>1, Typed DEF IsSent
  <2> QED BY <1>8, <2>2, <2>3, CheckoutDone
<1>9. ASSUME NEW t \in Tabs, Pay(t) \/ Cancel(t) \/ Discard(t) PROVE TabsKnow'
  <2>1. PICK kind \in {"pay", "cancel", "discard"}, s \in Sales, n \in Call :
          /\ IsSent(n, t, kind, s, {})
          /\ \/ kind = "discard" /\ page[t].shows = "terminal" /\ marker[t] = s
             \/ kind # "discard" /\ page[t].shows = "checkout" /\ page[t].sale = s
          /\ UNCHANGED <<cart, saved, marker, sale, unsure, dismissed, returned, opened, shared>>
      BY <1>9, SentAboutSale
  <2>2. CASE kind = "pay"
      BY <2>1, <2>2, Typed DEF IsSent
  <2>3. CASE kind = "cancel"
      BY <2>1, <2>3, Typed DEF IsSent
  <2>4. CASE kind = "discard"
      BY <2>1, <2>4, Typed DEF IsSent
  <2> QED BY <2>1, <2>2, <2>3, <2>4
<1>10. ASSUME NEW m \in calls, Serve(m) PROVE TabsKnow'
  <2>1. PICK n \in Call : /\ SameCall(m, n) /\ n.served /\ n.awaited = m.awaited
                           /\ calls' = (calls \ {m}) \cup {n}
      BY <1>10, ServedCall
  <2>2. ServedAt(m)
      BY <1>10, ServedSale
  <2>3. CASE ServedStage(m)
      BY <2>1, <2>2, <2>3, Typed DEF SameCall, ServedAt, ServedStage
  <2>4. CASE ServedPay(m)
      BY <2>1, <2>2, <2>4, Typed DEF SameCall, ServedAt, ServedPay, KeptBut
  <2>5. CASE ServedCancel(m)
      BY <2>1, <2>2, <2>5, Typed DEF SameCall, ServedAt, ServedCancel, KeptBut
  <2> QED BY <1>10, <2>3, <2>4, <2>5, ServedSale
<1>11. ASSUME NEW m \in calls, Receive(m) PROVE TabsKnow'
  <2>1. ReceivedAt(m)
      BY <1>11, ReceivedCall
  <2>2. CASE ReceivedStage(m)
      BY <2>1, <2>2, Typed DEF ReceivedAt, ReceivedStage, CartIs, Opens
  <2>3. CASE ReceivedPay(m)
      BY <2>1, <2>3, Typed DEF ReceivedAt, ReceivedPay, CartIs, Opens
  <2>4. CASE ReceivedCancel(m)
      BY <2>1, <2>4, Typed DEF ReceivedAt, ReceivedCancel, Opens
  <2>5. CASE ReceivedDiscard(m)
      BY <2>1, <2>5, Typed DEF ReceivedAt, ReceivedDiscard
  <2> QED BY <1>11, <2>2, <2>3, <2>4, <2>5, ReceivedCall
<1>12. ASSUME NEW m \in calls, Fail(m) PROVE TabsKnow'
    BY <1>12, FailedCall, Typed
<1>13. ASSUME NEW s \in Sales, MintDocument(s) PROVE TabsKnow'
    BY <1>13, MintedSale, Typed
<1>14. CASE UNCHANGED counterVars
    BY <1>14 DEF counterVars
<1>15. ASSUME NEW t \in Tabs, NEW s \in Sales, OpenCheckout(t, s) PROVE TabsKnow'
  <2>1. /\ \A n \in calls' : \E m \in calls : n.kind = m.kind /\ n.sale = m.sale
        /\ returned \subseteq returned' /\ opened \subseteq opened' /\ sale' = sale
      BY <1>15, CallsAfterLoad, OpenDone DEF SameCall
  <2>2. \A u \in Tabs, x \in Sales : Knows(u, x) => Knows(u, x)'
      BY <2>1
  <2>3. Knows(t, s)'
    <3>1. PICK u \in Tabs : marker[u] = s \/ page[u].sale = s
        BY <1>15, OpenDone
    <3>2. Knows(u, s) /\ (marker[t] = s => sale[s].by = t)
        BY <3>1, Typed
    <3>3. Acts(t, s)'
        BY <1>15, <2>1, <3>2, OpenDone
    <3> QED BY <2>1, <3>2, <3>3
  <2>4. /\ marker' = marker
        /\ page'[t].sale = s /\ page'[t].past \subseteq page[t].past \cup {s}
        /\ \A u \in Tabs : u # t => page'[u] = page[u]
      BY <1>15, OpenDone DEF Opens
  <2>5. \A u \in Tabs : marker[u] \in Sales \cup {NoSale} /\ page[u].sale \in Sales \cup {NoSale}
                        /\ page[u].past \subseteq Sales
      BY Typed
  <2> QED BY <2>1, <2>2, <2>3, <2>4, <2>5
<1> QED BY <1>1, <1>2, <1>3, <1>4, <1>5, <1>6, <1>7, <1>8, <1>9, <1>10, <1>11, <1>12, <1>13, <1>14, <1>15
        DEF CounterNext

\* The calls stay backed by sales.
LEMMA CallsBackedStep ==
    CounterTypeOK /\ PagesFilled /\ RowsFresh /\ TabsKnow /\ CallsBacked /\ [CounterNext]_counterVars
        => CallsBacked'
<1> SUFFICES ASSUME CounterTypeOK, PagesFilled, RowsFresh, TabsKnow, CallsBacked,
                    [CounterNext]_counterVars
             PROVE  CallsBacked'
    OBVIOUS
<1> USE DEF TabsKnow, Knows, Acts, CallsBacked, RowsFresh
<1>1. ASSUME NEW t \in Tabs, Load(t) PROVE CallsBacked'
    BY <1>1, CallsAfterLoad, LoadDone, Typed DEF CartIs, Opens, Unmount, SameCall
<1>2. ASSUME NEW t \in Tabs, GoToTerminal(t) PROVE CallsBacked'
    BY <1>2, Gone, Typed DEF WentTo, Opens, Unmount
<1>3. ASSUME NEW t \in Tabs, Resume(t) PROVE CallsBacked'
    BY <1>3, Gone, Typed DEF WentTo, Opens, Unmount
<1>4. ASSUME NEW t \in Tabs, NEW s \in Sales, BackToCheckout(t, s) PROVE CallsBacked'
    BY <1>4, Gone, Typed DEF WentTo, Opens, Unmount
<1>5. ASSUME NEW t \in Tabs, Dismiss(t) PROVE CallsBacked'
    BY <1>5, DismissDone, Typed
<1>6. ASSUME NEW t \in Tabs, NEW u \in Units, Add(t, u) PROVE CallsBacked'
    BY <1>6, AddDone, Typed DEF CartIs
<1>7. ASSUME NEW t \in Tabs, NEW units, Remove(t, units) PROVE CallsBacked'
    BY <1>7, RemoveDone, Typed DEF CartIs
<1>8. ASSUME NEW t \in Tabs, Checkout(t) PROVE CallsBacked'
  <2>1. page[t].shows = "terminal" /\ "stage" \notin page[t].busy /\ UNCHANGED <<cart, saved, marker, sale, unsure, dismissed, returned, opened, shared>>
      BY <1>8, CheckoutDone
  <2>2. CASE marker[t] \in Sales /\ Opens(t, "checkout", marker[t]) /\ calls' = calls
      BY <1>8, <2>1, <2>2, Typed DEF Opens
  <2>3. CASE /\ marker[t] = NoSale
             /\ \E s \in Sales, n \in Call :
                  /\ sale[s].status = "UNSTAGED"
                  /\ \A m \in calls : m.sale # s
                  /\ IsSent(n, t, "stage", s, cart[t])
    <3>1. PICK s \in Sales, n \in Call : /\ sale[s].status = "UNSTAGED"
                                /\ \A m \in calls : m.sale # s
                                /\ IsSent(n, t, "stage", s, cart[t])
        BY <2>3
    <3> QED BY <2>1, <2>3, <3>1, Typed DEF IsSent
  <2> QED BY <1>8, <2>2, <2>3, CheckoutDone
<1>9. ASSUME NEW t \in Tabs, Pay(t) \/ Cancel(t) \/ Discard(t) PROVE CallsBacked'
  <2>1. PICK kind \in {"pay", "cancel", "discard"}, s \in Sales, n \in Call :
          /\ IsSent(n, t, kind, s, {})
          /\ \/ kind = "discard" /\ page[t].shows = "terminal" /\ marker[t] = s
             \/ kind # "discard" /\ page[t].shows = "checkout" /\ page[t].sale = s
          /\ UNCHANGED <<cart, saved, marker, sale, unsure, dismissed, returned, opened, shared>>
      BY <1>9, SentAboutSale
  <2>2. CASE kind = "pay"
      BY <2>1, <2>2, Typed DEF IsSent
  <2>3. CASE kind = "cancel"
      BY <2>1, <2>3, Typed DEF IsSent
  <2>4. CASE kind = "discard"
      BY <2>1, <2>4, Typed DEF IsSent
  <2> QED BY <2>1, <2>2, <2>3, <2>4
<1>10. ASSUME NEW m \in calls, Serve(m) PROVE CallsBacked'
  <2>1. PICK n \in Call : /\ SameCall(m, n) /\ n.served /\ n.awaited = m.awaited
                           /\ calls' = (calls \ {m}) \cup {n}
      BY <1>10, ServedCall
  <2>2. ServedAt(m)
      BY <1>10, ServedSale
  <2>3. CASE ServedStage(m)
      BY <2>1, <2>2, <2>3, Typed DEF SameCall, ServedAt, ServedStage
  <2>4. CASE ServedPay(m)
      BY <2>1, <2>2, <2>4, Typed DEF SameCall, ServedAt, ServedPay, KeptBut
  <2>5. CASE ServedCancel(m)
      BY <2>1, <2>2, <2>5, Typed DEF SameCall, ServedAt, ServedCancel, KeptBut
  <2> QED BY <1>10, <2>3, <2>4, <2>5, ServedSale
<1>11. ASSUME NEW m \in calls, Receive(m) PROVE CallsBacked'
  <2>1. ReceivedAt(m)
      BY <1>11, ReceivedCall
  <2>2. CASE ReceivedStage(m)
      BY <2>1, <2>2, Typed DEF ReceivedAt, ReceivedStage, CartIs, Opens
  <2>3. CASE ReceivedPay(m)
      BY <2>1, <2>3, Typed DEF ReceivedAt, ReceivedPay, CartIs, Opens
  <2>4. CASE ReceivedCancel(m)
      BY <2>1, <2>4, Typed DEF ReceivedAt, ReceivedCancel, Opens
  <2>5. CASE ReceivedDiscard(m)
      BY <2>1, <2>5, Typed DEF ReceivedAt, ReceivedDiscard
  <2> QED BY <1>11, <2>2, <2>3, <2>4, <2>5, ReceivedCall
<1>12. ASSUME NEW m \in calls, Fail(m) PROVE CallsBacked'
    BY <1>12, FailedCall, Typed
<1>13. ASSUME NEW s \in Sales, MintDocument(s) PROVE CallsBacked'
    BY <1>13, MintedSale, Typed
<1>14. CASE UNCHANGED counterVars
    BY <1>14 DEF counterVars
<1>15. ASSUME NEW t \in Tabs, NEW s \in Sales, OpenCheckout(t, s) PROVE CallsBacked'
    BY <1>15, CallsAfterLoad, OpenDone, Typed DEF CartIs, Opens, Unmount, SameCall
<1> QED BY <1>1, <1>2, <1>3, <1>4, <1>5, <1>6, <1>7, <1>8, <1>9, <1>10, <1>11, <1>12, <1>13, <1>14, <1>15
        DEF CounterNext

\* A tab goes on waiting, or was left.
LEMMA CallsWaitStep ==
    CounterTypeOK /\ PagesFilled /\ CallsWait /\ [CounterNext]_counterVars
        => CallsWait'
<1> SUFFICES ASSUME CounterTypeOK, PagesFilled, CallsWait,
                    [CounterNext]_counterVars
             PROVE  CallsWait'
    OBVIOUS
<1> USE DEF CallsWait, Waits
<1>0. ASSUME NEW t \in Tabs, Fresh(t), \A u \in Tabs : u # t => page'[u] = page[u] PROVE CallsWait'
  <2>1. unsure \subseteq unsure' /\ (t \in unsure' \/ \A m \in calls : m.tab # t)
      BY <1>0 DEF Fresh, Unmount
  <2>2. \A n \in calls' : \E m \in calls : SameCall(m, n) /\ (m.tab # t => n = m)
      BY <1>0, CallsAfterLoad
  <2>3. ASSUME NEW n \in calls', n.tab \notin unsure' PROVE n \in calls /\ n.tab # t
      BY <2>1, <2>2, <2>3 DEF SameCall
  <2>4. ASSUME NEW n \in calls', n.tab \notin unsure' PROVE Waits(n)'
    <3>1. n \in calls /\ n.tab # t /\ n.tab \in Tabs /\ Waits(n)
        BY <2>1, <2>3, <2>4, Typed
    <3>2. \A o \in calls' : o.tab = n.tab => o \in calls
        BY <2>2, <3>1 DEF SameCall
    <3> QED BY <1>0, <3>1, <3>2
  <2> QED BY <2>4
<1>1. ASSUME NEW t \in Tabs, Load(t) PROVE CallsWait'
    BY <1>0, <1>1, LoadDone DEF Opens
<1>2. ASSUME NEW t \in Tabs, GoToTerminal(t) PROVE CallsWait'
    BY <1>2, Gone, Typed DEF WentTo, Opens, Unmount
<1>3. ASSUME NEW t \in Tabs, Resume(t) PROVE CallsWait'
    BY <1>3, Gone, Typed DEF WentTo, Opens, Unmount
<1>4. ASSUME NEW t \in Tabs, NEW s \in Sales, BackToCheckout(t, s) PROVE CallsWait'
    BY <1>4, Gone, Typed DEF WentTo, Opens, Unmount
<1>5. ASSUME NEW t \in Tabs, Dismiss(t) PROVE CallsWait'
    BY <1>5, DismissDone, Typed
<1>6. ASSUME NEW t \in Tabs, NEW u \in Units, Add(t, u) PROVE CallsWait'
    BY <1>6, AddDone, Typed DEF CartIs
<1>7. ASSUME NEW t \in Tabs, NEW units, Remove(t, units) PROVE CallsWait'
    BY <1>7, RemoveDone, Typed DEF CartIs
<1>8. ASSUME NEW t \in Tabs, Checkout(t) PROVE CallsWait'
  <2>1. page[t].shows = "terminal" /\ "stage" \notin page[t].busy /\ UNCHANGED <<cart, saved, marker, sale, unsure, dismissed, returned, opened, shared>>
      BY <1>8, CheckoutDone
  <2>2. CASE marker[t] \in Sales /\ Opens(t, "checkout", marker[t]) /\ calls' = calls
    <3>1. \A m \in calls : m.tab = t /\ t \notin unsure => m.kind = "discard"
        BY <2>1, Typed DEF Kinds
    <3> QED BY <2>1, <2>2, <3>1, Typed DEF Opens
  <2>3. CASE /\ marker[t] = NoSale
             /\ \E s \in Sales, n \in Call :
                  /\ sale[s].status = "UNSTAGED"
                  /\ \A m \in calls : m.sale # s
                  /\ IsSent(n, t, "stage", s, cart[t])
    <3>1. PICK s \in Sales, n \in Call : /\ sale[s].status = "UNSTAGED"
                                /\ \A m \in calls : m.sale # s
                                /\ IsSent(n, t, "stage", s, cart[t])
        BY <2>3
    <3> QED BY <2>1, <2>3, <3>1, Typed DEF IsSent
  <2> QED BY <1>8, <2>2, <2>3, CheckoutDone
<1>9. ASSUME NEW t \in Tabs, Pay(t) \/ Cancel(t) \/ Discard(t) PROVE CallsWait'
  <2>1. PICK kind \in {"pay", "cancel", "discard"}, s \in Sales, n \in Call :
          /\ IsSent(n, t, kind, s, {})
          /\ \/ kind = "discard" /\ page[t].shows = "terminal" /\ marker[t] = s
             \/ kind # "discard" /\ page[t].shows = "checkout" /\ page[t].sale = s
          /\ UNCHANGED <<cart, saved, marker, sale, unsure, dismissed, returned, opened, shared>>
      BY <1>9, SentAboutSale
  <2>2. CASE kind = "pay"
      BY <2>1, <2>2, Typed DEF IsSent
  <2>3. CASE kind = "cancel"
      BY <2>1, <2>3, Typed DEF IsSent
  <2>4. CASE kind = "discard"
      BY <2>1, <2>4, Typed DEF IsSent
  <2> QED BY <2>1, <2>2, <2>3, <2>4
<1>10. ASSUME NEW m \in calls, Serve(m) PROVE CallsWait'
  <2>1. PICK n \in Call : /\ SameCall(m, n) /\ n.served /\ n.awaited = m.awaited
                           /\ calls' = (calls \ {m}) \cup {n}
      BY <1>10, ServedCall
  <2>2. ServedAt(m)
      BY <1>10, ServedSale
  <2>3. CASE ServedStage(m)
      BY <2>1, <2>2, <2>3, Typed DEF SameCall, ServedAt, ServedStage
  <2>4. CASE ServedPay(m)
      BY <2>1, <2>2, <2>4, Typed DEF SameCall, ServedAt, ServedPay, KeptBut
  <2>5. CASE ServedCancel(m)
      BY <2>1, <2>2, <2>5, Typed DEF SameCall, ServedAt, ServedCancel, KeptBut
  <2> QED BY <1>10, <2>3, <2>4, <2>5, ServedSale
<1>11. ASSUME NEW m \in calls, Receive(m) PROVE CallsWait'
  <2>1. ReceivedAt(m)
      BY <1>11, ReceivedCall
  <2>2. CASE ReceivedStage(m)
      BY <2>1, <2>2, Typed DEF ReceivedAt, ReceivedStage, CartIs, Opens
  <2>3. CASE ReceivedPay(m)
      BY <2>1, <2>3, Typed DEF ReceivedAt, ReceivedPay, CartIs, Opens
  <2>4. CASE ReceivedCancel(m)
      BY <2>1, <2>4, Typed DEF ReceivedAt, ReceivedCancel, Opens
  <2>5. CASE ReceivedDiscard(m)
      BY <2>1, <2>5, Typed DEF ReceivedAt, ReceivedDiscard
  <2> QED BY <1>11, <2>2, <2>3, <2>4, <2>5, ReceivedCall
<1>12. ASSUME NEW m \in calls, Fail(m) PROVE CallsWait'
    BY SMTT(30), <1>12, FailedCall, Typed
<1>13. ASSUME NEW s \in Sales, MintDocument(s) PROVE CallsWait'
    BY <1>13, MintedSale, Typed
<1>14. CASE UNCHANGED counterVars
    BY <1>14 DEF counterVars
<1>15. ASSUME NEW t \in Tabs, NEW s \in Sales, OpenCheckout(t, s) PROVE CallsWait'
    BY <1>0, <1>15, OpenDone DEF Opens
<1> QED BY <1>1, <1>2, <1>3, <1>4, <1>5, <1>6, <1>7, <1>8, <1>9, <1>10, <1>11, <1>12, <1>13, <1>14, <1>15
        DEF CounterNext

\* Two carts come to share units only by a reload.
LEMMA CartsApartStep ==
    CounterTypeOK /\ PagesFilled /\ CartsApart /\ [CounterNext]_counterVars
        => CartsApart'
<1> SUFFICES ASSUME CounterTypeOK, PagesFilled, CartsApart,
                    [CounterNext]_counterVars
             PROVE  CartsApart'
    OBVIOUS
<1> USE DEF CartsApart
<1>1. ASSUME NEW t \in Tabs, Load(t) PROVE CartsApart'
    BY <1>1, CallsAfterLoad, LoadDone, Typed DEF CartIs, Opens, Unmount, SameCall
<1>2. ASSUME NEW t \in Tabs, GoToTerminal(t) PROVE CartsApart'
    BY <1>2, Gone, Typed DEF WentTo, Opens, Unmount
<1>3. ASSUME NEW t \in Tabs, Resume(t) PROVE CartsApart'
    BY <1>3, Gone, Typed DEF WentTo, Opens, Unmount
<1>4. ASSUME NEW t \in Tabs, NEW s \in Sales, BackToCheckout(t, s) PROVE CartsApart'
    BY <1>4, Gone, Typed DEF WentTo, Opens, Unmount
<1>5. ASSUME NEW t \in Tabs, Dismiss(t) PROVE CartsApart'
    BY <1>5, DismissDone, Typed
<1>6. ASSUME NEW t \in Tabs, NEW u \in Units, Add(t, u) PROVE CartsApart'
  <2>1. saved' = cart'[t] /\ shared' = shared /\ cart'[t] = cart[t] \cup {u}
      BY <1>6, AddDone DEF CartIs
  <2>2. \A v \in Tabs : v # t => cart'[v] = cart[v]
      BY <1>6, AddDone DEF CartIs
  <2>3. \A v \in Tabs : u \notin cart[v]
      BY <1>6, AddDone
  <2>4. ASSUME NEW v \in Tabs, NEW w \in Tabs, v # w PROVE cart'[v] \cap cart'[w] \subseteq shared'
      BY <2>1, <2>2, <2>3, <2>4
  <2> QED BY <2>1, <2>4
<1>7. ASSUME NEW t \in Tabs, NEW units, Remove(t, units) PROVE CartsApart'
  <2>1. saved' = cart'[t]
      BY <1>7, RemoveDone DEF CartIs
  <2>2. (\A v \in Tabs : cart'[v] \subseteq cart[v]) /\ shared' = shared
      BY <1>7, RemoveDone DEF CartIs
  <2>3. ASSUME NEW v \in Tabs, NEW w \in Tabs, v # w PROVE cart'[v] \cap cart'[w] \subseteq shared'
      BY <2>2, <2>3
  <2> QED BY <2>1, <2>3
<1>8. ASSUME NEW t \in Tabs, Checkout(t) PROVE CartsApart'
  <2>1. page[t].shows = "terminal" /\ "stage" \notin page[t].busy /\ UNCHANGED <<cart, saved, marker, sale, unsure, dismissed, returned, opened, shared>>
      BY <1>8, CheckoutDone
  <2>2. CASE marker[t] \in Sales /\ Opens(t, "checkout", marker[t]) /\ calls' = calls
      BY <1>8, <2>1, <2>2, Typed DEF Opens
  <2>3. CASE /\ marker[t] = NoSale
             /\ \E s \in Sales, n \in Call :
                  /\ sale[s].status = "UNSTAGED"
                  /\ \A m \in calls : m.sale # s
                  /\ IsSent(n, t, "stage", s, cart[t])
    <3>1. PICK s \in Sales, n \in Call : /\ sale[s].status = "UNSTAGED"
                                /\ \A m \in calls : m.sale # s
                                /\ IsSent(n, t, "stage", s, cart[t])
        BY <2>3
    <3> QED BY <2>1, <2>3, <3>1, Typed DEF IsSent
  <2> QED BY <1>8, <2>2, <2>3, CheckoutDone
<1>9. ASSUME NEW t \in Tabs, Pay(t) \/ Cancel(t) \/ Discard(t) PROVE CartsApart'
  <2>1. PICK kind \in {"pay", "cancel", "discard"}, s \in Sales, n \in Call :
          /\ IsSent(n, t, kind, s, {})
          /\ \/ kind = "discard" /\ page[t].shows = "terminal" /\ marker[t] = s
             \/ kind # "discard" /\ page[t].shows = "checkout" /\ page[t].sale = s
          /\ UNCHANGED <<cart, saved, marker, sale, unsure, dismissed, returned, opened, shared>>
      BY <1>9, SentAboutSale
  <2>2. CASE kind = "pay"
      BY <2>1, <2>2, Typed DEF IsSent
  <2>3. CASE kind = "cancel"
      BY <2>1, <2>3, Typed DEF IsSent
  <2>4. CASE kind = "discard"
      BY <2>1, <2>4, Typed DEF IsSent
  <2> QED BY <2>1, <2>2, <2>3, <2>4
<1>10. ASSUME NEW m \in calls, Serve(m) PROVE CartsApart'
  <2>1. PICK n \in Call : /\ SameCall(m, n) /\ n.served /\ n.awaited = m.awaited
                           /\ calls' = (calls \ {m}) \cup {n}
      BY <1>10, ServedCall
  <2>2. ServedAt(m)
      BY <1>10, ServedSale
  <2>3. CASE ServedStage(m)
      BY <2>1, <2>2, <2>3, Typed DEF SameCall, ServedAt, ServedStage
  <2>4. CASE ServedPay(m)
      BY <2>1, <2>2, <2>4, Typed DEF SameCall, ServedAt, ServedPay, KeptBut
  <2>5. CASE ServedCancel(m)
      BY <2>1, <2>2, <2>5, Typed DEF SameCall, ServedAt, ServedCancel, KeptBut
  <2> QED BY <1>10, <2>3, <2>4, <2>5, ServedSale
<1>11. ASSUME NEW m \in calls, Receive(m) PROVE CartsApart'
  <2>1. ReceivedAt(m)
      BY <1>11, ReceivedCall
  <2>2. CASE ReceivedStage(m)
      BY <2>1, <2>2, Typed DEF ReceivedAt, ReceivedStage, CartIs, Opens
  <2>3. CASE ReceivedPay(m)
      BY <2>1, <2>3, Typed DEF ReceivedAt, ReceivedPay, CartIs, Opens
  <2>4. CASE ReceivedCancel(m)
      BY <2>1, <2>4, Typed DEF ReceivedAt, ReceivedCancel, Opens
  <2>5. CASE ReceivedDiscard(m)
      BY <2>1, <2>5, Typed DEF ReceivedAt, ReceivedDiscard
  <2> QED BY <1>11, <2>2, <2>3, <2>4, <2>5, ReceivedCall
<1>12. ASSUME NEW m \in calls, Fail(m) PROVE CartsApart'
    BY <1>12, FailedCall, Typed
<1>13. ASSUME NEW s \in Sales, MintDocument(s) PROVE CartsApart'
    BY <1>13, MintedSale, Typed
<1>14. CASE UNCHANGED counterVars
    BY <1>14 DEF counterVars
<1>15. ASSUME NEW t \in Tabs, NEW s \in Sales, OpenCheckout(t, s) PROVE CartsApart'
    BY <1>15, CallsAfterLoad, OpenDone, Typed DEF CartIs, Opens, Unmount, SameCall
<1> QED BY <1>1, <1>2, <1>3, <1>4, <1>5, <1>6, <1>7, <1>8, <1>9, <1>10, <1>11, <1>12, <1>13, <1>14, <1>15
        DEF CounterNext

\* What the calls are about stays remembered.
LEMMA CallsRememberedStep ==
    CounterTypeOK /\ PagesFilled /\ TabsKnow /\ CallsBacked /\ CallsWait /\ Remembered /\ [CounterNext]_counterVars
        => CallsRemembered'
<1> SUFFICES ASSUME CounterTypeOK, PagesFilled, TabsKnow, CallsBacked, CallsWait, Remembered,
                    [CounterNext]_counterVars
             PROVE  CallsRemembered'
    OBVIOUS
<1> USE DEF TabsKnow, Knows, Acts, CallsBacked, CallsWait, Waits, Remembered, CallsRemembered, PageRemembered, Minds, Slip
<1>1. ASSUME NEW t \in Tabs, Load(t) PROVE CallsRemembered'
  <2>1. /\ UNCHANGED <<marker, sale, dismissed, returned, opened>>
        /\ unsure' = IF \E m \in calls : m.tab = t THEN unsure \cup {t} ELSE unsure
        /\ \A u \in Tabs : u # t => page'[u] = page[u]
      BY <1>1, LoadDone DEF Opens, Unmount
  <2>2. \A n \in calls' : ~Slip(n.tab)' => n \in calls /\ n.tab # t /\ n.tab \in Tabs
      BY <1>1, <2>1, LoadDone, CallsAfterLoad, Typed DEF SameCall
  <2> HIDE DEF TabsKnow, CallsBacked, CallsWait, PageRemembered
  <2> QED BY <2>1, <2>2
<1>2. ASSUME NEW t \in Tabs, GoToTerminal(t) PROVE CallsRemembered'
    BY <1>2, Gone, Typed DEF WentTo, Opens, Unmount
<1>3. ASSUME NEW t \in Tabs, Resume(t) PROVE CallsRemembered'
    BY <1>3, Gone, Typed DEF WentTo, Opens, Unmount
<1>4. ASSUME NEW t \in Tabs, NEW s \in Sales, BackToCheckout(t, s) PROVE CallsRemembered'
    BY <1>4, Gone, Typed DEF WentTo, Opens, Unmount
<1>5. ASSUME NEW t \in Tabs, Dismiss(t) PROVE CallsRemembered'
    BY <1>5, DismissDone, Typed
<1>6. ASSUME NEW t \in Tabs, NEW u \in Units, Add(t, u) PROVE CallsRemembered'
    BY <1>6, AddDone, Typed DEF CartIs
<1>7. ASSUME NEW t \in Tabs, NEW units, Remove(t, units) PROVE CallsRemembered'
    BY <1>7, RemoveDone, Typed DEF CartIs
<1>8. ASSUME NEW t \in Tabs, Checkout(t) PROVE CallsRemembered'
  <2>1. page[t].shows = "terminal" /\ "stage" \notin page[t].busy /\ UNCHANGED <<cart, saved, marker, sale, unsure, dismissed, returned, opened, shared>>
      BY <1>8, CheckoutDone
  <2>2. CASE marker[t] \in Sales /\ Opens(t, "checkout", marker[t]) /\ calls' = calls
      BY <1>8, <2>1, <2>2, Typed DEF Opens
  <2>3. CASE /\ marker[t] = NoSale
             /\ \E s \in Sales, n \in Call :
                  /\ sale[s].status = "UNSTAGED"
                  /\ \A m \in calls : m.sale # s
                  /\ IsSent(n, t, "stage", s, cart[t])
    <3>1. PICK s \in Sales, n \in Call : /\ sale[s].status = "UNSTAGED"
                                /\ \A m \in calls : m.sale # s
                                /\ IsSent(n, t, "stage", s, cart[t])
        BY <2>3
    <3> QED BY <2>1, <2>3, <3>1, Typed DEF IsSent
  <2> QED BY <1>8, <2>2, <2>3, CheckoutDone
<1>9. ASSUME NEW t \in Tabs, Pay(t) \/ Cancel(t) \/ Discard(t) PROVE CallsRemembered'
  <2>1. PICK kind \in {"pay", "cancel", "discard"}, s \in Sales, n \in Call :
          /\ IsSent(n, t, kind, s, {})
          /\ \/ kind = "discard" /\ page[t].shows = "terminal" /\ marker[t] = s
             \/ kind # "discard" /\ page[t].shows = "checkout" /\ page[t].sale = s
          /\ UNCHANGED <<cart, saved, marker, sale, unsure, dismissed, returned, opened, shared>>
      BY <1>9, SentAboutSale
  <2>2. CASE kind = "pay"
      BY <2>1, <2>2, Typed DEF IsSent
  <2>3. CASE kind = "cancel"
      BY <2>1, <2>3, Typed DEF IsSent
  <2>4. CASE kind = "discard"
      BY <2>1, <2>4, Typed DEF IsSent
  <2> QED BY <2>1, <2>2, <2>3, <2>4
<1>10. ASSUME NEW m \in calls, Serve(m) PROVE CallsRemembered'
  <2>1. PICK n \in Call : /\ SameCall(m, n) /\ n.served /\ n.awaited = m.awaited
                           /\ calls' = (calls \ {m}) \cup {n}
      BY <1>10, ServedCall
  <2>2. ServedAt(m)
      BY <1>10, ServedSale
  <2>3. CASE ServedStage(m)
      BY <2>1, <2>2, <2>3, Typed DEF SameCall, ServedAt, ServedStage
  <2>4. CASE ServedPay(m)
      BY <2>1, <2>2, <2>4, Typed DEF SameCall, ServedAt, ServedPay, KeptBut
  <2>5. CASE ServedCancel(m)
      BY <2>1, <2>2, <2>5, Typed DEF SameCall, ServedAt, ServedCancel, KeptBut
  <2> QED BY <1>10, <2>3, <2>4, <2>5, ServedSale
<1>11. ASSUME NEW m \in calls, Receive(m) PROVE CallsRemembered'
  <2>1. ReceivedAt(m)
      BY <1>11, ReceivedCall
  <2>2. CASE ReceivedStage(m)
      BY <2>1, <2>2, Typed DEF ReceivedAt, ReceivedStage, CartIs, Opens
  <2>3. CASE ReceivedPay(m)
      BY <2>1, <2>3, Typed DEF ReceivedAt, ReceivedPay, CartIs, Opens
  <2>4. CASE ReceivedCancel(m)
      BY <2>1, <2>4, Typed DEF ReceivedAt, ReceivedCancel, Opens
  <2>5. CASE ReceivedDiscard(m)
    <3>1. ASSUME NEW n \in calls, n # m, n.tab = m.tab, ~Slip(m.tab) PROVE n.kind # "stage" /\ Minds(n.tab, n.sale)'
      <4>1. m.kind = "discard" /\ m.served /\ sale[m.sale].status = "DELETED"
          BY <2>1, <2>5 DEF ReceivedAt, ReceivedDiscard
      <4>2. n.kind # "stage" /\ Minds(n.tab, n.sale) /\ Minds(m.tab, m.sale)
          BY <3>1, <4>1
      <4>3. n.kind # "discard" /\ page[m.tab].shows = "checkout"
          BY <3>1, <4>1, <4>2, Typed DEF Kinds
      <4>4. marker'[m.tab] = NoSale /\ page'[m.tab].shows = "checkout" /\ UNCHANGED sale
          BY <2>1, <2>5, <4>3 DEF ReceivedAt, ReceivedDiscard
      <4>5. m.sale # NoSale /\ n.sale # NoSale
          BY Typed
      <4> HIDE DEF TabsKnow, CallsBacked, CallsWait, CallsRemembered, PageRemembered
      <4> QED BY <3>1, <4>1, <4>2, <4>4, <4>5
    <3>2. \A n \in calls' : n \in calls /\ n # m
        BY <2>1 DEF ReceivedAt
    <3>3. /\ unsure \subseteq unsure' /\ UNCHANGED <<sale, dismissed, returned>>
          /\ \A t \in Tabs : t # m.tab => marker'[t] = marker[t] /\ page'[t] = page[t]
        BY <2>1 DEF ReceivedAt
    <3>4. \A n \in calls : n.tab \in Tabs
        BY Typed
    <3> HIDE DEF TabsKnow, CallsBacked, CallsWait, PageRemembered
    <3> QED BY <3>1, <3>2, <3>3, <3>4
  <2> QED BY <1>11, <2>2, <2>3, <2>4, <2>5, ReceivedCall
<1>12. ASSUME NEW m \in calls, Fail(m) PROVE CallsRemembered'
    BY <1>12, FailedCall, Typed
<1>13. ASSUME NEW s \in Sales, MintDocument(s) PROVE CallsRemembered'
    BY <1>13, MintedSale, Typed
<1>14. CASE UNCHANGED counterVars
    BY <1>14 DEF counterVars
<1>15. ASSUME NEW t \in Tabs, NEW s \in Sales, OpenCheckout(t, s) PROVE CallsRemembered'
  <2>1. /\ UNCHANGED <<marker, sale, dismissed>> /\ returned \subseteq returned'
        /\ unsure' = IF \E m \in calls : m.tab = t THEN unsure \cup {t} ELSE unsure
        /\ \A u \in Tabs : u # t => page'[u] = page[u]
      BY <1>15, OpenDone DEF Opens, Unmount
  <2>2. \A n \in calls' : ~Slip(n.tab)' => n \in calls /\ n.tab # t /\ n.tab \in Tabs
      BY <1>15, <2>1, OpenDone, CallsAfterLoad, Typed DEF SameCall
  <2> HIDE DEF TabsKnow, CallsBacked, CallsWait, PageRemembered
  <2> QED BY <2>1, <2>2
<1> QED BY <1>1, <1>2, <1>3, <1>4, <1>5, <1>6, <1>7, <1>8, <1>9, <1>10, <1>11, <1>12, <1>13, <1>14, <1>15
        DEF CounterNext

\* The sale of the checkout stays remembered.
LEMMA PageRememberedStep ==
    CounterTypeOK /\ PagesFilled /\ TabsKnow /\ CallsBacked /\ CallsWait /\ Remembered /\ [CounterNext]_counterVars
        => PageRemembered'
<1> SUFFICES ASSUME CounterTypeOK, PagesFilled, TabsKnow, CallsBacked, CallsWait, Remembered,
                    [CounterNext]_counterVars
             PROVE  PageRemembered'
    OBVIOUS
<1> USE DEF TabsKnow, Knows, Acts, CallsBacked, CallsWait, Waits, Remembered, CallsRemembered, PageRemembered, Minds, Slip, PagesFilled
<1>1. ASSUME NEW t \in Tabs, Load(t) PROVE PageRemembered'
    BY <1>1, CallsAfterLoad, LoadDone, Typed DEF CartIs, Opens, Unmount, SameCall
<1>2. ASSUME NEW t \in Tabs, GoToTerminal(t) PROVE PageRemembered'
    BY <1>2, Gone, Typed DEF WentTo, Opens, Unmount
<1>3. ASSUME NEW t \in Tabs, Resume(t) PROVE PageRemembered'
    BY <1>3, Gone, Typed DEF WentTo, Opens, Unmount
<1>4. ASSUME NEW t \in Tabs, NEW s \in Sales, BackToCheckout(t, s) PROVE PageRemembered'
    BY <1>4, Gone, Typed DEF WentTo, Opens, Unmount
<1>5. ASSUME NEW t \in Tabs, Dismiss(t) PROVE PageRemembered'
    BY <1>5, DismissDone, Typed
<1>6. ASSUME NEW t \in Tabs, NEW u \in Units, Add(t, u) PROVE PageRemembered'
    BY <1>6, AddDone, Typed DEF CartIs
<1>7. ASSUME NEW t \in Tabs, NEW units, Remove(t, units) PROVE PageRemembered'
    BY <1>7, RemoveDone, Typed DEF CartIs
<1>8. ASSUME NEW t \in Tabs, Checkout(t) PROVE PageRemembered'
  <2>1. page[t].shows = "terminal" /\ "stage" \notin page[t].busy /\ UNCHANGED <<cart, saved, marker, sale, unsure, dismissed, returned, opened, shared>>
      BY <1>8, CheckoutDone
  <2>2. CASE marker[t] \in Sales /\ Opens(t, "checkout", marker[t]) /\ calls' = calls
      BY <1>8, <2>1, <2>2, Typed DEF Opens
  <2>3. CASE /\ marker[t] = NoSale
             /\ \E s \in Sales, n \in Call :
                  /\ sale[s].status = "UNSTAGED"
                  /\ \A m \in calls : m.sale # s
                  /\ IsSent(n, t, "stage", s, cart[t])
    <3>1. PICK s \in Sales, n \in Call : /\ sale[s].status = "UNSTAGED"
                                /\ \A m \in calls : m.sale # s
                                /\ IsSent(n, t, "stage", s, cart[t])
        BY <2>3
    <3> QED BY <2>1, <2>3, <3>1, Typed DEF IsSent
  <2> QED BY <1>8, <2>2, <2>3, CheckoutDone
<1>9. ASSUME NEW t \in Tabs, Pay(t) \/ Cancel(t) \/ Discard(t) PROVE PageRemembered'
  <2>1. PICK kind \in {"pay", "cancel", "discard"}, s \in Sales, n \in Call :
          /\ IsSent(n, t, kind, s, {})
          /\ \/ kind = "discard" /\ page[t].shows = "terminal" /\ marker[t] = s
             \/ kind # "discard" /\ page[t].shows = "checkout" /\ page[t].sale = s
          /\ UNCHANGED <<cart, saved, marker, sale, unsure, dismissed, returned, opened, shared>>
      BY <1>9, SentAboutSale
  <2>2. CASE kind = "pay"
      BY <2>1, <2>2, Typed DEF IsSent
  <2>3. CASE kind = "cancel"
      BY <2>1, <2>3, Typed DEF IsSent
  <2>4. CASE kind = "discard"
      BY <2>1, <2>4, Typed DEF IsSent
  <2> QED BY <2>1, <2>2, <2>3, <2>4
<1>10. ASSUME NEW m \in calls, Serve(m) PROVE PageRemembered'
  <2>1. PICK n \in Call : /\ SameCall(m, n) /\ n.served /\ n.awaited = m.awaited
                           /\ calls' = (calls \ {m}) \cup {n}
      BY <1>10, ServedCall
  <2>2. ServedAt(m)
      BY <1>10, ServedSale
  <2>3. CASE ServedStage(m)
      BY <2>1, <2>2, <2>3, Typed DEF SameCall, ServedAt, ServedStage
  <2>4. CASE ServedPay(m)
      BY <2>1, <2>2, <2>4, Typed DEF SameCall, ServedAt, ServedPay, KeptBut
  <2>5. CASE ServedCancel(m)
      BY <2>1, <2>2, <2>5, Typed DEF SameCall, ServedAt, ServedCancel, KeptBut
  <2> QED BY <1>10, <2>3, <2>4, <2>5, ServedSale
<1>11. ASSUME NEW m \in calls, Receive(m) PROVE PageRemembered'
  <2>1. ReceivedAt(m)
      BY <1>11, ReceivedCall
  <2>2. CASE ReceivedStage(m)
      BY <2>1, <2>2, Typed DEF ReceivedAt, ReceivedStage, CartIs, Opens
  <2>3. CASE ReceivedPay(m)
      BY <2>1, <2>3, Typed DEF ReceivedAt, ReceivedPay, CartIs, Opens
  <2>4. CASE ReceivedCancel(m)
      BY <2>1, <2>4, Typed DEF ReceivedAt, ReceivedCancel, Opens
  <2>5. CASE ReceivedDiscard(m)
      BY <2>1, <2>5, Typed DEF ReceivedAt, ReceivedDiscard
  <2> QED BY <1>11, <2>2, <2>3, <2>4, <2>5, ReceivedCall
<1>12. ASSUME NEW m \in calls, Fail(m) PROVE PageRemembered'
    BY <1>12, FailedCall, Typed
<1>13. ASSUME NEW s \in Sales, MintDocument(s) PROVE PageRemembered'
    BY <1>13, MintedSale, Typed
<1>14. CASE UNCHANGED counterVars
    BY <1>14 DEF counterVars
<1>15. ASSUME NEW t \in Tabs, NEW s \in Sales, OpenCheckout(t, s) PROVE PageRemembered'
    BY <1>15, CallsAfterLoad, OpenDone, Typed DEF CartIs, Opens, Unmount, SameCall
<1> QED BY <1>1, <1>2, <1>3, <1>4, <1>5, <1>6, <1>7, <1>8, <1>9, <1>10, <1>11, <1>12, <1>13, <1>14, <1>15
        DEF CounterNext

\* The staged sale stays remembered.
LEMMA PendingRememberedStep ==
    CounterTypeOK /\ PagesFilled /\ TabsKnow /\ CallsBacked /\ CallsWait /\ Remembered /\ [CounterNext]_counterVars
        => PendingRemembered'
<1> SUFFICES ASSUME CounterTypeOK, PagesFilled, TabsKnow, CallsBacked, CallsWait, Remembered,
                    [CounterNext]_counterVars
             PROVE  PendingRemembered'
    OBVIOUS
<1> USE DEF TabsKnow, Knows, Acts, CallsBacked, CallsWait, Waits, Remembered, CallsRemembered, PendingRemembered, StageCallOf, Pending, Minds, Slip
<1>1. ASSUME NEW t \in Tabs, Load(t) PROVE PendingRemembered'
    BY <1>1, CallsAfterLoad, LoadDone, Typed DEF CartIs, Opens, Unmount, SameCall
<1>2. ASSUME NEW t \in Tabs, GoToTerminal(t) PROVE PendingRemembered'
    BY <1>2, Gone, Typed DEF WentTo, Opens, Unmount
<1>3. ASSUME NEW t \in Tabs, Resume(t) PROVE PendingRemembered'
    BY <1>3, Gone, Typed DEF WentTo, Opens, Unmount
<1>4. ASSUME NEW t \in Tabs, NEW s \in Sales, BackToCheckout(t, s) PROVE PendingRemembered'
    BY <1>4, Gone, Typed DEF WentTo, Opens, Unmount
<1>5. ASSUME NEW t \in Tabs, Dismiss(t) PROVE PendingRemembered'
    BY <1>5, DismissDone, Typed
<1>6. ASSUME NEW t \in Tabs, NEW u \in Units, Add(t, u) PROVE PendingRemembered'
    BY <1>6, AddDone, Typed DEF CartIs
<1>7. ASSUME NEW t \in Tabs, NEW units, Remove(t, units) PROVE PendingRemembered'
    BY <1>7, RemoveDone, Typed DEF CartIs
<1>8. ASSUME NEW t \in Tabs, Checkout(t) PROVE PendingRemembered'
  <2>1. page[t].shows = "terminal" /\ "stage" \notin page[t].busy /\ UNCHANGED <<cart, saved, marker, sale, unsure, dismissed, returned, opened, shared>>
      BY <1>8, CheckoutDone
  <2>2. CASE marker[t] \in Sales /\ Opens(t, "checkout", marker[t]) /\ calls' = calls
      BY <1>8, <2>1, <2>2, Typed DEF Opens
  <2>3. CASE /\ marker[t] = NoSale
             /\ \E s \in Sales, n \in Call :
                  /\ sale[s].status = "UNSTAGED"
                  /\ \A m \in calls : m.sale # s
                  /\ IsSent(n, t, "stage", s, cart[t])
    <3>1. PICK s \in Sales, n \in Call : /\ sale[s].status = "UNSTAGED"
                                /\ \A m \in calls : m.sale # s
                                /\ IsSent(n, t, "stage", s, cart[t])
        BY <2>3
    <3> QED BY <2>1, <2>3, <3>1, Typed DEF IsSent
  <2> QED BY <1>8, <2>2, <2>3, CheckoutDone
<1>9. ASSUME NEW t \in Tabs, Pay(t) \/ Cancel(t) \/ Discard(t) PROVE PendingRemembered'
  <2>1. PICK kind \in {"pay", "cancel", "discard"}, s \in Sales, n \in Call :
          /\ IsSent(n, t, kind, s, {})
          /\ \/ kind = "discard" /\ page[t].shows = "terminal" /\ marker[t] = s
             \/ kind # "discard" /\ page[t].shows = "checkout" /\ page[t].sale = s
          /\ UNCHANGED <<cart, saved, marker, sale, unsure, dismissed, returned, opened, shared>>
      BY <1>9, SentAboutSale
  <2>2. CASE kind = "pay"
      BY <2>1, <2>2, Typed DEF IsSent
  <2>3. CASE kind = "cancel"
      BY <2>1, <2>3, Typed DEF IsSent
  <2>4. CASE kind = "discard"
      BY <2>1, <2>4, Typed DEF IsSent
  <2> QED BY <2>1, <2>2, <2>3, <2>4
<1>10. ASSUME NEW m \in calls, Serve(m) PROVE PendingRemembered'
  <2>1. PICK n \in Call : /\ SameCall(m, n) /\ n.served /\ n.awaited = m.awaited
                           /\ calls' = (calls \ {m}) \cup {n}
      BY <1>10, ServedCall
  <2>2. ServedAt(m)
      BY <1>10, ServedSale
  <2>3. CASE ServedStage(m)
      BY <2>1, <2>2, <2>3, Typed DEF SameCall, ServedAt, ServedStage
  <2>4. CASE ServedPay(m)
      BY <2>1, <2>2, <2>4, Typed DEF SameCall, ServedAt, ServedPay, KeptBut
  <2>5. CASE ServedCancel(m)
      BY <2>1, <2>2, <2>5, Typed DEF SameCall, ServedAt, ServedCancel, KeptBut
  <2> QED BY <1>10, <2>3, <2>4, <2>5, ServedSale
<1>11. ASSUME NEW m \in calls, Receive(m) PROVE PendingRemembered'
  <2>1. ReceivedAt(m)
      BY <1>11, ReceivedCall
  <2>2. CASE ReceivedStage(m)
      BY <2>1, <2>2, Typed DEF ReceivedAt, ReceivedStage, CartIs, Opens
  <2>3. CASE ReceivedPay(m)
      BY <2>1, <2>3, Typed DEF ReceivedAt, ReceivedPay, CartIs, Opens
  <2>4. CASE ReceivedCancel(m)
      BY <2>1, <2>4, Typed DEF ReceivedAt, ReceivedCancel, Opens
  <2>5. CASE ReceivedDiscard(m)
      BY <2>1, <2>5, Typed DEF ReceivedAt, ReceivedDiscard
  <2> QED BY <1>11, <2>2, <2>3, <2>4, <2>5, ReceivedCall
<1>12. ASSUME NEW m \in calls, Fail(m) PROVE PendingRemembered'
    BY <1>12, FailedCall, Typed
<1>13. ASSUME NEW s \in Sales, MintDocument(s) PROVE PendingRemembered'
    BY <1>13, MintedSale, Typed
<1>14. CASE UNCHANGED counterVars
    BY <1>14 DEF counterVars
<1>15. ASSUME NEW t \in Tabs, NEW s \in Sales, OpenCheckout(t, s) PROVE PendingRemembered'
    BY <1>15, CallsAfterLoad, OpenDone, Typed DEF CartIs, Opens, Unmount, SameCall
<1> QED BY <1>1, <1>2, <1>3, <1>4, <1>5, <1>6, <1>7, <1>8, <1>9, <1>10, <1>11, <1>12, <1>13, <1>14, <1>15, ZenonT(30)
        DEF CounterNext

\* What was sent stays out of the carts.
LEMMA SentApartStep ==
    CounterTypeOK /\ PagesFilled /\ RowsFresh /\ TabsKnow /\ CallsBacked /\ CallsWait /\ CartsApart /\ SentApart /\ [CounterNext]_counterVars
        => SentApart'
<1> SUFFICES ASSUME CounterTypeOK, PagesFilled, RowsFresh, TabsKnow, CallsBacked, CallsWait, CartsApart, SentApart,
                    [CounterNext]_counterVars
             PROVE  SentApart'
    OBVIOUS
<1> USE DEF RowsFresh, CallsBacked, Acts, CallsWait, Waits, CartsApart, SentApart, StageCallOf
<1>1. ASSUME NEW t \in Tabs, Load(t) PROVE SentApart'
    BY <1>1, CallsAfterLoad, LoadDone, Typed DEF CartIs, Opens, Unmount, SameCall
<1>2. ASSUME NEW t \in Tabs, GoToTerminal(t) PROVE SentApart'
    BY <1>2, Gone, Typed DEF WentTo, Opens, Unmount
<1>3. ASSUME NEW t \in Tabs, Resume(t) PROVE SentApart'
    BY <1>3, Gone, Typed DEF WentTo, Opens, Unmount
<1>4. ASSUME NEW t \in Tabs, NEW s \in Sales, BackToCheckout(t, s) PROVE SentApart'
    BY <1>4, Gone, Typed DEF WentTo, Opens, Unmount
<1>5. ASSUME NEW t \in Tabs, Dismiss(t) PROVE SentApart'
    BY <1>5, DismissDone, Typed
<1>6. ASSUME NEW t \in Tabs, NEW u \in Units, Add(t, u) PROVE SentApart'
    BY <1>6, AddDone, Typed DEF CartIs
<1>7. ASSUME NEW t \in Tabs, NEW units, Remove(t, units) PROVE SentApart'
    BY <1>7, RemoveDone, Typed DEF CartIs
<1>8. ASSUME NEW t \in Tabs, Checkout(t) PROVE SentApart'
  <2>1. page[t].shows = "terminal" /\ "stage" \notin page[t].busy /\ UNCHANGED <<cart, saved, marker, sale, unsure, dismissed, returned, opened, shared>>
      BY <1>8, CheckoutDone
  <2>2. CASE marker[t] \in Sales /\ Opens(t, "checkout", marker[t]) /\ calls' = calls
      BY <1>8, <2>1, <2>2, Typed DEF Opens
  <2>3. CASE /\ marker[t] = NoSale
             /\ \E s \in Sales, n \in Call :
                  /\ sale[s].status = "UNSTAGED"
                  /\ \A m \in calls : m.sale # s
                  /\ IsSent(n, t, "stage", s, cart[t])
    <3>1. PICK s \in Sales, n \in Call : /\ sale[s].status = "UNSTAGED"
                                /\ \A m \in calls : m.sale # s
                                /\ IsSent(n, t, "stage", s, cart[t])
        BY <2>3
    <3> QED BY <2>1, <2>3, <3>1, Typed DEF IsSent
  <2> QED BY <1>8, <2>2, <2>3, CheckoutDone
<1>9. ASSUME NEW t \in Tabs, Pay(t) \/ Cancel(t) \/ Discard(t) PROVE SentApart'
  <2>1. PICK kind \in {"pay", "cancel", "discard"}, s \in Sales, n \in Call :
          /\ IsSent(n, t, kind, s, {})
          /\ \/ kind = "discard" /\ page[t].shows = "terminal" /\ marker[t] = s
             \/ kind # "discard" /\ page[t].shows = "checkout" /\ page[t].sale = s
          /\ UNCHANGED <<cart, saved, marker, sale, unsure, dismissed, returned, opened, shared>>
      BY <1>9, SentAboutSale
  <2>2. CASE kind = "pay"
      BY <2>1, <2>2, Typed DEF IsSent
  <2>3. CASE kind = "cancel"
      BY <2>1, <2>3, Typed DEF IsSent
  <2>4. CASE kind = "discard"
      BY <2>1, <2>4, Typed DEF IsSent
  <2> QED BY <2>1, <2>2, <2>3, <2>4
<1>10. ASSUME NEW m \in calls, Serve(m) PROVE SentApart'
  <2>1. PICK n \in Call : /\ SameCall(m, n) /\ n.served /\ n.awaited = m.awaited
                           /\ calls' = (calls \ {m}) \cup {n}
      BY <1>10, ServedCall
  <2>2. ServedAt(m)
      BY <1>10, ServedSale
  <2>3. CASE ServedStage(m)
      BY <2>1, <2>2, <2>3, Typed DEF SameCall, ServedAt, ServedStage
  <2>4. CASE ServedPay(m)
      BY <2>1, <2>2, <2>4, Typed DEF SameCall, ServedAt, ServedPay, KeptBut
  <2>5. CASE ServedCancel(m)
      BY <2>1, <2>2, <2>5, Typed DEF SameCall, ServedAt, ServedCancel, KeptBut
  <2> QED BY <1>10, <2>3, <2>4, <2>5, ServedSale
<1>11. ASSUME NEW m \in calls, Receive(m) PROVE SentApart'
  <2>1. ReceivedAt(m)
      BY <1>11, ReceivedCall
  <2>2. CASE ReceivedStage(m)
      BY <2>1, <2>2, Typed DEF ReceivedAt, ReceivedStage, CartIs, Opens
  <2>3. CASE ReceivedPay(m)
      BY <2>1, <2>3, Typed DEF ReceivedAt, ReceivedPay, CartIs, Opens
  <2>4. CASE ReceivedCancel(m)
      BY <2>1, <2>4, Typed DEF ReceivedAt, ReceivedCancel, Opens
  <2>5. CASE ReceivedDiscard(m)
      BY <2>1, <2>5, Typed DEF ReceivedAt, ReceivedDiscard
  <2> QED BY <1>11, <2>2, <2>3, <2>4, <2>5, ReceivedCall
<1>12. ASSUME NEW m \in calls, Fail(m) PROVE SentApart'
    BY <1>12, FailedCall, Typed
<1>13. ASSUME NEW s \in Sales, MintDocument(s) PROVE SentApart'
    BY <1>13, MintedSale, Typed
<1>14. CASE UNCHANGED counterVars
    BY <1>14 DEF counterVars
<1>15. ASSUME NEW t \in Tabs, NEW s \in Sales, OpenCheckout(t, s) PROVE SentApart'
  <2>1. /\ \A n \in calls' : \E m \in calls :
             n.kind = m.kind /\ n.tab = m.tab /\ n.units = m.units
        /\ \A m \in calls : m.tab # t => m \in calls'
        /\ \A m \in calls : m.tab = t => t \in unsure'
        /\ unsure \subseteq unsure' /\ sale' = sale
      BY <1>15, CallsAfterLoad, OpenDone DEF SameCall, Unmount
  <2>2. /\ cart'[t] = saved /\ \A u \in Tabs : u # t => cart'[u] = cart[u]
        /\ shared' = shared \cup (saved \cap UNION {cart[u] : u \in Tabs \ {t}})
      BY <1>15, OpenDone DEF CartIs
  <2>3. /\ shared \subseteq shared'
        /\ \A w \in Tabs : w # t /\ saved = cart[w] => saved \subseteq shared'
      BY <2>2
  <2>4. ASSUME NEW m \in calls, NEW x \in Tabs, m.kind = "stage", x # m.tab
        PROVE  m.tab \in unsure \/ cart'[x] \cap m.units \subseteq shared'
    <3>1. CASE x # t
        BY <2>2, <2>3, <2>4, <3>1
    <3>2. CASE x = t /\ saved # {}
      <4>1. PICK w \in Tabs : saved = cart[w]
          BY <3>2
      <4>2. CASE w = m.tab
          BY <2>2, <2>3, <2>4, <3>2, <4>1, <4>2
      <4>3. CASE w # m.tab
          BY <2>2, <2>3, <2>4, <3>2, <4>1, <4>3
      <4> QED BY <4>2, <4>3
    <3> QED BY <2>2, <3>1, <3>2
  <2>5. ASSUME NEW x \in Sales, NEW u \in Tabs, sale[x].by \notin unsure', ~StageCallOf(u, x)' \/ u # sale[x].by
        PROVE  cart'[u] \cap sale[x].units \subseteq shared'
    <3>1. \A w \in Tabs : \/ cart[w] \cap sale[x].units \subseteq shared
                          \/ w # t /\ w = sale[x].by /\ StageCallOf(w, x)
        BY <2>1, <2>5
    <3>2. CASE u # t
        BY <2>1, <2>2, <2>3, <2>5, <3>1, <3>2
    <3>3. CASE u = t /\ saved # {}
      <4>1. PICK w \in Tabs : saved = cart[w]
          BY <3>3
      <4> QED BY <2>2, <2>3, <3>1, <3>3, <4>1
    <3> QED BY <2>2, <3>2, <3>3
  <2> QED BY <2>1, <2>4, <2>5
<1> QED BY <1>1, <1>2, <1>3, <1>4, <1>5, <1>6, <1>7, <1>8, <1>9, <1>10, <1>11, <1>12, <1>13, <1>14, <1>15
        DEF CounterNext

\* Sales stay apart.
LEMMA SalesApartStep ==
    CounterTypeOK /\ PagesFilled /\ RowsFresh /\ TabsKnow /\ CallsBacked /\ CallsWait /\ CartsApart /\ SentApart /\ SalesApart /\ [CounterNext]_counterVars
        => SalesApart'
<1> SUFFICES ASSUME CounterTypeOK, PagesFilled, RowsFresh, TabsKnow, CallsBacked, CallsWait, CartsApart, SentApart, SalesApart,
                    [CounterNext]_counterVars
             PROVE  SalesApart'
    OBVIOUS
<1> USE DEF RowsFresh, CallsBacked, Acts, CallsWait, Waits, SentApart, SalesApart, StageCallOf
<1>0. ASSUME NEW t \in Tabs, Fresh(t), sale' = sale PROVE SalesApart'
  <2>1. unsure \subseteq unsure' /\ shared \subseteq shared' /\ sale' = sale
      BY <1>0 DEF Fresh, Unmount
  <2>2. \A n1, n2 \in calls' : \E m1, m2 \in calls :
          SameCall(m1, n1) /\ SameCall(m2, n2) /\ (m1 = m2 => n1 = n2)
      BY <1>0, CallsAfterLoad
  <2>3. ASSUME NEW n1 \in calls', NEW n2 \in calls', n1.kind = "stage", n2.kind = "stage", n1 # n2
        PROVE  n1.units \cap n2.units \subseteq shared' \/ n1.tab \in unsure' \/ n2.tab \in unsure'
    <3>1. PICK m1 \in calls, m2 \in calls : SameCall(m1, n1) /\ SameCall(m2, n2) /\ m1 # m2
        BY <2>2, <2>3
    <3> QED BY <2>1, <2>3, <3>1 DEF SameCall
  <2>4. ASSUME NEW n \in calls', NEW s \in Sales, n.kind = "stage", n.sale # s
        PROVE  n.units \cap sale[s].units \subseteq shared' \/ n.tab \in unsure' \/ sale[s].by \in unsure'
    <3>1. PICK m \in calls : SameCall(m, n)
        BY <2>2
    <3> QED BY <2>1, <2>4, <3>1 DEF SameCall
  <2>5. ASSUME NEW r \in Sales, NEW s \in Sales, r # s
        PROVE  \/ sale[r].units \cap sale[s].units \subseteq shared'
               \/ sale[r].by \in unsure' \/ sale[s].by \in unsure'
      BY <2>1, <2>5
  <2> QED BY <2>1, <2>3, <2>4, <2>5
<1>1. ASSUME NEW t \in Tabs, Load(t) PROVE SalesApart'
    BY <1>0, <1>1, LoadDone
<1>2. ASSUME NEW t \in Tabs, GoToTerminal(t) PROVE SalesApart'
    BY <1>2, Gone, Typed DEF WentTo, Opens, Unmount
<1>3. ASSUME NEW t \in Tabs, Resume(t) PROVE SalesApart'
    BY <1>3, Gone, Typed DEF WentTo, Opens, Unmount
<1>4. ASSUME NEW t \in Tabs, NEW s \in Sales, BackToCheckout(t, s) PROVE SalesApart'
    BY <1>4, Gone, Typed DEF WentTo, Opens, Unmount
<1>5. ASSUME NEW t \in Tabs, Dismiss(t) PROVE SalesApart'
    BY <1>5, DismissDone, Typed
<1>6. ASSUME NEW t \in Tabs, NEW u \in Units, Add(t, u) PROVE SalesApart'
    BY <1>6, AddDone, Typed DEF CartIs
<1>7. ASSUME NEW t \in Tabs, NEW units, Remove(t, units) PROVE SalesApart'
    BY <1>7, RemoveDone, Typed DEF CartIs
<1>8. ASSUME NEW t \in Tabs, Checkout(t) PROVE SalesApart'
  <2>1. page[t].shows = "terminal" /\ "stage" \notin page[t].busy /\ UNCHANGED <<cart, saved, marker, sale, unsure, dismissed, returned, opened, shared>>
      BY <1>8, CheckoutDone
  <2>2. CASE marker[t] \in Sales /\ Opens(t, "checkout", marker[t]) /\ calls' = calls
      BY <1>8, <2>1, <2>2, Typed DEF Opens
  <2>3. CASE /\ marker[t] = NoSale
             /\ \E s \in Sales, n \in Call :
                  /\ sale[s].status = "UNSTAGED"
                  /\ \A m \in calls : m.sale # s
                  /\ IsSent(n, t, "stage", s, cart[t])
    <3>1. PICK s \in Sales, n \in Call : /\ sale[s].status = "UNSTAGED"
                                /\ \A m \in calls : m.sale # s
                                /\ IsSent(n, t, "stage", s, cart[t])
        BY <2>3
    <3> QED BY <2>1, <2>3, <3>1, Typed DEF IsSent
  <2> QED BY <1>8, <2>2, <2>3, CheckoutDone
<1>9. ASSUME NEW t \in Tabs, Pay(t) \/ Cancel(t) \/ Discard(t) PROVE SalesApart'
  <2>1. PICK kind \in {"pay", "cancel", "discard"}, s \in Sales, n \in Call :
          /\ IsSent(n, t, kind, s, {})
          /\ \/ kind = "discard" /\ page[t].shows = "terminal" /\ marker[t] = s
             \/ kind # "discard" /\ page[t].shows = "checkout" /\ page[t].sale = s
          /\ UNCHANGED <<cart, saved, marker, sale, unsure, dismissed, returned, opened, shared>>
      BY <1>9, SentAboutSale
  <2>2. CASE kind = "pay"
      BY <2>1, <2>2, Typed DEF IsSent
  <2>3. CASE kind = "cancel"
      BY <2>1, <2>3, Typed DEF IsSent
  <2>4. CASE kind = "discard"
      BY <2>1, <2>4, Typed DEF IsSent
  <2> QED BY <2>1, <2>2, <2>3, <2>4
<1>10. ASSUME NEW m \in calls, Serve(m) PROVE SalesApart'
  <2>1. PICK n \in Call : /\ SameCall(m, n) /\ n.served /\ n.awaited = m.awaited
                           /\ calls' = (calls \ {m}) \cup {n}
      BY <1>10, ServedCall
  <2>2. ServedAt(m)
      BY <1>10, ServedSale
  <2>3. CASE ServedStage(m)
      BY <2>1, <2>2, <2>3, Typed DEF SameCall, ServedAt, ServedStage
  <2>4. CASE ServedPay(m)
      BY <2>1, <2>2, <2>4, Typed DEF SameCall, ServedAt, ServedPay, KeptBut
  <2>5. CASE ServedCancel(m)
      BY <2>1, <2>2, <2>5, Typed DEF SameCall, ServedAt, ServedCancel, KeptBut
  <2> QED BY <1>10, <2>3, <2>4, <2>5, ServedSale
<1>11. ASSUME NEW m \in calls, Receive(m) PROVE SalesApart'
  <2>1. ReceivedAt(m)
      BY <1>11, ReceivedCall
  <2>2. CASE ReceivedStage(m)
      BY <2>1, <2>2, Typed DEF ReceivedAt, ReceivedStage, CartIs, Opens
  <2>3. CASE ReceivedPay(m)
      BY <2>1, <2>3, Typed DEF ReceivedAt, ReceivedPay, CartIs, Opens
  <2>4. CASE ReceivedCancel(m)
      BY <2>1, <2>4, Typed DEF ReceivedAt, ReceivedCancel, Opens
  <2>5. CASE ReceivedDiscard(m)
      BY <2>1, <2>5, Typed DEF ReceivedAt, ReceivedDiscard
  <2> QED BY <1>11, <2>2, <2>3, <2>4, <2>5, ReceivedCall
<1>12. ASSUME NEW m \in calls, Fail(m) PROVE SalesApart'
    BY <1>12, FailedCall, Typed
<1>13. ASSUME NEW s \in Sales, MintDocument(s) PROVE SalesApart'
    BY <1>13, MintedSale, Typed
<1>14. CASE UNCHANGED counterVars
    BY <1>14 DEF counterVars
<1>15. ASSUME NEW t \in Tabs, NEW s \in Sales, OpenCheckout(t, s) PROVE SalesApart'
    BY <1>0, <1>15, OpenDone
<1> QED BY <1>1, <1>2, <1>3, <1>4, <1>5, <1>6, <1>7, <1>8, <1>9, <1>10, <1>11, <1>12, <1>13, <1>14, <1>15
        DEF CounterNext

\* A finalized sale stays out of sight.
LEMMA PaidOnceStep ==
    CounterTypeOK /\ PagesFilled /\ RowsFresh /\ TabsKnow /\ CallsBacked /\ CallsWait /\ PaidOnce /\ [CounterNext]_counterVars
        => PaidOnce'
<1> SUFFICES ASSUME CounterTypeOK, PagesFilled, RowsFresh, TabsKnow, CallsBacked, CallsWait, PaidOnce,
                    [CounterNext]_counterVars
             PROVE  PaidOnce'
    OBVIOUS
<1> USE DEF RowsFresh, TabsKnow, Knows, Acts, CallsBacked, CallsWait, Waits, PaidOnce, OnPage
<1>0. ASSUME NEW t \in Tabs, Fresh(t), UNCHANGED <<marker, sale>>,
             returned \subseteq returned', opened \subseteq opened',
             \A u \in Tabs : u # t => page'[u] = page[u],
             \A s \in Sales : OnPage(t, s)' => marker[t] = s \/ t \in returned'
      PROVE  PaidOnce'
  <2> SUFFICES ASSUME NEW s \in Sales, sale[s].finals > 0,
                      sale[s].by \notin unsure' \cup returned', s \notin opened'
               PROVE  /\ sale[s].finals = 1
                      /\ \/ \E m \in calls' : m.kind = "pay" /\ m.served /\ m.sale = s
                         \/ marker[sale[s].by] # s /\ ~OnPage(sale[s].by, s)'
                      /\ \A m \in calls' : m.kind = "pay" /\ m.sale = s => m.served
      BY <1>0
  <2> DEFINE by == sale[s].by
  <2>1. unsure \subseteq unsure' /\ (t \in unsure' \/ \A m \in calls : m.tab # t)
      BY <1>0 DEF Fresh, Unmount
  <2>2. by \in Tabs /\ by \notin unsure \cup returned /\ s \notin opened
      BY <1>0, <2>1, Typed
  <2>3. /\ sale[s].finals = 1
        /\ \/ \E m \in calls : m.kind = "pay" /\ m.served /\ m.sale = s
           \/ marker[by] # s /\ ~OnPage(by, s)
        /\ \A m \in calls : m.kind = "pay" /\ m.sale = s => m.served
      BY <2>2
  <2>4. \A m \in calls : m.kind = "pay" /\ m.sale = s => m.tab = by
      BY <2>2
  <2>5. \A n \in calls' : \E m \in calls : SameCall(m, n) /\ n.served = m.served
      BY <1>0, CallsAfterLoad
  <2>6. \A m \in calls : m.tab # t => m \in calls'
      BY <1>0, CallsAfterLoad
  <2> HIDE DEF TabsKnow, CallsBacked, CallsWait, PaidOnce, RowsFresh, by
  <2>7. CASE by = t
    <3>1. marker[by] # s
        BY <2>1, <2>3, <2>4, <2>7 DEF by
    <3> QED BY <1>0, <2>3, <2>5, <2>7, <3>1 DEF SameCall, by
  <2>8. CASE by # t
      BY <1>0, <2>2, <2>3, <2>4, <2>5, <2>6, <2>8 DEF SameCall, by
  <2> QED BY <2>7, <2>8
<1>1. ASSUME NEW t \in Tabs, Load(t) PROVE PaidOnce'
    BY <1>0, <1>1, LoadDone DEF Opens
<1>2. ASSUME NEW t \in Tabs, GoToTerminal(t) PROVE PaidOnce'
    BY <1>2, Gone, Typed DEF WentTo, Opens, Unmount
<1>3. ASSUME NEW t \in Tabs, Resume(t) PROVE PaidOnce'
    BY <1>3, Gone, Typed DEF WentTo, Opens, Unmount
<1>4. ASSUME NEW t \in Tabs, NEW s \in Sales, BackToCheckout(t, s) PROVE PaidOnce'
    BY <1>4, Gone, Typed DEF WentTo, Opens, Unmount
<1>5. ASSUME NEW t \in Tabs, Dismiss(t) PROVE PaidOnce'
    BY <1>5, DismissDone, Typed
<1>6. ASSUME NEW t \in Tabs, NEW u \in Units, Add(t, u) PROVE PaidOnce'
    BY <1>6, AddDone, Typed DEF CartIs
<1>7. ASSUME NEW t \in Tabs, NEW units, Remove(t, units) PROVE PaidOnce'
    BY <1>7, RemoveDone, Typed DEF CartIs
<1>8. ASSUME NEW t \in Tabs, Checkout(t) PROVE PaidOnce'
  <2>1. page[t].shows = "terminal" /\ "stage" \notin page[t].busy /\ UNCHANGED <<cart, saved, marker, sale, unsure, dismissed, returned, opened, shared>>
      BY <1>8, CheckoutDone
  <2>2. CASE marker[t] \in Sales /\ Opens(t, "checkout", marker[t]) /\ calls' = calls
      BY <1>8, <2>1, <2>2, Typed DEF Opens
  <2>3. CASE /\ marker[t] = NoSale
             /\ \E s \in Sales, n \in Call :
                  /\ sale[s].status = "UNSTAGED"
                  /\ \A m \in calls : m.sale # s
                  /\ IsSent(n, t, "stage", s, cart[t])
    <3>1. PICK s \in Sales, n \in Call : /\ sale[s].status = "UNSTAGED"
                                /\ \A m \in calls : m.sale # s
                                /\ IsSent(n, t, "stage", s, cart[t])
        BY <2>3
    <3> QED BY <2>1, <2>3, <3>1, Typed DEF IsSent
  <2> QED BY <1>8, <2>2, <2>3, CheckoutDone
<1>9. ASSUME NEW t \in Tabs, Pay(t) \/ Cancel(t) \/ Discard(t) PROVE PaidOnce'
  <2>1. PICK kind \in {"pay", "cancel", "discard"}, s \in Sales, n \in Call :
          /\ IsSent(n, t, kind, s, {})
          /\ \/ kind = "discard" /\ page[t].shows = "terminal" /\ marker[t] = s
             \/ kind # "discard" /\ page[t].shows = "checkout" /\ page[t].sale = s
          /\ UNCHANGED <<cart, saved, marker, sale, unsure, dismissed, returned, opened, shared>>
      BY <1>9, SentAboutSale
  <2>2. CASE kind = "pay"
      BY <2>1, <2>2, Typed DEF IsSent
  <2>3. CASE kind = "cancel"
      BY <2>1, <2>3, Typed DEF IsSent
  <2>4. CASE kind = "discard"
      BY <2>1, <2>4, Typed DEF IsSent
  <2> QED BY <2>1, <2>2, <2>3, <2>4
<1>10. ASSUME NEW m \in calls, Serve(m) PROVE PaidOnce'
  <2>1. PICK n \in Call : /\ SameCall(m, n) /\ n.served /\ n.awaited = m.awaited
                           /\ calls' = (calls \ {m}) \cup {n}
      BY <1>10, ServedCall
  <2>2. ServedAt(m)
      BY <1>10, ServedSale
  <2>3. CASE ServedStage(m)
      BY <2>1, <2>2, <2>3, Typed DEF SameCall, ServedAt, ServedStage
  <2>4. CASE ServedPay(m)
      BY <2>1, <2>2, <2>4, Typed DEF SameCall, ServedAt, ServedPay, KeptBut
  <2>5. CASE ServedCancel(m)
      BY <2>1, <2>2, <2>5, Typed DEF SameCall, ServedAt, ServedCancel, KeptBut
  <2> QED BY <1>10, <2>3, <2>4, <2>5, ServedSale
<1>11. ASSUME NEW m \in calls, Receive(m) PROVE PaidOnce'
  <2>1. ReceivedAt(m)
      BY <1>11, ReceivedCall
  <2>2. CASE ReceivedStage(m)
      BY <2>1, <2>2, Typed DEF ReceivedAt, ReceivedStage, CartIs, Opens
  <2>3. CASE ReceivedPay(m)
      BY <2>1, <2>3, Typed DEF ReceivedAt, ReceivedPay, CartIs, Opens
  <2>4. CASE ReceivedCancel(m)
      BY <2>1, <2>4, Typed DEF ReceivedAt, ReceivedCancel, Opens
  <2>5. CASE ReceivedDiscard(m)
      BY <2>1, <2>5, Typed DEF ReceivedAt, ReceivedDiscard
  <2> QED BY <1>11, <2>2, <2>3, <2>4, <2>5, ReceivedCall
<1>12. ASSUME NEW m \in calls, Fail(m) PROVE PaidOnce'
    BY <1>12, FailedCall, Typed
<1>13. ASSUME NEW s \in Sales, MintDocument(s) PROVE PaidOnce'
    BY <1>13, MintedSale, Typed
<1>14. CASE UNCHANGED counterVars
    BY <1>14 DEF counterVars
<1>15. ASSUME NEW t \in Tabs, NEW s \in Sales, OpenCheckout(t, s) PROVE PaidOnce'
    BY <1>0, <1>15, OpenDone DEF Opens
<1> QED BY <1>1, <1>2, <1>3, <1>4, <1>5, <1>6, <1>7, <1>8, <1>9, <1>10, <1>11, <1>12, <1>13, <1>14, <1>15
        DEF CounterNext

LEMMA CounterInvInit == CounterInit => CounterInv
<1> SUFFICES ASSUME CounterInit PROVE CounterInv
    OBVIOUS
<1>1. CounterTypeOK /\ PagesFilled
    BY CounterTypeInit
<1>2. /\ cart = [t \in Tabs |-> {}] /\ saved = {} /\ calls = {}
      /\ \A t \in Tabs : marker[t] = NoSale /\ page[t].shows = "nothing" /\ page[t].sale = NoSale
                         /\ page[t].past = {}
      /\ \A s \in Sales : sale[s] = Unstaged
    BY DEF CounterInit
<1>3. Unstaged.status = "UNSTAGED" /\ Unstaged.finals = 0 /\ Unstaged.units = {}
    BY DEF Unstaged
<1>4. RowsFresh
    BY <1>2 DEF RowsFresh
<1>5. TabsKnow /\ CallsBacked /\ CallsWait
    BY <1>2 DEF TabsKnow, CallsBacked, CallsWait
<1>6. Remembered
    BY <1>2, <1>3 DEF Remembered, CallsRemembered, PageRemembered, PendingRemembered, Pending
<1>7. CartsApart /\ SentApart
    BY <1>2, <1>3 DEF CartsApart, SentApart
<1>8. SalesApart /\ PaidOnce
    BY <1>2, <1>3 DEF SalesApart, PaidOnce
<1> QED BY <1>1, <1>4, <1>5, <1>6, <1>7, <1>8 DEF CounterInv

LEMMA CounterInvStep == CounterInv /\ [CounterNext]_counterVars => CounterInv'
<1> SUFFICES ASSUME CounterInv, [CounterNext]_counterVars PROVE CounterInv'
    OBVIOUS
<1>1. /\ CounterTypeOK /\ PagesFilled /\ RowsFresh /\ TabsKnow /\ CallsBacked /\ CallsWait
      /\ Remembered /\ CartsApart /\ SentApart /\ SalesApart /\ PaidOnce
    BY DEF CounterInv
<1>2. CounterTypeOK' /\ PagesFilled'
    BY <1>1, CounterTypeStep
<1>3. RowsFresh' /\ TabsKnow' /\ CallsBacked'
    BY <1>1, RowsFreshStep, TabsKnowStep, CallsBackedStep
<1>4. CallsWait' /\ CartsApart'
    BY <1>1, CallsWaitStep, CartsApartStep
<1>5. Remembered'
    BY <1>1, CallsRememberedStep, PageRememberedStep, PendingRememberedStep DEF Remembered
<1>6. SentApart' /\ SalesApart'
    BY <1>1, SentApartStep, SalesApartStep
<1>7. PaidOnce'
    BY <1>1, PaidOnceStep
<1> QED BY <1>2, <1>3, <1>4, <1>5, <1>6, <1>7 DEF CounterInv

LEMMA CounterInvariant == CounterSpec => []CounterInv
BY CounterInvInit, CounterInvStep, PTL DEF CounterSpec

-----------------------------------------------------------------------------
(* What the counter promises. *)

\* The pages, calls and sales stay of their types: the state that the handlers
\* of the terminal and of the checkout expect to find.
THEOREM CounterTypes == CounterSpec => []CounterTypeOK
<1>1. CounterInv => CounterTypeOK
    BY DEF CounterInv
<1> QED BY <1>1, CounterInvariant, PTL

\* However calls are delayed, lost and overtaken, a tab has two unfinished
\* sales only after it was left during a call, missed an answer, had a staged
\* sale dismissed, or went to a checkout it did not remember
\* (handleCheckoutRedirect).
THEOREM SecondPending == CounterSpec => []SecondPendingNeedsSlip
<1>1. CounterInv => SecondPendingNeedsSlip
  <2> SUFFICES ASSUME CounterInv,
                      NEW s \in Sales, NEW r \in Sales, s # r, Pending(s), Pending(r),
                      sale[s].by = sale[r].by, ~Slip(sale[s].by)
               PROVE  FALSE
      BY DEF SecondPendingNeedsSlip, Slip
  <2> DEFINE t == sale[s].by
  <2>1. PendingRemembered /\ CallsRemembered
      BY DEF CounterInv, Remembered
  <2>2. marker[t] = s \/ StageCallOf(t, s)
      BY <2>1 DEF PendingRemembered
  <2>3. marker[t] = r \/ StageCallOf(t, r)
      BY <2>1 DEF PendingRemembered
  <2>4. \A q \in Sales : StageCallOf(t, q) =>
          marker[t] = NoSale /\ \E m \in calls : m.sale = q /\ \A n \in calls : n.tab = t => n = m
      BY <2>1 DEF CallsRemembered, StageCallOf
  <2>5. \A q \in Sales : StageCallOf(t, q) => \E m \in calls : m.sale = q /\ m.tab = t
      BY DEF StageCallOf
  <2> HIDE DEF t
  <2> QED BY <2>2, <2>3, <2>4, <2>5, CounterAssumption
<1> QED BY <1>1, CounterInvariant, PTL

\* What was rung up once is staged once, however the tab is reloaded and the
\* answers are overtaken, unless the tab was left during a call or missed an
\* answer, or a reload put the unit in two carts.
THEOREM SoldTwice == CounterSpec => []SoldTwiceNeedsSlip
<1>1. CounterInv => SoldTwiceNeedsSlip
    BY DEF CounterInv, SalesApart, SoldTwiceNeedsSlip
<1> QED BY <1>1, CounterInvariant, PTL

\* A sale is finalized again only after its tab was left during a call or missed
\* an answer, or went back to the checkout from beyond the terminal
\* (CompleteSaleClient's guard against Back), or another tab opened the checkout.
THEOREM FinalizedTwice == CounterSpec => []FinalizedTwiceNeedsSlip
<1>1. CounterInv => FinalizedTwiceNeedsSlip
    BY DEF CounterInv, PaidOnce, FinalizedTwiceNeedsSlip, CounterTypeOK, Row
<1> QED BY <1>1, CounterInvariant, PTL

-----------------------------------------------------------------------------
(* CartStore: what the goods are worth, a sum over the products, is a number. *)

\* Induction over the numbers, for a set of them.
LEMMA EveryNat ==
    ASSUME NEW D, 0 \in D, \A n \in Nat : n \in D => n + 1 \in D
    PROVE  Nat \subseteq D
<1> DEFINE Missed == {n \in Nat : n \notin D}
<1> SUFFICES ASSUME Missed # {} PROVE FALSE
    OBVIOUS
<1>1. IsWellFoundedOn(OpToRel(<, Nat), Nat)
    BY NatLessThanWellFounded
<1>2. Missed \subseteq Nat
    OBVIOUS
<1>3. PICK m \in Missed : \A n \in Missed : ~(<<n, m>> \in OpToRel(<, Nat))
  <2> HIDE DEF Missed
  <2> QED BY <1>1, <1>2, WFMin
<1>4. m \in Nat /\ m # 0 /\ m - 1 \in Nat /\ m = (m - 1) + 1
    OBVIOUS
<1>5. m - 1 \in Missed
    BY <1>4
<1>6. <<m - 1, m>> \in OpToRel(<, Nat)
    BY <1>4 DEF OpToRel
<1> QED BY <1>3, <1>5, <1>6

\* f adds up W over the subsets of S, one member at a time, as MapThenSumSet does.
Adds(f, S, W) ==
    f = [s \in SUBSET S |-> IF s = {} THEN 0
                            ELSE W[CHOOSE x \in s : TRUE] + f[s \ {CHOOSE x \in s : TRUE}]]

\* Adding up is defined: there is a function that does what the fold asks.
LEMMA SumExists ==
    ASSUME NEW S, IsFiniteSet(S), NEW W \in [S -> Nat]
    PROVE  \E g \in [SUBSET S -> Nat] : Adds(g, S, W)
<1> DEFINE First(s) == CHOOSE x \in s : TRUE
           Total(g, s) == IF s = {} THEN 0 ELSE W[First(s)] + g[s \ {First(s)}]
           Upto == {n \in Nat : \E g \in [SUBSET S -> Nat] :
                      \A s \in SUBSET S : Cardinality(s) <= n => g[s] = Total(g, s)}
<1>1. \A s \in SUBSET S : Cardinality(s) \in Nat /\ Cardinality(s) <= Cardinality(S) /\ (Cardinality(s) = 0 <=> s = {})
    BY FS_Subset, FS_CardinalityType, FS_EmptySet
<1>2. \A s \in SUBSET S : s # {} =>
        /\ First(s) \in s /\ First(s) \in S
        /\ s \ {First(s)} \in SUBSET S
        /\ Cardinality(s \ {First(s)}) = Cardinality(s) - 1
    BY FS_Subset, FS_RemoveElement
<1> HIDE DEF First
<1>3. 0 \in Upto
  <2> DEFINE g == [s \in SUBSET S |-> 0]
  <2>1. g \in [SUBSET S -> Nat]
      OBVIOUS
  <2>2. \A s \in SUBSET S : Cardinality(s) <= 0 => g[s] = Total(g, s)
      BY <1>1
  <2> HIDE DEF g
  <2> QED BY <2>1, <2>2
<1>4. ASSUME NEW n \in Nat, n \in Upto PROVE n + 1 \in Upto
  <2>1. PICK g \in [SUBSET S -> Nat] :
            \A s \in SUBSET S : Cardinality(s) <= n => g[s] = Total(g, s)
      BY <1>4
  <2> DEFINE h == [s \in SUBSET S |-> IF Cardinality(s) <= n THEN g[s] ELSE Total(g, s)]
  <2>2. ASSUME NEW s \in SUBSET S PROVE Total(g, s) \in Nat
    <3>1. CASE s = {}
        BY <3>1
    <3>2. CASE s # {}
      <4>1. W[First(s)] \in Nat /\ g[s \ {First(s)}] \in Nat
          BY <1>2, <3>2
      <4> QED BY <3>2, <4>1
    <3> QED BY <3>1, <3>2
  <2>3. h \in [SUBSET S -> Nat]
      BY <2>2
  <2>4. ASSUME NEW s \in SUBSET S, Cardinality(s) <= n + 1 PROVE h[s] = Total(g, s) /\ h[s] = Total(h, s)
    <3>1. h[s] = Total(g, s)
        BY <2>1
    <3>2. CASE s = {}
        BY <3>1, <3>2
    <3>3. CASE s # {}
      <4> DEFINE r == s \ {First(s)}
      <4>1. r \in SUBSET S /\ Cardinality(r) <= n /\ Cardinality(r) \in Nat
          BY <1>1, <1>2, <2>4, <3>3
      <4>2. h[r] = g[r]
          BY <4>1
      <4> QED BY <3>1, <3>3, <4>2
    <3> QED BY <3>2, <3>3
  <2> HIDE DEF h
  <2>5. \A s \in SUBSET S : Cardinality(s) <= n + 1 => h[s] = Total(h, s)
      BY <2>4
  <2> QED BY <2>3, <2>5
<1>5. Cardinality(S) \in Upto
  <2>1. Nat \subseteq Upto
    <3> HIDE DEF Upto
    <3> QED BY <1>3, <1>4, EveryNat
  <2> QED BY <2>1, FS_CardinalityType
<1>6. PICK g \in [SUBSET S -> Nat] : \A s \in SUBSET S : g[s] = Total(g, s)
    BY <1>1, <1>5
<1>7. g = [s \in SUBSET S |-> Total(g, s)]
    BY <1>6
<1> QED BY <1>7, Zenon DEF First, Adds

\* Adding up numbers gives a number, and more of each gives more.
LEMMA SumsOrdered ==
    ASSUME NEW S, IsFiniteSet(S), NEW V \in [S -> Nat], NEW W \in [S -> Nat],
           \A x \in S : V[x] <= W[x],
           NEW g, NEW h, Adds(g, S, V), Adds(h, S, W)
    PROVE  g[S] \in Nat /\ h[S] \in Nat /\ g[S] <= h[S]
<1> DEFINE First(s) == CHOOSE x \in s : TRUE
           Ordered(s) == g[s] \in Nat /\ h[s] \in Nat /\ g[s] <= h[s]
           Upto == {n \in Nat : \A s \in SUBSET S : Cardinality(s) <= n => Ordered(s)}
<1>1. \A s \in SUBSET S : Cardinality(s) \in Nat /\ Cardinality(s) <= Cardinality(S) /\ (Cardinality(s) = 0 <=> s = {})
    BY FS_Subset, FS_CardinalityType, FS_EmptySet
<1>2. \A s \in SUBSET S : s # {} =>
        /\ First(s) \in s /\ First(s) \in S
        /\ s \ {First(s)} \in SUBSET S
        /\ Cardinality(s \ {First(s)}) = Cardinality(s) - 1
    BY FS_Subset, FS_RemoveElement
<1>3. \A s \in SUBSET S :
        /\ g[s] = IF s = {} THEN 0 ELSE V[First(s)] + g[s \ {First(s)}]
        /\ h[s] = IF s = {} THEN 0 ELSE W[First(s)] + h[s \ {First(s)}]
    BY DEF Adds
<1> HIDE DEF First
<1>4. 0 \in Upto
    BY <1>1, <1>3, SMTT(20)
<1>5. ASSUME NEW n \in Nat, n \in Upto PROVE n + 1 \in Upto
  <2>1. ASSUME NEW s \in SUBSET S, Cardinality(s) <= n + 1, s # {} PROVE Ordered(s)
    <3> DEFINE r == s \ {First(s)}
    <3>1. r \in SUBSET S /\ Cardinality(r) <= n
        BY <1>1, <1>2, <2>1
    <3>2. Ordered(r)
      <4> HIDE DEF r, Ordered
      <4> QED BY <1>5, <3>1, Zenon
    <3>3. /\ V[First(s)] \in Nat /\ W[First(s)] \in Nat /\ V[First(s)] <= W[First(s)]
          /\ g[s] = V[First(s)] + g[r] /\ h[s] = W[First(s)] + h[r]
        BY <1>2, <1>3, <2>1
    <3> HIDE DEF r
    <3> QED BY <3>2, <3>3
  <2>2. Ordered({})
      BY <1>3
  <2> HIDE DEF Ordered
  <2>3. \A s \in SUBSET S : Cardinality(s) <= n + 1 => Ordered(s)
      BY <2>1, <2>2
  <2>4. n + 1 \in Nat
      OBVIOUS
  <2> QED BY <2>3, <2>4, Zenon
<1>6. Nat \subseteq Upto
  <2> HIDE DEF Upto
  <2> QED BY <1>4, <1>5, EveryNat
<1>7. \A s \in SUBSET S : Cardinality(s) <= Cardinality(S) => Ordered(s)
  <2> HIDE DEF Ordered
  <2> QED BY <1>6, FS_CardinalityType
<1> QED BY <1>1, <1>7

\* What a cart comes to is a sum of the kind above.
LEMMA WorthIsSum ==
    ASSUME NEW c, c.qty \in [Products -> Nat], NEW prices \in [Products -> Nat],
           NEW W \in [Products -> Nat], \A p \in Products : W[p] = c.qty[p] * prices[p]
    PROVE  \E h : WorthAt(c, prices) = h[Products] /\ Adds(h, Products, W)
<1> DEFINE First(s) == CHOOSE p \in s : TRUE
           Worth(f, s) == IF s = {} THEN 0
                          ELSE c.qty[First(s)] * prices[First(s)] + f[s \ {First(s)}]
           Weight(f, s) == IF s = {} THEN 0 ELSE W[First(s)] + f[s \ {First(s)}]
           sum[s \in SUBSET Products] == Worth(sum, s)
<1>1. WorthAt(c, prices) = sum[Products]
    BY DEF WorthAt, MapThenSumSet, MapThenFoldSet
<1>3. \A s \in SUBSET Products : s # {} => First(s) \in Products
    OBVIOUS
<1>4. PICK g \in [SUBSET Products -> Nat] : g = [s \in SUBSET Products |-> Weight(g, s)]
  <2>1. PICK g \in [SUBSET Products -> Nat] : Adds(g, Products, W)
      BY SumExists, CartStoreAssumption
  <2> QED BY <2>1, Zenon DEF Adds
<1>5. \A f : [s \in SUBSET Products |-> Worth(f, s)] = [s \in SUBSET Products |-> Weight(f, s)]
  <2> HIDE DEF First
  <2>1. ASSUME NEW f, NEW s \in SUBSET Products PROVE Worth(f, s) = Weight(f, s)
      BY <1>3
  <2> HIDE DEF Worth, Weight
  <2> QED BY <2>1
<1>6. g = [s \in SUBSET Products |-> Worth(g, s)]
  <2> HIDE DEF Worth, Weight
  <2> QED BY <1>4, <1>5
<1>7. sum = [s \in SUBSET Products |-> Worth(sum, s)]
  <2> HIDE DEF Worth
  <2> QED BY <1>6
<1>8. sum = [s \in SUBSET Products |-> Weight(sum, s)]
  <2> HIDE DEF Worth, Weight, sum
  <2> QED BY <1>5, <1>7
<1>9. Adds(sum, Products, W)
  <2> HIDE DEF sum
  <2> QED BY <1>8, Zenon DEF Adds
<1> HIDE DEF sum
<1> QED BY <1>1, <1>9

\* No line comes to less: neither does the cart.
LEMMA WorthOrdered ==
    ASSUME NEW c, c.qty \in [Products -> Nat], NEW prices \in [Products -> Nat],
           NEW d, d.qty \in [Products -> Nat], NEW others \in [Products -> Nat],
           \A p \in Products : c.qty[p] * prices[p] <= d.qty[p] * others[p]
    PROVE  /\ WorthAt(c, prices) \in Nat /\ WorthAt(d, others) \in Nat
           /\ WorthAt(c, prices) <= WorthAt(d, others)
<1> DEFINE V == [p \in Products |-> c.qty[p] * prices[p]]
           W == [p \in Products |-> d.qty[p] * others[p]]
<1>1. V \in [Products -> Nat] /\ W \in [Products -> Nat] /\ \A p \in Products : V[p] <= W[p]
    OBVIOUS
<1>2. \A p \in Products : V[p] = c.qty[p] * prices[p] /\ W[p] = d.qty[p] * others[p]
    OBVIOUS
<1> HIDE DEF V, W
<1>3. PICK g : WorthAt(c, prices) = g[Products] /\ Adds(g, Products, V)
    BY <1>1, <1>2, WorthIsSum
<1>4. PICK h : WorthAt(d, others) = h[Products] /\ Adds(h, Products, W)
    BY <1>1, <1>2, WorthIsSum
<1>5. g[Products] \in Nat /\ h[Products] \in Nat /\ g[Products] <= h[Products]
    BY <1>1, <1>3, <1>4, SumsOrdered, CartStoreAssumption
<1> QED BY <1>3, <1>4, <1>5

LEMMA GoodsType ==
    ASSUME NEW c, c.qty \in [Products -> Nat], c.price \in [Products -> Nat]
    PROVE  Goods(c) \in Nat
<1>1. \A p \in Products : c.qty[p] * c.price[p] <= c.qty[p] * c.price[p]
    OBVIOUS
<1> QED BY <1>1, WorthOrdered DEF Goods

-----------------------------------------------------------------------------
(* CartStore: the inductive invariant. *)

\* All that is in a cart belongs to the business to which it is bound.
Local(c) ==
    /\ c.fee \in {NoBusiness, c.scope}
    /\ \A p \in Products : c.qty[p] > 0 => Home[p] = c.scope

CartsBound ==
    /\ CartTypeOK
    /\ \A t \in known : place[t] # NoBusiness
    /\ ~early =>
        /\ Local(kept) /\ \A t \in Windows : Local(store[t])
        /\ \A t \in known : store[t].scope = place[t]

LEMMA EmptyIsCart ==
    ASSUME NEW b \in Businesses \cup {NoBusiness}
    PROVE  EmptyCart(b) \in Cart /\ Local(EmptyCart(b)) /\ EmptyCart(b).scope = b
BY DEF Cart, Local, EmptyCart

LEMMA ScopedCart ==
    ASSUME NEW c \in Cart, NEW b \in Businesses
    PROVE  Scoped(c, b) \in Cart /\ Scoped(c, b).scope = b /\ (Local(c) => Local(Scoped(c, b)))
BY EmptyIsCart DEF Scoped

\* What an edit at business b makes of the cart.
Kept(c, d, b) ==
    /\ d \in Cart
    /\ d.scope = c.scope
    /\ Local(c) /\ c.scope = b => Local(d)

LEMMA EditedCarts ==
    ASSUME NEW c \in Cart, NEW b \in Businesses
    PROVE  /\ \A p \in Products : \A l \in List : Home[p] = b => Kept(c, Added(c, p, l), b)
           /\ \A p \in Products : Kept(c, Removed(c, p), b)
           /\ \A p \in Products : \A n \in Int : c.qty[p] > 0 => Kept(c, Counted(c, p, n), b)
           /\ \A value \in Int : Kept(c, Discounted(c, value), b)
           /\ Kept(c, [c EXCEPT !.fee = b], b)
           /\ Kept(c, [c EXCEPT !.fee = NoBusiness], b)
           /\ Kept(c, EmptyCart(c.scope), b)
<1> USE CartStoreAssumption
<1>1. ASSUME NEW p \in Products, NEW n \in Nat, n > 0 => c.qty[p] > 0 \/ Home[p] = b
      PROVE  Kept(c, Line(c, p, n), b)
    BY <1>1 DEF Cart, Local, Kept, Line
<1>2. ASSUME NEW p \in Products, NEW l \in List, Home[p] = b PROVE Kept(c, Added(c, p, l), b)
  <2>1. c.qty[p] \in Nat /\ c.qty[p] + 1 \in Nat /\ l.price[p] \in Nat /\ l.edited \subseteq Products
      BY DEF Cart, List
  <2>2. CASE c.qty[p] = 0
    <3> DEFINE d == [c EXCEPT !.qty[p] = 1, !.price[p] = l.price[p], !.old = @ \cup ({p} \cap l.edited)]
    <3>1. Added(c, p, l) = d
        BY <2>2 DEF Added
    <3>2. /\ d.scope = c.scope /\ d.fee = c.fee /\ d.discount = c.discount /\ d.cut = c.cut
          /\ d.qty = [c.qty EXCEPT ![p] = 1] /\ d.price = [c.price EXCEPT ![p] = l.price[p]]
          /\ d.old = c.old \cup ({p} \cap l.edited)
        BY DEF Cart
    <3>3. d \in Cart
        BY <2>1 DEF Cart
    <3> HIDE DEF d
    <3> QED BY <1>2, <3>1, <3>2, <3>3 DEF Kept, Local, Cart
  <2>3. CASE c.qty[p] # 0
      BY <1>1, <1>2, <2>1, <2>3 DEF Added, Kept
  <2> QED BY <2>2, <2>3
<1>3. ASSUME NEW p \in Products PROVE Kept(c, Removed(c, p), b)
    BY SMTT(30), <1>1, <1>3 DEF Removed
<1>4. ASSUME NEW p \in Products, NEW n \in Int, c.qty[p] > 0 PROVE Kept(c, Counted(c, p, n), b)
  <2>1. Lesser(AtLeastZero(n), Shelf[p]) \in Nat
      BY DEF Lesser, AtLeastZero
  <2> QED BY <1>1, <1>4, <2>1 DEF Counted
<1>5. ASSUME NEW value \in Nat PROVE Kept(c, [c EXCEPT !.discount = value, !.cut = FALSE], b)
    BY DEF Cart, Local, Kept
<1>6. ASSUME NEW fee \in {b, NoBusiness} PROVE Kept(c, [c EXCEPT !.fee = fee], b)
    BY DEF Cart, Local, Kept
<1>7. Kept(c, EmptyCart(c.scope), b)
    BY EmptyIsCart DEF Kept, Cart
<1>8. ASSUME NEW value \in Int PROVE Kept(c, Discounted(c, value), b)
  <2>1. Goods(c) \in Nat
      BY GoodsType DEF Cart
  <2>2. Lesser(AtLeastZero(value), Goods(c)) \in Nat
      BY <2>1 DEF Lesser, AtLeastZero
  <2> QED BY <1>5, <2>2 DEF Discounted
<1> QED BY <1>2, <1>3, <1>4, <1>6, <1>7, <1>8

LEMMA CartsBoundInit == CartInit => CartsBound
<1> SUFFICES ASSUME CartInit PROVE CartsBound
    OBVIOUS
<1>1. /\ store = [t \in Windows |-> EmptyCart(NoBusiness)] /\ kept = EmptyCart(NoBusiness)
      /\ place = [t \in Windows |-> NoBusiness] /\ known = {} /\ early = FALSE
    BY DEF CartInit
<1>2. tag \in [Products -> Nat] /\ catalogue = FreshList /\ list = [t \in Windows |-> catalogue]
    BY CartStoreAssumption DEF CartInit
<1>3. catalogue \in List
    BY <1>2 DEF FreshList, List
<1> QED BY <1>1, <1>2, <1>3, EmptyIsCart DEF CartsBound, CartTypeOK

LEMMA CartsBoundStep == CartsBound /\ [CartNext]_cartVars => CartsBound'
<1> SUFFICES ASSUME CartsBound, [CartNext]_cartVars PROVE CartsBound'
    OBVIOUS
<1>1. ASSUME NEW t \in Windows, NEW c, SetStore(t, c), c \in Cart
      PROVE  /\ store' \in [Windows -> Cart] /\ kept' \in Cart
             /\ store'[t] = c /\ kept' = c /\ tag' = tag
             /\ \A u \in Windows : u # t => store'[u] = store[u]
    BY <1>1 DEF CartsBound, CartTypeOK, SetStore
<1>2. ASSUME NEW t \in Windows, NEW b \in Businesses, NEW c \in Cart, ~early => Local(c),
             place' = [place EXCEPT ![t] = b], Mounted(t, c, b), early' = early,
             known' \subseteq known \cup {t}, t \in known' => b # NoBusiness,
             catalogue' = catalogue, list' = list \/ list' = [list EXCEPT ![t] = catalogue]
      PROVE  CartsBound'
  <2> DEFINE d == IF t \in known' THEN Scoped(c, b) ELSE c
  <2>1. d \in Cart /\ (~early => Local(d)) /\ (t \in known' => d.scope = b)
      BY <1>2, ScopedCart
  <2>2. SetStore(t, d)
      BY <1>2 DEF Mounted
  <2> HIDE DEF d
  <2>3. /\ store' \in [Windows -> Cart] /\ kept' \in Cart
        /\ store'[t] = d /\ kept' = d /\ tag' = tag
        /\ \A u \in Windows : u # t => store'[u] = store[u]
      BY <1>1, <2>1, <2>2
  <2>4. /\ place' \in [Windows -> Businesses \cup {NoBusiness}]
        /\ place'[t] = b /\ \A u \in Windows : u # t => place'[u] = place[u]
        /\ known' \subseteq Windows
      BY <1>2 DEF CartsBound, CartTypeOK
  <2>5. tag' \in [Products -> Nat] /\ catalogue' \in List /\ list' \in [Windows -> List]
      BY <1>2, <2>3 DEF CartsBound, CartTypeOK
  <2> QED BY <1>2, <2>1, <2>3, <2>4, <2>5 DEF CartsBound, CartTypeOK
<1>3. ASSUME NEW t \in Windows, NEW d, Edit(t, d), Kept(store[t], d, place[t]) PROVE CartsBound'
  <2>1. SetStore(t, d) /\ d \in Cart /\ UNCHANGED <<place, known, catalogue, list>> /\ early' = (early \/ t \notin known)
      BY <1>3 DEF Edit, Kept
  <2>2. /\ store' \in [Windows -> Cart] /\ kept' \in Cart
        /\ store'[t] = d /\ kept' = d /\ tag' = tag
        /\ \A u \in Windows : u # t => store'[u] = store[u]
      BY <1>1, <2>1
  <2>3. ~early' => ~early /\ Local(d) /\ d.scope = place[t]
      BY <1>3, <2>1 DEF CartsBound, CartTypeOK, Kept
  <2> QED BY <2>1, <2>2, <2>3 DEF CartsBound, CartTypeOK
<1>4. ASSUME NEW t \in Windows, place[t] # NoBusiness PROVE place[t] \in Businesses /\ store[t] \in Cart
    BY <1>4 DEF CartsBound, CartTypeOK
<1>5. ASSUME NEW t \in Windows, NEW b \in Businesses, LoadPage(t, b) PROVE CartsBound'
  <2> DEFINE c == IF kept.scope = NoBusiness THEN EmptyCart(NoBusiness) ELSE kept
  <2>1. c \in Cart /\ (~early => Local(c))
      BY EmptyIsCart DEF CartsBound, CartTypeOK
  <2>2. /\ place' = [place EXCEPT ![t] = b] /\ Mounted(t, c, b) /\ early' = early /\ known' = known \ {t}
        /\ catalogue' = catalogue /\ list' = [list EXCEPT ![t] = catalogue]
      BY <1>5 DEF LoadPage, FetchList
  <2> HIDE DEF c
  <2> QED BY <1>2, <2>1, <2>2
<1>6. ASSUME NEW t \in Windows, NEW b \in Businesses, Follow(t, b) PROVE CartsBound'
  <2>1. store[t] \in Cart /\ (~early => Local(store[t]))
      BY DEF CartsBound, CartTypeOK
  <2> QED BY <1>2, <1>6, <2>1, CartStoreAssumption DEF Follow
<1>7. ASSUME NEW t \in Windows, SessionLoads(t) PROVE CartsBound'
  <2>1. store[t] \in Cart /\ (~early => Local(store[t])) /\ place = [place EXCEPT ![t] = place[t]]
      BY DEF CartsBound, CartTypeOK
  <2>2. /\ place' = place /\ Mounted(t, store[t], place[t]) /\ early' = early
        /\ known' = known \cup {t} /\ place[t] # NoBusiness
        /\ catalogue' = catalogue /\ list' = list
      BY <1>7 DEF SessionLoads
  <2> QED BY <1>2, <1>4, <2>1, <2>2
<1>8. ASSUME NEW t \in Windows, NEW p \in Products,
             AddToCart(t, p) \/ RemoveFromCart(t, p) \/ UpdateQty(t, p)
      PROVE  CartsBound'
  <2>1. place[t] # NoBusiness
      BY <1>8 DEF AddToCart, RemoveFromCart, UpdateQty, Edit
  <2>2. CASE AddToCart(t, p)
    <3>1. list[t] \in List
        BY DEF CartsBound, CartTypeOK
    <3> QED BY <1>3, <1>4, <2>1, <2>2, <3>1, EditedCarts DEF AddToCart
  <2>3. CASE RemoveFromCart(t, p)
      BY <1>3, <1>4, <2>1, <2>3, EditedCarts DEF RemoveFromCart
  <2>4. CASE UpdateQty(t, p)
    <3>1. PICK n \in Int : store[t].qty[p] > 0 /\ Edit(t, Counted(store[t], p, n))
        BY <2>4, CartStoreAssumption DEF UpdateQty
    <3> QED BY <1>3, <1>4, <2>1, <3>1, EditedCarts
  <2> QED BY <1>8, <2>2, <2>3, <2>4
<1>9. ASSUME NEW t \in Windows, SetDiscount(t) \/ SetServices(t) \/ ClearCart(t) PROVE CartsBound'
  <2>1. place[t] # NoBusiness
      BY <1>9 DEF SetDiscount, SetServices, ClearCart, Edit
  <2>2. CASE SetDiscount(t)
    <3>1. PICK value \in Int : Edit(t, Discounted(store[t], value))
        BY <2>2, CartStoreAssumption DEF SetDiscount
    <3> QED BY <1>3, <1>4, <2>1, <3>1, EditedCarts
  <2>3. CASE SetServices(t)
      BY <1>3, <1>4, <2>1, <2>3, EditedCarts DEF SetServices
  <2>4. CASE ClearCart(t)
      BY <1>3, <1>4, <2>1, <2>4, EditedCarts DEF ClearCart
  <2> QED BY <1>9, <2>2, <2>3, <2>4
<1>10. CASE UNCHANGED cartVars
    BY <1>10 DEF cartVars, priceVars, CartTypeOK, CartsBound
<1>11. ASSUME NEW t \in Windows, RefetchProducts(t) PROVE CartsBound'
    BY <1>11 DEF RefetchProducts, FetchList, CartTypeOK, CartsBound
<1>12. CASE ReadCatalogue
  <2>1. FreshList \in List
      BY DEF FreshList, List, CartsBound, CartTypeOK
  <2> QED BY <1>12, <2>1 DEF ReadCatalogue, CartTypeOK, CartsBound
<1>13. ASSUME NEW p \in Products, EditPrice(p) PROVE CartsBound'
  <2>1. ASSUME NEW c \in Cart
        PROVE  Outdated(c, p) \in Cart /\ Outdated(c, p).scope = c.scope /\ (Local(c) => Local(Outdated(c, p)))
      BY DEF Outdated, Cart, Local
  <2>2. /\ UNCHANGED <<place, known, early>>
        /\ store' = [t \in Windows |-> Outdated(store[t], p)] /\ kept' = Outdated(kept, p)
      BY <1>13 DEF EditPrice
  <2>3. tag' \in [Products -> Nat]
      BY <1>13, CartStoreAssumption, ZenonT(30) DEF EditPrice, CartsBound, CartTypeOK
  <2>4. catalogue' \in List /\ list' \in [Windows -> List]
      BY <1>13 DEF EditPrice, CartsBound, CartTypeOK, List
  <2> QED BY <2>1, <2>2, <2>3, <2>4 DEF CartsBound, CartTypeOK
<1> QED BY <1>5, <1>6, <1>7, <1>8, <1>9, <1>10, <1>11, <1>12, <1>13 DEF CartNext

LEMMA CartsBoundInvariant == CartSpec => []CartsBound
BY CartsBoundInit, CartsBoundStep, PTL DEF CartSpec

\* Carts are carts: counts, the discount and the worth of the goods stay numbers,
\* whatever is typed.
THEOREM CartTypes == CartSpec => []CartTypeOK
<1>1. CartsBound => CartTypeOK
    BY DEF CartsBound
<1> QED BY <1>1, CartsBoundInvariant, PTL

\* A list has the present prices but for those that were edited since; so has a
\* cart, and its discount fits until goods are taken out.
Listed(l, prices) == \A p \in Products : p \notin l.edited => l.price[p] = prices[p]
Priced(c, prices) ==
    /\ \A p \in Products : c.qty[p] > 0 /\ p \notin c.old => c.price[p] = prices[p]
    /\ ~c.cut => c.discount <= Goods(c)

CartsPriced ==
    /\ Listed(catalogue, tag) /\ \A t \in Windows : Listed(list[t], tag)
    /\ Priced(kept, tag) /\ \A t \in Windows : Priced(store[t], tag)

LEMMA EmptyIsPriced ==
    ASSUME NEW b, NEW prices
    PROVE  Priced(EmptyCart(b), prices)
<1>1. Goods(EmptyCart(b)) \in Nat
    BY GoodsType DEF EmptyCart
<1> QED BY <1>1 DEF Priced, EmptyCart

LEMMA GoodsSame ==
    ASSUME NEW c \in Cart, NEW d, d.qty = c.qty, d.price = c.price
    PROVE  Goods(d) = Goods(c)
<1>1. /\ c.qty \in [Products -> Nat] /\ c.price \in [Products -> Nat]
      /\ \A p \in Products : c.qty[p] * c.price[p] <= d.qty[p] * d.price[p]
      /\ \A p \in Products : d.qty[p] * d.price[p] <= c.qty[p] * c.price[p]
    BY DEF Cart
<1>2. Goods(c) \in Nat /\ Goods(d) \in Nat /\ Goods(c) <= Goods(d)
    BY <1>1, WorthOrdered DEF Goods
<1>3. Goods(d) <= Goods(c)
    BY <1>1, WorthOrdered DEF Goods
<1> QED BY <1>2, <1>3

\* A cart with no less of anything is worth no less.
LEMMA GoodsGrow ==
    ASSUME NEW c \in Cart, NEW d \in Cart,
           \A p \in Products : c.qty[p] * c.price[p] <= d.qty[p] * d.price[p]
    PROVE  Goods(c) \in Nat /\ Goods(d) \in Nat /\ Goods(c) <= Goods(d)
BY WorthOrdered DEF Goods, Cart

LEMMA MoreIsWorthMore ==
    ASSUME NEW m \in Nat, NEW n \in Nat, m <= n, NEW price \in Nat
    PROVE  m * price <= n * price
OBVIOUS

LEMMA LinePriced ==
    ASSUME NEW c \in Cart, NEW prices, Priced(c, prices), NEW p \in Products, NEW n \in Nat,
           n = 0 \/ c.qty[p] > 0
    PROVE  Priced(Line(c, p, n), prices)
<1> DEFINE d == Line(c, p, n)
<1>1. /\ d \in Cart
      /\ d.discount = c.discount /\ d.cut = (c.cut \/ n < c.qty[p])
      /\ d.qty = [c.qty EXCEPT ![p] = n]
      /\ d.price = [c.price EXCEPT ![p] = IF n = 0 THEN 0 ELSE c.price[p]]
      /\ d.old = IF n = 0 THEN c.old \ {p} ELSE c.old
    BY DEF Line, Cart
<1>2. c.qty \in [Products -> Nat] /\ c.price \in [Products -> Nat] /\ c.cut \in BOOLEAN
    BY DEF Cart
<1> HIDE DEF d
<1>4. ASSUME ~d.cut PROVE d.discount <= Goods(d)
  <2>0. ~c.cut /\ ~(n < c.qty[p])
      BY <1>1, <1>4, Zenon
  <2>1. ~c.cut /\ c.qty[p] <= n
      BY <1>2, <2>0
  <2>2. ASSUME NEW q \in Products PROVE c.qty[q] * c.price[q] <= d.qty[q] * d.price[q]
    <3>1. CASE q # p
        BY <1>1, <1>2, <3>1
    <3>2. CASE q = p /\ n > 0
      <4>1. d.qty[p] = n /\ d.price[p] = c.price[p]
          BY <1>1, <1>2, <3>2
      <4> QED BY <1>2, <2>1, <3>2, <4>1, MoreIsWorthMore
    <3>3. CASE q = p /\ n = 0
        BY <1>1, <1>2, <2>1, <3>3
    <3> QED BY <3>1, <3>2, <3>3
  <2>3. Goods(c) \in Nat /\ Goods(d) \in Nat /\ Goods(c) <= Goods(d)
      BY <1>1, <2>2, GoodsGrow
  <2>4. c.discount \in Nat /\ c.discount <= Goods(c)
      BY <2>1 DEF Priced, Cart
  <2> QED BY <1>1, <2>3, <2>4
<1>5. \A q \in Products : d.qty[q] > 0 /\ q \notin d.old => d.price[q] = prices[q]
  <2> SUFFICES ASSUME NEW q \in Products, d.qty[q] > 0, q \notin d.old PROVE d.price[q] = prices[q]
      OBVIOUS
  <2>1. CASE q = p
    <3>1. n > 0 /\ d.old = c.old /\ d.price[p] = c.price[p]
        BY <1>1, <1>2, <2>1
    <3> QED BY <1>2, <2>1, <3>1 DEF Priced
  <2>2. CASE q # p
      BY <1>1, <1>2, <2>2 DEF Priced
  <2> QED BY <2>1, <2>2
<1> QED BY <1>4, <1>5 DEF Priced, d

LEMMA EditedPrices ==
    ASSUME NEW c \in Cart, NEW prices, Priced(c, prices)
    PROVE  /\ \A p \in Products : \A l \in List : Listed(l, prices) => Priced(Added(c, p, l), prices)
           /\ \A p \in Products : Priced(Removed(c, p), prices)
           /\ \A p \in Products : \A n \in Int : c.qty[p] > 0 => Priced(Counted(c, p, n), prices)
           /\ \A value \in Int : Priced(Discounted(c, value), prices)
           /\ \A b \in Businesses \cup {NoBusiness} : Priced([c EXCEPT !.fee = b], prices)
           /\ Priced(EmptyCart(c.scope), prices)
<1>0. c.qty \in [Products -> Nat] /\ c.price \in [Products -> Nat] /\ c.discount \in Nat
    BY DEF Cart
<1>1. ASSUME NEW p \in Products, NEW l \in List, Listed(l, prices) PROVE Priced(Added(c, p, l), prices)
  <2>1. CASE c.qty[p] = 0
    <3> DEFINE d == [c EXCEPT !.qty[p] = 1, !.price[p] = l.price[p], !.old = @ \cup ({p} \cap l.edited)]
    <3>1. Added(c, p, l) = d
        BY <2>1 DEF Added
    <3>2. /\ d \in Cart
          /\ d.discount = c.discount /\ d.cut = c.cut
          /\ d.qty = [c.qty EXCEPT ![p] = 1] /\ d.price = [c.price EXCEPT ![p] = l.price[p]]
          /\ d.old = c.old \cup ({p} \cap l.edited)
        BY DEF Cart, List
    <3> HIDE DEF d
    <3>3. ASSUME NEW q \in Products PROVE c.qty[q] * c.price[q] <= d.qty[q] * d.price[q]
      <4>1. CASE q # p
          BY <1>0, <3>2, <4>1
      <4>2. CASE q = p
        <5>1. c.qty[q] * c.price[q] = 0
            BY <1>0, <2>1, <4>2
        <5>2. d.qty[q] = 1 /\ d.price[q] \in Nat
            BY <1>0, <3>2, <4>2 DEF Cart
        <5> QED BY <5>1, <5>2
      <4> QED BY <4>1, <4>2
    <3>4. Goods(c) \in Nat /\ Goods(d) \in Nat /\ Goods(c) <= Goods(d)
        BY <3>2, <3>3, GoodsGrow
    <3>5. ~d.cut => d.discount <= Goods(d)
        BY <1>0, <3>2, <3>4 DEF Priced
    <3>6. \A q \in Products : d.qty[q] > 0 /\ q \notin d.old => d.price[q] = prices[q]
        BY <1>0, <1>1, <3>2 DEF Priced, Listed
    <3> QED BY <3>1, <3>5, <3>6 DEF Priced
  <2>2. CASE c.qty[p] # 0
      BY <1>0, <2>2, LinePriced DEF Added
  <2> QED BY <2>1, <2>2
<1>2. ASSUME NEW p \in Products PROVE Priced(Removed(c, p), prices)
    BY LinePriced DEF Removed
<1>3. ASSUME NEW p \in Products, NEW n \in Int, c.qty[p] > 0 PROVE Priced(Counted(c, p, n), prices)
  <2>1. Lesser(AtLeastZero(n), Shelf[p]) \in Nat
      BY CartStoreAssumption DEF Lesser, AtLeastZero
  <2> QED BY <1>3, <2>1, LinePriced DEF Counted
<1>4. ASSUME NEW value \in Int PROVE Priced(Discounted(c, value), prices)
  <2> DEFINE d == Discounted(c, value)
  <2>1. Goods(c) \in Nat
      BY <1>0, GoodsType
  <2>2. /\ d.qty = c.qty /\ d.price = c.price /\ d.old = c.old
        /\ d.discount = Lesser(AtLeastZero(value), Goods(c))
      BY DEF Discounted, Cart
  <2>3. d.discount <= Goods(c)
      BY <2>1, <2>2 DEF Lesser, AtLeastZero
  <2>4. Goods(d) = Goods(c)
      BY <2>2, GoodsSame
  <2> QED BY <2>2, <2>3, <2>4 DEF Priced
<1>5. ASSUME NEW b \in Businesses \cup {NoBusiness} PROVE Priced([c EXCEPT !.fee = b], prices)
  <2> DEFINE d == [c EXCEPT !.fee = b]
  <2>1. d.qty = c.qty /\ d.price = c.price /\ d.old = c.old /\ d.discount = c.discount /\ d.cut = c.cut
      BY DEF Cart
  <2>2. Goods(d) = Goods(c)
      BY <2>1, GoodsSame
  <2> QED BY <2>1, <2>2 DEF Priced
<1> QED BY <1>1, <1>2, <1>3, <1>4, <1>5, EmptyIsPriced

LEMMA CartsPricedInit == CartInit => CartsPriced
<1> SUFFICES ASSUME CartInit PROVE CartsPriced
    OBVIOUS
<1>1. /\ store = [t \in Windows |-> EmptyCart(NoBusiness)] /\ kept = EmptyCart(NoBusiness)
      /\ catalogue = FreshList /\ list = [t \in Windows |-> catalogue]
    BY DEF CartInit
<1> QED BY <1>1, EmptyIsPriced DEF CartsPriced, FreshList, Listed

LEMMA CartsPricedStep == CartsBound /\ CartsPriced /\ [CartNext]_cartVars => CartsPriced'
<1> SUFFICES ASSUME CartsBound, CartsPriced, [CartNext]_cartVars PROVE CartsPriced'
    OBVIOUS
<1>0. \A t \in Windows : store[t] \in Cart /\ list[t] \in List /\ Priced(store[t], tag) /\ Listed(list[t], tag)
    BY DEF CartsBound, CartTypeOK, CartsPriced
<1>1. ASSUME NEW t \in Windows, NEW c, SetStore(t, c), Priced(c, tag), catalogue' = catalogue,
             list' = list \/ list' = [list EXCEPT ![t] = catalogue]
      PROVE  CartsPriced'
  <2>1. /\ tag' = tag /\ kept' = c /\ store'[t] = c
        /\ \A u \in Windows : u # t => store'[u] = store[u]
      BY <1>1 DEF SetStore, CartsBound, CartTypeOK
  <2>2. \A u \in Windows : Priced(store'[u], tag)
      BY <1>0, <1>1, <2>1
  <2>3. \A u \in Windows : Listed(list'[u], tag)
      BY <1>1 DEF CartsPriced, CartsBound, CartTypeOK
  <2>4. Listed(catalogue', tag) /\ Priced(kept', tag)
      BY <1>1, <2>1 DEF CartsPriced
  <2> QED BY <2>1, <2>2, <2>3, <2>4 DEF CartsPriced
<1>2. ASSUME NEW t \in Windows, NEW b \in Businesses, NEW c, Priced(c, tag), Mounted(t, c, b),
             catalogue' = catalogue, list' = list \/ list' = [list EXCEPT ![t] = catalogue]
      PROVE  CartsPriced'
  <2> DEFINE d == IF t \in known' THEN Scoped(c, b) ELSE c
  <2>1. Priced(d, tag) /\ SetStore(t, d)
      BY <1>2, EmptyIsPriced DEF Scoped, Mounted
  <2> HIDE DEF d
  <2> QED BY <1>1, <1>2, <2>1
<1>3. ASSUME NEW t \in Windows, NEW d, Edit(t, d), Priced(d, tag) PROVE CartsPriced'
    BY <1>1, <1>3 DEF Edit
<1>4. ASSUME NEW t \in Windows, place[t] # NoBusiness PROVE place[t] \in Businesses
    BY <1>4 DEF CartsBound, CartTypeOK
<1>5. ASSUME NEW t \in Windows, NEW b \in Businesses, LoadPage(t, b) \/ Follow(t, b) PROVE CartsPriced'
  <2>1. CASE LoadPage(t, b)
    <3> DEFINE c == IF kept.scope = NoBusiness THEN EmptyCart(NoBusiness) ELSE kept
    <3>1. Priced(c, tag)
        BY EmptyIsPriced DEF CartsPriced
    <3>2. Mounted(t, c, b) /\ catalogue' = catalogue /\ list' = [list EXCEPT ![t] = catalogue]
        BY <2>1 DEF LoadPage, FetchList
    <3> HIDE DEF c
    <3> QED BY <1>2, <3>1, <3>2
  <2>2. CASE Follow(t, b)
      BY <1>0, <1>2, <2>2 DEF Follow
  <2> QED BY <1>5, <2>1, <2>2
<1>6. ASSUME NEW t \in Windows, SessionLoads(t) PROVE CartsPriced'
    BY <1>0, <1>2, <1>4, <1>6 DEF SessionLoads
<1>7. ASSUME NEW t \in Windows, NEW p \in Products,
             AddToCart(t, p) \/ RemoveFromCart(t, p) \/ UpdateQty(t, p)
      PROVE  CartsPriced'
  <2>1. CASE AddToCart(t, p)
      BY <1>0, <1>3, <2>1, EditedPrices DEF AddToCart
  <2>2. CASE RemoveFromCart(t, p)
      BY <1>0, <1>3, <2>2, EditedPrices DEF RemoveFromCart
  <2>3. CASE UpdateQty(t, p)
    <3>1. PICK n \in Int : store[t].qty[p] > 0 /\ Edit(t, Counted(store[t], p, n))
        BY <2>3, CartStoreAssumption DEF UpdateQty
    <3> QED BY <1>0, <1>3, <3>1, EditedPrices
  <2> QED BY <1>7, <2>1, <2>2, <2>3
<1>8. ASSUME NEW t \in Windows, SetDiscount(t) \/ SetServices(t) \/ ClearCart(t) PROVE CartsPriced'
  <2>1. CASE SetDiscount(t)
    <3>1. PICK value \in Int : Edit(t, Discounted(store[t], value))
        BY <2>1, CartStoreAssumption DEF SetDiscount
    <3> QED BY <1>0, <1>3, <3>1, EditedPrices
  <2>2. CASE SetServices(t)
    <3>1. PICK b \in Businesses \cup {NoBusiness} : Edit(t, [store[t] EXCEPT !.fee = b])
        BY <1>4, <2>2 DEF SetServices, Edit
    <3> QED BY <1>0, <1>3, <3>1, EditedPrices
  <2>3. CASE ClearCart(t)
      BY <1>0, <1>3, <2>3, EditedPrices DEF ClearCart
  <2> QED BY <1>8, <2>1, <2>2, <2>3
<1>9. CASE UNCHANGED cartVars
    BY <1>9 DEF cartVars, priceVars, CartsPriced
<1>10. ASSUME NEW t \in Windows, RefetchProducts(t) PROVE CartsPriced'
  <2>1. /\ UNCHANGED <<store, kept, tag, catalogue>>
        /\ \A u \in Windows : list'[u] \in {list[u], catalogue}
      BY <1>10 DEF RefetchProducts, FetchList, CartsBound, CartTypeOK
  <2> QED BY <2>1 DEF CartsPriced
<1>11. CASE ReadCatalogue
    BY <1>11 DEF ReadCatalogue, FreshList, CartsPriced, Listed
<1>12. ASSUME NEW p \in Products, EditPrice(p) PROVE CartsPriced'
  <2>1. /\ \A q \in Products : q # p => tag'[q] = tag[q]
        /\ store' = [t \in Windows |-> Outdated(store[t], p)] /\ kept' = Outdated(kept, p)
        /\ catalogue' = [catalogue EXCEPT !.edited = @ \cup {p}]
        /\ list' = [t \in Windows |-> [list[t] EXCEPT !.edited = @ \cup {p}]]
      BY <1>12 DEF EditPrice, CartsBound, CartTypeOK
  <2>2. ASSUME NEW c \in Cart, Priced(c, tag) PROVE Priced(Outdated(c, p), tag')
    <3> DEFINE d == Outdated(c, p)
    <3>1. /\ d.qty = c.qty /\ d.price = c.price /\ d.discount = c.discount /\ d.cut = c.cut
          /\ d.old = IF c.qty[p] > 0 THEN c.old \cup {p} ELSE c.old
        BY DEF Outdated, Cart
    <3>2. Goods(d) = Goods(c)
        BY <3>1, GoodsSame
    <3> HIDE DEF d
    <3>3. Priced(d, tag')
        BY <2>1, <2>2, <3>1, <3>2 DEF Priced
    <3> QED BY <3>3 DEF d
  <2>3. ASSUME NEW l \in List, Listed(l, tag) PROVE Listed([l EXCEPT !.edited = @ \cup {p}], tag')
      BY <2>1, <2>3 DEF Listed, List
  <2>4. \A t \in Windows : Priced(store'[t], tag') /\ Listed(list'[t], tag')
      BY <1>0, <2>1, <2>2, <2>3
  <2>5. Priced(kept', tag') /\ Listed(catalogue', tag')
      BY <2>1, <2>2, <2>3 DEF CartsPriced, CartsBound, CartTypeOK
  <2> QED BY <2>4, <2>5 DEF CartsPriced
<1> QED BY <1>5, <1>6, <1>7, <1>8, <1>9, <1>10, <1>11, <1>12 DEF CartNext

\* The total on the screen (getFinancials), added up from the prices the cart
\* took over, is the total the server asks at its own (initialize_checkout), and
\* the labels of the checkout page are those of the cart, unless a price was
\* edited under the cart or its goods were taken out from under the discount: for
\* every catalogue, every price and every fee.
THEOREM ShownIsAsked == CartSpec => []QuotedAsStaged
<1>1. ASSUME NEW c \in Cart, c.old = {}, Priced(c, tag), tag \in [Products -> Nat]
      PROVE  /\ GrandTotal(c) = StagedTotal(c)
             /\ ~c.cut => GoodsLabel(c) = Goods(c) /\ c.discount = DiscountApplied(c)
  <2>1. /\ c.qty \in [Products -> Nat] /\ c.price \in [Products -> Nat]
        /\ c.discount \in Nat /\ Fees(c) \in Nat
      BY CartStoreAssumption DEF Cart, Fees
  <2>2. \A p \in Products : c.qty[p] * c.price[p] = c.qty[p] * tag[p]
    <3>1. ASSUME NEW p \in Products PROVE c.qty[p] * c.price[p] = c.qty[p] * tag[p]
      <4>1. CASE c.qty[p] > 0
          BY <1>1, <4>1 DEF Priced
      <4>2. CASE c.qty[p] = 0
          BY <1>1, <2>1, <4>2
      <4> QED BY <2>1, <4>1, <4>2
    <3> QED BY <3>1
  <2>3. Goods(c) \in Nat /\ WorthAt(c, tag) = Goods(c)
    <3>1. \A p \in Products : /\ c.qty[p] * c.price[p] <= c.qty[p] * tag[p]
                              /\ c.qty[p] * tag[p] <= c.qty[p] * c.price[p]
        BY <1>1, <2>1, <2>2
    <3>2. Goods(c) \in Nat /\ WorthAt(c, tag) \in Nat /\ Goods(c) <= WorthAt(c, tag)
        BY <1>1, <2>1, <3>1, WorthOrdered DEF Goods
    <3>3. WorthAt(c, tag) <= Goods(c)
        BY <1>1, <2>1, <3>1, WorthOrdered DEF Goods
    <3> QED BY <3>2, <3>3
  <2>4. ~c.cut => c.discount <= Goods(c)
      BY <1>1 DEF Priced
  <2> QED BY <2>1, <2>3, <2>4
          DEF GrandTotal, DiscountApplied, StagedTotal, StagedSubtotal, GoodsLabel, Lesser, AtLeastZero
<1>2. CartsBound /\ CartsPriced => QuotedAsStaged
    BY <1>1 DEF CartsBound, CartTypeOK, CartsPriced, QuotedAsStaged
<1> QED BY <1>2, CartsBoundInvariant, CartsPricedInit, CartsPricedStep, PTL DEF CartSpec

\* A tab that knows its user shows a cart of its own business, whatever the
\* other tabs wrote to localStorage, unless a cart was edited before its user
\* was known (validateAndSetScope).
THEOREM OwnBusiness == CartSpec => []CartIsOfThisBusiness
<1>1. CartsBound => CartIsOfThisBusiness
    BY DEF CartsBound, CartTypeOK, Local, CartIsOfThisBusiness
<1> QED BY <1>1, CartsBoundInvariant, PTL

-----------------------------------------------------------------------------
(* MCTerminal: what it runs are behaviours of both modules.                  *)

LEMMA TerminalRuns == TerminalSpec => CounterSpec /\ CartSpec
<1>1. TerminalInit => CounterInit /\ CartInit
    BY DEF TerminalInit
<1>2. [TerminalNext]_terminalVars => [CounterNext]_counterVars /\ [CartNext]_cartVars
  <2>1. CASE UNCHANGED terminalVars
      BY <2>1 DEF terminalVars
  <2>2. CASE TerminalNext
      BY <2>2, Zenon DEF TerminalNext, CounterMoves, CartMoves
  <2> QED BY <2>1, <2>2
<1> QED BY <1>1, <1>2, PTL DEF TerminalSpec, CounterSpec, CartSpec

\* Whichever part of the terminal moves, the variables of both keep their types.
THEOREM TerminalTypes == TerminalSpec => []TerminalTypeOK
<1>1. TerminalInit => task \in Tasks
    BY DEF TerminalInit
<1>2. task \in Tasks /\ [TerminalNext]_terminalVars => (task \in Tasks)'
    BY DEF TerminalNext, terminalVars
<1>3. task \in Tasks /\ CounterTypeOK /\ CartTypeOK => TerminalTypeOK
    BY DEF TerminalTypeOK
<1> QED BY <1>1, <1>2, <1>3, TerminalRuns, CounterTypes, CartTypes, PTL DEF TerminalSpec
=============================================================================
