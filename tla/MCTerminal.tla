------------------------------ MODULE MCTerminal ------------------------------
(***************************************************************************)
(* The sales terminal, checked in one run: `task` says whether Counter or  *)
(* CartStore moves in a behaviour, and with how much of its instance; the  *)
(* variables of the other keep their initial values.                       *)
(***************************************************************************)
EXTENDS Counter, CartStore, TLC

CONSTANTS t1, t2, w1, w2, u1, u2, s1, s2, shop, annex, tea, ink

VARIABLE task

TheHome == (tea :> shop) @@ (ink :> annex)
ThePrices == (tea :> {2, 3}) @@ (ink :> {1})
TheShelf == (tea :> 1) @@ (ink :> 1)
TheDiscounts == {-1, 2}

terminalVars == <<counterVars, cartVars, task>>

Tasks == {"one tab", "two tabs", "link", "cart", "prices"}

\* The type invariants of the two modules.
TerminalTypeOK == task \in Tasks /\ (IF task \in {"cart", "prices"} THEN CartTypeOK ELSE CounterTypeOK)

TerminalInit == task \in Tasks /\ CounterInit /\ CartInit /\ tag[tea] = 2

\* Sales are interchangeable: s1 is taken first.
SalesInUse == {s \in Sales : sale[s].status # "UNSTAGED" \/ \E m \in calls : m.sale = s}

\* The calls that have not come back, and those of them a reload abandoned.
AtOnce(n, abandoned) ==
    /\ Cardinality(calls') <= n
    /\ Cardinality({m \in calls' : ~m.awaited}) <= abandoned

\* One tab with two units and two calls at once; a unit on two tabs that do not go
\* to a checkout they do not remember, with a call or one that was abandoned; the
\* checkout of one tab opened on the other.  A tab that left a call or missed an
\* answer is excused from every property: a behaviour ends when all tabs are.
CounterMoves ==
    /\ task \notin {"cart", "prices"}
    /\ CounterNext
    /\ s2 \in SalesInUse' \ SalesInUse => s1 \in SalesInUse
    /\ task = "one tab" => page'[t2] = page[t2]
    /\ task # "one tab" => \A t \in Tabs : cart'[t] \subseteq {u1}
    /\ \/ task = "one tab" /\ AtOnce(2, 0) /\ unsure = {}
       \/ task = "two tabs" /\ AtOnce(1, 1) /\ returned' = {} /\ unsure # Tabs
       \/ task = "link" /\ AtOnce(1, 0) /\ returned' \subseteq {t2} /\ unsure' = {}
    /\ UNCHANGED cartVars

\* Two tabs in two businesses, at fixed prices and without discounts; two tabs in
\* one business, who know their user, while the price of tea is edited.
CartMoves ==
    /\ CartNext
    /\ \/ task = "cart" /\ tag' = tag /\ kept'.discount = 0
       \/ task = "prices" /\ ~early' /\ \A t \in Windows : place'[t] \in {NoBusiness, shop}
    /\ UNCHANGED counterVars

TerminalNext == (CounterMoves \/ CartMoves) /\ UNCHANGED task

TerminalSpec == TerminalInit /\ [][TerminalNext]_terminalVars

=============================================================================
