-------------------------------- MODULE StockDesk --------------------------------
(***************************************************************************)
(* The stock of one product as managers keep it (ProductWorkspace.tsx over *)
(* stockProxy.ts and crud/stock.py) next to the goods on the shelf.        *)
(*                                                                         *)
(* A delivery or a breakage is written down on a note, which a manager     *)
(* enters with "Receive stock" or "Adjust stock" and keeps until the       *)
(* screen reports success.  "Count stock" sets the book to a number: the   *)
(* one the form was opened with, or the goods the manager counted.  The    *)
(* till takes units off the shelf and off the book at once.                *)
(***************************************************************************)
EXTENDS Integers, FiniteSets

CONSTANTS
    Desks,        \* managers' screens
    Notes, NoNote,
    Opening,      \* units at the start
    MaxUnits      \* bounds the units on the shelf and in the book

ASSUME StockDeskAssumption ==
    /\ NoNote \notin Notes
    /\ IsFiniteSet(Notes)
    /\ Opening \in Nat
    /\ MaxUnits \in Nat

VARIABLES
    book,       \* products.stock
    shelf,      \* the units that are there
    note,       \* each note
    desk,       \* each screen: its number, the note it enters, its call
    current,    \* history: screens since whose number nothing has moved
    misbooked   \* history: a note was kept although it had been entered, or the
                \* book was set while notes were open or to a number out of date

deskVars == <<book, shelf, note, desk, current, misbooked>>

-----------------------------------------------------------------------------
Note == [kind : {"blank", "delivery", "breakage"}, entered : BOOLEAN, filed : BOOLEAN]

Blank == [kind |-> "blank", entered |-> FALSE, filed |-> FALSE]

Desk == [number : Int, call : {"none", "enter", "count"}, note : Notes \cup {NoNote},
         served : BOOLEAN]

DeskTypeOK ==
    /\ book \in Int
    /\ shelf \in Nat
    /\ note \in [Notes -> Note]
    /\ desk \in [Desks -> Desk]
    /\ current \subseteq Desks
    /\ misbooked \in BOOLEAN

DeskInit ==
    /\ book = Opening
    /\ shelf = Opening
    /\ note = [k \in Notes |-> Blank]
    /\ desk = [d \in Desks |-> [number |-> Opening, call |-> "none", note |-> NoNote,
                                served |-> FALSE]]
    /\ current = Desks
    /\ misbooked = FALSE

OpenNotes == {k \in Notes : note[k].kind # "blank" /\ ~note[k].entered}
Idle(d) == [desk EXCEPT ![d].call = "none", ![d].note = NoNote, ![d].served = FALSE]
Moved == current' = {}

-----------------------------------------------------------------------------
(* The shop. *)

Deliver(k) ==
    /\ note[k].kind = "blank"
    /\ shelf < MaxUnits
    /\ shelf' = shelf + 1
    /\ note' = [note EXCEPT ![k].kind = "delivery"]
    /\ Moved
    /\ UNCHANGED <<book, desk, misbooked>>

Break(k) ==
    /\ note[k].kind = "blank"
    /\ shelf > 0
    /\ shelf' = shelf - 1
    /\ note' = [note EXCEPT ![k].kind = "breakage"]
    /\ Moved
    /\ UNCHANGED <<book, desk, misbooked>>

\* A checkout, which refuses what the book does not have.
Sell ==
    /\ shelf > 0
    /\ book > 0
    /\ shelf' = shelf - 1
    /\ book' = book - 1
    /\ Moved
    /\ UNCHANGED <<note, desk, misbooked>>

-----------------------------------------------------------------------------
(* The screens. *)

\* The product is fetched and the count form opened with it, or the goods are
\* counted and the number typed.
TakeNumber(d, n) ==
    /\ desk[d].call = "none"
    /\ n \in {book, shelf}
    /\ desk' = [desk EXCEPT ![d].number = n]
    /\ current' = current \cup {d}
    /\ UNCHANGED <<book, shelf, note, misbooked>>

\* onReceive, onAdjust: a note that is on no other desk.
Enter(d, k) ==
    /\ desk[d].call = "none"
    /\ note[k].kind # "blank" /\ ~note[k].filed
    /\ \A e \in Desks : desk[e].note # k
    /\ desk' = [desk EXCEPT ![d].call = "enter", ![d].note = k]
    /\ UNCHANGED <<book, shelf, note, current, misbooked>>

\* onCount
Count(d) ==
    /\ desk[d].call = "none"
    /\ desk' = [desk EXCEPT ![d].call = "count"]
    /\ UNCHANGED <<book, shelf, note, current, misbooked>>

-----------------------------------------------------------------------------
(* The server. *)

\* Mutant: the direction of an adjustment is not sent.
UpAlways(k) == 1

\* A receipt adds; an adjustment adds or takes off, as its direction says.
Change(k) == IF note[k].kind = "breakage" THEN -1 ELSE 1

\* restock, adjust_stock: an adjustment below zero is refused.
ServeEnter(d) ==
    LET k == desk[d].note IN
    /\ desk[d].call = "enter" /\ ~desk[d].served
    /\ book + Change(k) \in 0..MaxUnits
    /\ book' = book + Change(k)
    /\ note' = [note EXCEPT ![k].entered = TRUE]
    /\ desk' = [desk EXCEPT ![d].served = TRUE]
    /\ Moved
    /\ UNCHANGED <<shelf, misbooked>>

\* count_stock
ServeCount(d) ==
    /\ desk[d].call = "count" /\ ~desk[d].served
    /\ book' = desk[d].number
    /\ desk' = [desk EXCEPT ![d].served = TRUE]
    /\ misbooked' = (misbooked \/ d \notin current \/ OpenNotes # {})
    /\ Moved
    /\ UNCHANGED <<shelf, note>>

\* postStock: success is reported, the note filed and the product fetched again.
Answered(d) ==
    /\ desk[d].served
    /\ note' = [k \in Notes |-> IF k = desk[d].note THEN [note[k] EXCEPT !.filed = TRUE]
                                ELSE note[k]]
    /\ desk' = [Idle(d) EXCEPT ![d].number = book]
    /\ current' = current \cup {d}
    /\ UNCHANGED <<book, shelf, misbooked>>

\* An error is shown, or the page is left: a refusal, a failure on the way, or an
\* answer that was lost.  The manager keeps the note.
Failed(d) ==
    /\ desk[d].call # "none"
    /\ desk' = Idle(d)
    /\ misbooked' = (misbooked \/ (desk[d].served /\ desk[d].call = "enter"))
    /\ UNCHANGED <<book, shelf, note, current>>

DeskNext ==
    \/ Sell
    \/ \E k \in Notes : Deliver(k) \/ Break(k)
    \/ \E d \in Desks :
        \/ TakeNumber(d, book) \/ TakeNumber(d, shelf)
        \/ \E k \in Notes : Enter(d, k)
        \/ Count(d) \/ ServeEnter(d) \/ ServeCount(d) \/ Answered(d) \/ Failed(d)

DeskSpec == DeskInit /\ [][DeskNext]_deskVars

-----------------------------------------------------------------------------
Owed == Cardinality({k \in OpenNotes : note[k].kind = "delivery"})
          - Cardinality({k \in OpenNotes : note[k].kind = "breakage"})

\* The book and the notes that are still open give the goods on the shelf,
\* through deliveries, breakages, counts and sales on several screens, unless
\* the answer to an entry was lost, or a count was saved with a number that was
\* out of date or while a note was open.
BookMatchesShelf == ~misbooked => book + Owed = shelf
=============================================================================
