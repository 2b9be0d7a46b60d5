---------------------------- MODULE PendingOrders ----------------------------
(***************************************************************************)
(* The orders a trader armed at a price (pending.ts): the book in the      *)
(* engine's memory, the pending_orders rows that survive it, and the       *)
(* writes between them, which nobody awaits: each may land late, in any    *)
(* order, or never.  Nobody reads the rows before the engine starts again, *)
(* so what has landed is decided when it dies.  Filling an order belongs   *)
(* to the tick loop, which module Trading adds.                            *)
(*                                                                         *)
(* Abstracted: kinds, prices and symbols; an order in the book may be due  *)
(* in any tick.                                                            *)
(***************************************************************************)
EXTENDS FiniteSets

CONSTANT Orders

VARIABLES
    book,          \* PendingOrders.orders, the map
    orow,          \* the row of each order: none, live, filled or canceled
    writes,        \* <<kind, order>> writes this process issued
    asked,         \* what the trader last heard: none, armed or canceled
    excuse         \* events that explain why an order's row and history differ

orderVars == <<book, orow, writes, asked, excuse>>

Kinds == {"insert", "fill", "cancel"}
Statuses == {"none", "live", "filled", "canceled"}
Excuses == {"due", "reply", "unwritten", "unmarked", "unscanned"}

OrdersInit ==
    /\ book = {}
    /\ orow = [o \in Orders |-> "none"]
    /\ writes = {}
    /\ asked = [o \in Orders |-> "none"]
    /\ excuse = [o \in Orders |-> {}]

Excuse(S, why) == [o \in Orders |-> IF o \in S THEN excuse[o] \union {why} ELSE excuse[o]]

(* place: the order is armed, its row is written by the way.               *)
Place(o) ==
    /\ asked[o] = "none"
    /\ asked' = [asked EXCEPT ![o] = "armed"]
    /\ book' = book \union {o}
    /\ writes' = writes \union {<<"insert", o>>}
    /\ UNCHANGED <<orow, excuse>>

(* cancel: refused unless the order is in the book.  A tick that already   *)
(* picked the order, and still awaits the fill of another one, this        *)
(* trader's or not, keeps it.                                              *)
Cancel(o, due) ==
    /\ o \in book
    /\ asked' = [asked EXCEPT ![o] = "canceled"]
    /\ book' = book \ {o}
    /\ writes' = writes \union {<<"cancel", o>>}
    /\ excuse' = IF o \in due THEN Excuse({o}, "due") ELSE excuse
    /\ UNCHANGED orow

(* insertPendingOrder creates the row, markPendingFilled and               *)
(* markPendingCanceled change one that is live: what the row may be when   *)
(* some of an order's writes landed, in some order.                        *)
Landed(o, now) ==
    LET alive == orow[o] = "live" \/ <<"insert", o>> \in writes IN
    \/ now = orow[o]
    \/ orow[o] = "none" /\ alive /\ now = "live"
    \/ orow[o] \in {"none", "live"} /\ alive
       /\ \/ <<"fill", o>> \in writes /\ now = "filled"
          \/ <<"cancel", o>> \in writes /\ now = "canceled"

\* Mutant: the partial index's condition is forgotten for filled rows.
LiveOrFilled == {o \in Orders : orow[o] \in {"live", "filled"}}

(* listLivePendingOrders.                                                  *)
Live == {o \in Orders : orow[o] = "live"}

OrdersTypeOK ==
    /\ book \subseteq Orders
    /\ orow \in [Orders -> Statuses]
    /\ writes \subseteq Kinds \X Orders
    /\ asked \in [Orders -> {"none", "armed", "canceled"}]
    /\ excuse \in [Orders -> SUBSET Excuses]
=============================================================================
