------------------------------- MODULE Trading -------------------------------
(***************************************************************************)
(* One player's trades on a brand with a price axis, where contracts are   *)
(* continuous: the engine's open positions (game.ts), its tick loop, the   *)
(* player's own requests, pending orders, and recovery after a restart,    *)
(* on top of the database's Wallet and PendingOrders.                      *)
(*                                                                         *)
(* The tick loop makes one database call at a time and does nothing until  *)
(* its reply; in between everything else may happen.  A call may throw     *)
(* before or after it took effect (a fault).  The player's own requests    *)
(* are one step each, since they lock the position before they call, as    *)
(* the loop does, or open one that nobody knows before the reply.          *)
(*                                                                         *)
(* Abstracted: the clock and the price, so a position may expire, reach a  *)
(* level or be sold at any time and pays any of Payouts; moving a level.   *)
(***************************************************************************)
EXTENDS Wallet, PendingOrders

CONSTANTS
    MaxUpsets,     \* bound: calls that throw and changes of the account, together
    MaxRestarts    \* bound

ASSUME TradingAssumption ==
    /\ IsFiniteSet(Orders)
    /\ MaxUpsets \in Nat /\ MaxRestarts \in Nat
    /\ "market" \notin Orders /\ "none" \notin Positions

VARIABLES
    engine,        \* up, or booting with rows still to recover
    ticking,       \* GameServer.tickTimer is set
    mem,           \* GameServer.positions: none, or the status there
    origin,        \* the order a row was opened for, or "market"
    due,           \* orders this tick picked and has still to fill
    call,          \* the database call the tick loop waits for
    stranded,      \* open rows no running process knows
    misreported,   \* positions announced with a payout that is not the row's
    revalued,      \* positions whose settlement was made and its reply lost
    upsets,
    restarts

engineVars == <<engine, ticking, mem, origin, due, call, stranded, misreported, revalued>>
vars == <<walletVars, orderVars, engineVars, upsets, restarts>>

NoCall == [op |-> "none"]

Up == engine.at = "up"

(* The tick loop runs from the first connection on, for as long as the     *)
(* process lives; the player's requests come over a connection.            *)
Running == Up /\ ticking
OpenedFor(o) == {p \in Positions : row[p].status # "none" /\ origin[p] = o}
BeingFilled(o) == o \in due \/ (call.op = "open" /\ call.order = o)

Upset == upsets < MaxUpsets /\ upsets' = upsets + 1

NewRow == CHOOSE p \in Positions : row[p].status = "none"
Insert(o) == Free # {} /\ OpenRow(NewRow) /\ origin' = [origin EXCEPT ![NewRow] = o]

(* fn_settle_position, and the event: its figure is the engine's, whatever *)
(* the row had.                                                            *)
Pay(p) ==
    \E v \in Payouts :
        /\ SettleRow(p, v)
        /\ misreported' = IF row'[p].payout = v THEN misreported ELSE misreported \union {p}

-----------------------------------------------------------------------------
\* ensureSite: a client connects to the brand for the first time in this process.
Connect ==
    /\ Up /\ ~ticking /\ ticking' = TRUE
    /\ UNCHANGED <<walletVars, orderVars, engine, mem, origin, due, call, stranded,
                   misreported, revalued, upsets, restarts>>

(* The player's requests.                                                  *)

(* open_position; a refused one changes nothing.                           *)
MarketOrder ==
    /\ Running /\ Insert("market")
    /\ \/ mem' = [mem EXCEPT ![NewRow] = "open"] /\ UNCHANGED <<stranded, upsets>>
       \/ stranded' = stranded \union {NewRow} /\ Upset /\ UNCHANGED mem
    /\ UNCHANGED <<account, switch, orderVars, engine, ticking, due, call,
                   misreported, revalued, restarts>>

(* sell: a continuous contract can always be closed.                       *)
Sell(p) ==
    /\ Running /\ mem[p] = "open"
    /\ \/ /\ Pay(p) /\ mem' = [mem EXCEPT ![p] = "settled"]
          /\ UNCHANGED <<revalued, upsets>>
       \/ /\ \E v \in Payouts : SettleRow(p, v)
          /\ revalued' = revalued \union {p} /\ Upset
          /\ UNCHANGED <<mem, misreported>>
    /\ UNCHANGED <<account, switch, orderVars, engine, ticking, origin, due, call,
                   stranded, restarts>>

PlaceOrder(o) ==
    /\ Running /\ Place(o)
    /\ UNCHANGED <<walletVars, engineVars, upsets, restarts>>

CancelOrder(o) ==
    /\ Running /\ Cancel(o, due)
    /\ UNCHANGED <<walletVars, engineVars, upsets, restarts>>

(* What happens to the account, in whatever order with the trades.         *)
ChangeAccount ==
    /\ \/ (TopUp \/ Switch) /\ UNCHANGED upsets
       \/ (Promote \/ \E mode \in {"real", "demo"} : AskSwitch(mode)) /\ Upset
    /\ UNCHANGED <<orderVars, engineVars, restarts>>

-----------------------------------------------------------------------------
(* The tick loop (step): one tick at a time.                               *)

(* PendingOrders.step picks what the price has reached; the fills of other *)
(* traders' orders pass unseen between this and Fill.                      *)
Tick ==
    /\ Running /\ due = {} /\ call = NoCall
    /\ due' \in SUBSET book \ {{}}
    /\ UNCHANGED <<walletVars, orderVars, engine, ticking, mem, origin, call, stranded,
                   misreported, revalued, upsets, restarts>>

\* Mutant: an order leaves the book only when its position is open.
FillLate(o) ==
    /\ o \in due /\ due' = due \ {o}
    /\ call = NoCall /\ call' = [op |-> "open", order |-> o, pos |-> "none"]
    /\ UNCHANGED <<walletVars, orderVars, engine, ticking, mem, origin, stranded,
                   misreported, revalued, upsets, restarts>>

(* PendingOrders.step, one order: out of the book, then open.              *)
Fill(o) ==
    /\ o \in due /\ due' = due \ {o}
    /\ call = NoCall /\ call' = [op |-> "open", order |-> o, pos |-> "none"]
    /\ book' = book \ {o}
    /\ UNCHANGED <<walletVars, orow, writes, asked, excuse, engine, ticking, mem, origin, stranded,
                   misreported, revalued, upsets, restarts>>

FillRuns ==
    /\ call.op = "open" /\ call.pos = "none"
    /\ Insert(call.order)
    /\ call' = [call EXCEPT !.pos = NewRow]
    /\ UNCHANGED <<account, switch, orderVars, engine, ticking, mem, due, stranded,
                   misreported, revalued, upsets, restarts>>

(* The position is tracked; the order's row is marked by the way.          *)
Filled ==
    /\ call.op = "open" /\ call.pos # "none" /\ call' = NoCall
    /\ mem' = [mem EXCEPT ![call.pos] = "open"]
    /\ writes' = writes \union {<<"fill", call.order>>}
    /\ UNCHANGED <<walletVars, book, orow, asked, excuse, engine, ticking, origin, due, stranded,
                   misreported, revalued, upsets, restarts>>

\* Mutant: an order that could not be filled is forgotten.
Forget(o) == UNCHANGED book

(* The catch of PendingOrders.step: the order is armed again.              *)
PutBack(o) == book' = book \union {o}

(* INSUFFICIENT_FUNDS or another refusal, before anything happened.        *)
FillRefused ==
    /\ call.op = "open" /\ call.pos = "none" /\ (~CanStake \/ Free = {})
    /\ PutBack(call.order) /\ call' = NoCall
    /\ UNCHANGED <<walletVars, orow, writes, asked, excuse, engine, ticking, mem, origin, due,
                   stranded, misreported, revalued, upsets, restarts>>

(* The call throws; when it had taken effect, nobody tracks the position.  *)
FillThrows ==
    /\ call.op = "open" /\ Upset
    /\ PutBack(call.order) /\ call' = NoCall
    /\ IF call.pos # "none"
       THEN stranded' = stranded \union {call.pos} /\ excuse' = Excuse({call.order}, "reply")
       ELSE UNCHANGED <<stranded, excuse>>
    /\ UNCHANGED <<walletVars, orow, writes, asked, engine, ticking, mem, origin, due,
                   misreported, revalued, restarts>>

\* Mutant: the status is locked after the database call, not before it.
LockLate(p) == UNCHANGED mem

(* finalize locks the status before its await.                             *)
Lock(p) == mem' = [mem EXCEPT ![p] = "settled"]

(* closeAtLevel, settleAuto, after the tick's fills.  A position picked by *)
(* the tick and sold since is refused, which changes nothing.              *)
Close(p) ==
    /\ Running /\ due = {} /\ mem[p] = "open" /\ Lock(p)
    /\ call = NoCall /\ call' = [op |-> "settle", pos |-> p]
    /\ UNCHANGED <<walletVars, orderVars, engine, ticking, origin, due, stranded,
                   misreported, revalued, upsets, restarts>>

(* The rest of finalize, with the reply.                                   *)
Closed ==
    /\ call.op = "settle" /\ call' = NoCall
    /\ Pay(call.pos)
    /\ UNCHANGED <<account, switch, orderVars, engine, ticking, mem, origin, due,
                   stranded, revalued, upsets, restarts>>

\* Mutant: the status stays settled.
StayLocked(p) == UNCHANGED mem

(* finalize's catch: the position is open again, to be valued afresh,      *)
(* whether or not the call had taken effect.                               *)
Unlock(p) == mem' = [mem EXCEPT ![p] = "open"]

CloseThrows ==
    /\ call.op = "settle" /\ Upset
    /\ \/ UNCHANGED <<row, wallet, bonus, revalued>>
       \/ /\ \E v \in Payouts : SettleRow(call.pos, v)
          /\ revalued' = revalued \union {call.pos}
    /\ Unlock(call.pos) /\ call' = NoCall
    /\ UNCHANGED <<account, switch, orderVars, engine, ticking, origin, due,
                   stranded, misreported, restarts>>

-----------------------------------------------------------------------------
(* Restart.                                                                *)

(* The process dies: memory, timers, calls and writes that did not land    *)
(* are gone.                                                               *)
(* recoverAll lists the open positions of the brand.                       *)
Crash ==
    /\ restarts < MaxRestarts /\ restarts' = restarts + 1
    /\ engine' = [at |-> "booting", todo |-> OpenRows, scanned |-> OpenRows # {}]
    /\ mem' = [p \in Positions |-> "none"] /\ ticking' = FALSE
    /\ call' = NoCall /\ due' = {} /\ book' = {} /\ writes' = {} /\ stranded' = {}
    /\ orow' \in [Orders -> Statuses] /\ \A o \in Orders : Landed(o, orow'[o])
    /\ excuse' = [o \in Orders |-> excuse[o]
          \union (IF asked[o] # "none" /\ orow'[o] = "none" THEN {"unwritten"} ELSE {})
          \union (IF orow'[o] = "live" /\ (asked[o] = "canceled" \/ OpenedFor(o) # {})
                  THEN {"unmarked"} ELSE {})]
    /\ UNCHANGED <<walletVars, asked, origin, misreported, revalued, upsets>>

\* Mutant: what expired meanwhile is left to the tick loop, which never had it.
RecoverRearmOnly(p) ==
    /\ engine.at = "booting" /\ p \in engine.todo
    /\ engine' = [engine EXCEPT !.todo = @ \ {p}]
    /\ UNCHANGED <<walletVars, orderVars, ticking, mem, origin, due, call, stranded, misreported,
                   revalued, upsets, restarts>>

(* RecoveryService.recover, one row: settled with the outcome committed at *)
(* open when it has expired, and re-armed as it was opened when not.       *)
Recover(p) ==
    /\ engine.at = "booting" /\ p \in engine.todo
    /\ engine' = [engine EXCEPT !.todo = @ \ {p}]
    /\ \/ (\E v \in Payouts : SettleRow(p, v)) /\ UNCHANGED mem
       \/ mem' = [mem EXCEPT ![p] = "open"] /\ UNCHANGED <<row, wallet, bonus>>
    /\ UNCHANGED <<account, switch, orderVars, ticking, origin, due, call, stranded,
                   misreported, revalued, upsets, restarts>>

(* A row whose recovery throws is counted as failed and left.              *)
RecoverFails(p) ==
    /\ engine.at = "booting" /\ p \in engine.todo /\ Upset
    /\ engine' = [engine EXCEPT !.todo = @ \ {p}]
    /\ stranded' = stranded \union {p}
    /\ UNCHANGED <<walletVars, orderVars, ticking, mem, origin, due, call, misreported,
                   revalued, restarts>>

(* recoverAll reads the waiting orders, for a brand that had open          *)
(* positions; then the engine takes traffic.                               *)
Booted ==
    /\ engine.at = "booting" /\ engine.todo = {}
    /\ engine' = [engine EXCEPT !.at = "up", !.scanned = FALSE]
    /\ IF engine.scanned
       THEN book' = Live /\ UNCHANGED excuse
       ELSE excuse' = Excuse(Live, "unscanned") /\ UNCHANGED book
    /\ UNCHANGED <<walletVars, orow, writes, asked, ticking, mem, origin, due, call, stranded,
                   misreported, revalued, upsets, restarts>>

-----------------------------------------------------------------------------
Init ==
    /\ WalletInit /\ OrdersInit
    /\ engine = [at |-> "up", todo |-> {}, scanned |-> FALSE]
    /\ ticking = FALSE
    /\ mem = [p \in Positions |-> "none"]
    /\ origin = [p \in Positions |-> "market"]
    /\ due = {}
    /\ call = NoCall
    /\ stranded = {} /\ misreported = {} /\ revalued = {}
    /\ upsets = 0 /\ restarts = 0

Answer == FillRuns \/ Filled \/ FillRefused \/ Closed
Throw == FillThrows \/ CloseThrows

Next ==
    \/ Connect \/ MarketOrder \/ ChangeAccount \/ Tick \/ Answer \/ Throw \/ Crash \/ Booted
    \/ \E o \in Orders : PlaceOrder(o) \/ CancelOrder(o) \/ Fill(o)
    \/ \E p \in Positions : Sell(p) \/ Close(p) \/ Recover(p) \/ RecoverFails(p)

Spec == Init /\ [][Next]_vars

(* The engine's thread goes on while there is something to go on with; the *)
(* database answers; while the loop runs every tick closes, after its      *)
(* fills, what has expired, and in time every position has.  Nobody has to *)
(* connect, trade, sell or restart, no price has to be reached, and no     *)
(* write has to land.                                                      *)
Progress == Answer \/ Booted \/ (\E o \in Orders : Fill(o)) \/ \E p \in Positions : Recover(p)

FairSpec == Spec /\ WF_vars(Progress) /\ \A p \in Positions : SF_vars(Close(p))

-----------------------------------------------------------------------------
(* Properties.                                                             *)

Calls ==
    {NoCall}
    \union [op : {"open"}, order : Orders, pos : Positions \union {"none"}]
    \union [op : {"settle"}, pos : Positions]

\* Types of the database, the book and the engine's memory.
TypeOK ==
    /\ WalletTypeOK /\ OrdersTypeOK
    /\ engine \in [at : {"up", "booting"}, todo : SUBSET Positions, scanned : BOOLEAN]
    /\ ticking \in BOOLEAN
    /\ mem \in [Positions -> {"none", "open", "settled"}]
    /\ origin \in [Positions -> Orders \union {"market"}]
    /\ due \subseteq Orders
    /\ call \in Calls
    /\ stranded \subseteq Positions /\ misreported \subseteq Positions /\ revalued \subseteq Positions
    /\ upsets \in 0..MaxUpsets /\ restarts \in 0..MaxRestarts

\* finalize: the payout the player is told is the one the row records, however
\* sells, levels, expiry and retries race; unless a reply was lost, when the
\* engine values the position again and announces its own second figure.
SaidIsPaid == misreported \subseteq revalued

\* pending.ts:175: an order armed in the book has opened nothing yet, so that
\* it fills once; unless the reply to its opening was lost, or the process
\* died before the mark of its fill had reached its row.
ArmedOnce ==
    \A o \in book : OpenedFor(o) # {} => excuse[o] \intersect {"reply", "unmarked"} # {}

\* pending.ts:202, 0185: an order that was armed, neither filled nor cancelled,
\* is in the book or being filled; a restart loses it only when its row was not
\* written, or when the brand had no open position to be recovered with.
ArmedKept ==
    \A o \in Orders :
        Up /\ asked[o] = "armed" /\ OpenedFor(o) = {}
        => o \in book \/ BeingFilled(o) \/ excuse[o] \intersect {"unwritten", "unscanned"} # {}

\* 0185: a filled row never opens another position, and neither does an order
\* whose cancellation the trader was told of; unless this very tick had picked
\* it before (the due list is not looked at again), or the process died before
\* the cancellation had reached its row.
EndedStaysEnded ==
    [][\A o \in Orders :
         OpenedFor(o)' # OpenedFor(o) =>
            /\ orow[o] # "filled"
            /\ asked[o] = "canceled" => excuse[o] \intersect {"due", "unmarked"} # {}]_vars

\* An open row is always somebody's to settle: the engine holds it open, is
\* opening or settling it, or has still to recover it.  What it loses sight of
\* stays stranded until the next restart, as after a lost reply to an opening.
StakesKnown ==
    \A p \in OpenRows :
        p \in stranded \union engine.todo \/ mem[p] = "open" \/ (call.op # "none" /\ call.pos = p)

\* A position that recovery put back while no client connects to the brand: no
\* tick looks at it, its levels and its horizon included.
Unattended(p) == mem[p] = "open" /\ ~ticking

\* Every debited stake is settled in the end, through sells, levels, expiry,
\* failing calls and restarts, while some process knows of the position; unless
\* no client connects any more after the restart that re-armed it.
StakesSettle ==
    \A p \in Positions :
        row[p].status = "open" ~>
            row[p].status = "settled" \/ p \in stranded \/ [](Unattended(p))
=============================================================================
