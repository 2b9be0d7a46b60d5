------------------------------ MODULE PoolProofs ------------------------------
(***************************************************************************)
(* Proofs about PoolTrades for every set of trades, players and amounts.   *)
(*                                                                         *)
(* Lifecycle ties where a trade's handler stands to its three rows: the    *)
(* position, the saved decision and the ledger entry.  It is what makes    *)
(* Backed, PaidWereCredited and SettledAsDecided inductive.                *)
(***************************************************************************)
EXTENDS PoolTrades, SumProofs

Undecided == {"idle", "opened", "pooled", "sessionSeed", "sessioned",
              "turnoverSeed", "reserving"}

\* Nothing leaves the ledger entry but the whole grant, and only one way.
WholeMoves(p) ==
    /\ ledger[p].commit > 0 =>
         ledger[p].commit = ledger[p].reserve /\ ledger[p].release = 0
    /\ ledger[p].release > 0 =>
         ledger[p].release = ledger[p].reserve /\ ledger[p].commit = 0

\* What was committed was decided, and settled for that amount.
CommitFollows(p) ==
    ledger[p].commit > 0 =>
        /\ position[p].status = "settled"
        /\ decision[p] = ledger[p].commit
        /\ position[p].payout = ledger[p].commit

WinIsHeld(p) ==
    decision[p] > 0 => ledger[p].reserve = decision[p] /\ ledger[p].release = 0

PaysDecision(p) ==
    position[p].status = "settled" /\ decision[p] # Unset =>
        position[p].payout = decision[p]

\* Nothing was reserved or decided for a trade whose stake was not taken.
Fresh(p) ==
    position[p].status = "none" =>
        ledger[p] = NoEntry /\ decision[p] = Unset /\ handler[p].at \in {"idle", "failed"}

HandlerInStep(p) ==
    /\ At(p, "idle") => position[p].status = "none"
    /\ handler[p].at \in Undecided => ledger[p] = NoEntry
    /\ handler[p].at \in Undecided \union {"releasing", "saving"} => decision[p] = Unset
    /\ handler[p].at \in Opening \union {"recovering"} => position[p].status = "open"
    /\ At(p, "saving") /\ handler[p].payout > 0 =>
         ledger[p].reserve = handler[p].payout /\ ledger[p].release = 0
    /\ handler[p].at \in {"live", "settled"} => decision[p] \in {Unset, handler[p].payout}
    /\ At(p, "committing") => decision[p] = handler[p].payout
    /\ handler[p].at \in {"settled", "committing"} => position[p].status = "settled"
    /\ At(p, "committing") => handler[p].payout > 0

Local(p) ==
    /\ WholeMoves(p) /\ CommitFollows(p) /\ WinIsHeld(p)
    /\ PaysDecision(p) /\ Fresh(p) /\ HandlerInStep(p)

Lifecycle == \A p \in Positions : Local(p)

\* Before its insert the day's row holds nothing.
Unfunded == ~row.exists => row.paid = 0 /\ row.reserved = 0

PoolInv == PoolTypeOK /\ HardCap /\ Unfunded

IInv == BooksTypeOK /\ HardCap /\ Unfunded /\ Lifecycle

-----------------------------------------------------------------------------
\* Budget that leaves the reserved counter, for paid or for good, keeps the row sound.
LEMMA RowMoves ==
    ASSUME NEW r \in Row, NEW held \in Nat, held <= r.reserved,
           r.amount >= r.paid + r.reserved
    PROVE  /\ [r EXCEPT !.reserved = @ - held] \in Row
           /\ [r EXCEPT !.reserved = @ - held, !.paid = @ + held] \in Row
           /\ r.amount >= r.paid + (r.reserved - held)
           /\ r.amount >= (r.paid + held) + (r.reserved - held)
<1> DEFINE freed == [r EXCEPT !.reserved = @ - held]
<1>1. /\ freed \in Row /\ freed.paid = r.paid
      /\ r.amount >= r.paid + (r.reserved - held)
      /\ r.amount >= (r.paid + held) + (r.reserved - held)
  BY DEF Row
<1>2. ASSUME NEW s \in Row PROVE [s EXCEPT !.paid = r.paid + held] \in Row
  BY DEF Row
<1> QED  BY <1>1, <1>2

\* The pool's own functions keep its types and the hard cap.
LEMMA PoolStepSafe ==
    ASSUME PoolInv, [PoolNext]_poolVars
    PROVE  PoolInv'
<1> USE DailyPoolAssumption DEF PoolInv, PoolTypeOK, HardCap, Unfunded, Row, Entry, poolVars
<1>1. CASE EnsureDay
  <2>1. row' \in Row /\ HardCap' /\ Unfunded'
    BY <1>1 DEF EnsureDay, EnsuredRow
  <2>2. ledger' = ledger
    BY <1>1 DEF EnsureDay
  <2> QED  BY <2>1, <2>2
<1>2. ASSUME NEW p \in Positions, PoolCommit(p) PROVE PoolInv'
  <2>0. Outstanding(p) \in Int /\ ledger[p] \in Entry /\ row \in Row
    BY DEF Outstanding
  <2>1. CASE Outstanding(p) > 0
    <3>1. /\ Outstanding(p) \in Nat /\ Outstanding(p) <= row.reserved
          /\ row' = [row EXCEPT !.reserved = @ - Outstanding(p), !.paid = @ + Outstanding(p)]
          /\ ledger' = [ledger EXCEPT ![p].commit = @ + Outstanding(p)]
      BY <1>2, <2>0, <2>1 DEF PoolCommit
    <3>2. row.exists
      BY <2>0, <2>1, <3>1
    <3>3. row' \in Row /\ HardCap' /\ Unfunded'
      BY <2>0, <3>1, <3>2, RowMoves
    <3>4. ledger' \in [Positions -> Entry]
      BY <2>0, <3>1
    <3> QED  BY <3>3, <3>4
  <2>2. CASE ~(Outstanding(p) > 0)
    BY <1>2, <2>2 DEF PoolCommit
  <2> QED  BY <2>1, <2>2
<1>3. ASSUME NEW p \in Positions, PoolRelease(p) PROVE PoolInv'
  <2>0. Outstanding(p) \in Int /\ ledger[p] \in Entry /\ row \in Row
    BY DEF Outstanding
  <2>1. CASE Outstanding(p) > 0
    <3>1. /\ Outstanding(p) \in Nat /\ Outstanding(p) <= row.reserved
          /\ row' = [row EXCEPT !.reserved = @ - Outstanding(p)]
          /\ ledger' = [ledger EXCEPT ![p].release = @ + Outstanding(p)]
      BY <1>3, <2>0, <2>1 DEF PoolRelease
    <3>2. row.exists
      BY <2>0, <2>1, <3>1
    <3>3. row' \in Row /\ HardCap' /\ Unfunded'
      BY <2>0, <3>1, <3>2, RowMoves
    <3>4. ledger' \in [Positions -> Entry]
      BY <2>0, <3>1
    <3> QED  BY <3>3, <3>4
  <2>2. CASE ~(Outstanding(p) > 0)
    BY <1>3, <2>2 DEF PoolRelease
  <2> QED  BY <2>1, <2>2
<1>4. ASSUME NEW p \in Positions, NEW amount \in Nat, PoolReserve(p, amount)
      PROVE  PoolInv'
  BY <1>4 DEF PoolReserve, Grant, Available
<1>5. ASSUME NEW amount \in Amounts, TopupToday(amount) PROVE PoolInv'
  <2>1. EnsuredRow \in Row /\ EnsuredRow.exists /\ amount \in Nat
        /\ EnsuredRow.amount >= EnsuredRow.paid + EnsuredRow.reserved
    BY DEF EnsuredRow
  <2>2. row' \in Row /\ HardCap' /\ Unfunded'
    <3> DEFINE e == EnsuredRow
               raised == IF e.amount >= amount THEN e.amount ELSE amount
    <3>1. row' = [e EXCEPT !.amount = raised]
      BY <1>5 DEF TopupToday
    <3>2. raised \in Nat /\ raised >= e.amount
      BY <2>1
    <3> HIDE DEF e, raised
    <3>3. e \in Row /\ e.exists /\ e.amount >= e.paid + e.reserved
      BY <2>1 DEF e
    <3> QED  BY <3>1, <3>2, <3>3
  <2>3. ledger' = ledger
    BY <1>5 DEF TopupToday
  <2> QED  BY <2>2, <2>3
<1>6. ASSUME NEW amount \in Amounts, AdminSetPool(amount) PROVE PoolInv'
  <2>1. amount \in Nat /\ row \in Row /\ amount >= row.paid + row.reserved
    BY <1>6 DEF AdminSetPool
  <2>2. row' = [row EXCEPT !.exists = TRUE, !.amount = amount] /\ ledger' = ledger
    BY <1>6 DEF AdminSetPool
  <2>3. row' \in Row /\ HardCap' /\ Unfunded'
    BY <2>1, <2>2
  <2> QED  BY <2>2, <2>3
<1>7. CASE UNCHANGED poolVars
  BY <1>7
<1> QED  BY <1>1, <1>2, <1>3, <1>4, <1>5, <1>6, <1>7 DEF PoolNext

-----------------------------------------------------------------------------
(* What the helpers of the actions do, stated once.                        *)

Handlers == [at : Steps, amount : Nat, spent : Nat, payout : Nat]
Trades == [status : {"none", "open", "settled"}, payout : Nat]
Others(p) == Positions \ {p}

\* Goto moves one handler and keeps its payout.
LEMMA GotoMoves ==
    ASSUME handler \in [Positions -> Handlers], NEW p \in Positions,
           NEW step \in Steps, Goto(p, step)
    PROVE  /\ handler' \in [Positions -> Handlers]
           /\ handler'[p].at = step /\ handler'[p].payout = handler[p].payout
           /\ \A q \in Others(p) : handler'[q] = handler[q]
  BY DEF Goto, Handlers, Others

\* Rest moves one handler and leaves it with the payout it is given.
LEMMA RestMoves ==
    ASSUME handler \in [Positions -> Handlers], NEW p \in Positions,
           NEW step \in Steps, NEW payout \in Nat, Rest(p, step, payout)
    PROVE  /\ handler' \in [Positions -> Handlers]
           /\ handler'[p].at = step /\ handler'[p].payout = payout
           /\ \A q \in Others(p) : handler'[q] = handler[q]
<1> DEFINE rest == [at |-> step, amount |-> 0, spent |-> 0, payout |-> payout]
<1>1. handler' = [handler EXCEPT ![p] = rest]
  BY DEF Rest
<1>2. rest \in Handlers /\ rest.at = step /\ rest.payout = payout
  BY DEF Handlers
<1> HIDE DEF rest
<1> QED  BY <1>1, <1>2 DEF Others

\* fn_settle_position touches one position, and only while it is open.
LEMMA SettleMoves ==
    ASSUME position \in [Positions -> Trades], NEW p \in Positions, NEW payout \in Nat,
           SettlePosition(p, payout)
    PROVE  /\ position' \in [Positions -> Trades]
           /\ position[p].status = "open" =>
                position'[p].status = "settled" /\ position'[p].payout = payout
           /\ position[p].status # "open" => position'[p] = position[p]
           /\ \A q \in Others(p) : position'[q] = position[q]
<1>1. CASE position[p].status = "open"
  <2> DEFINE paid == [status |-> "settled", payout |-> payout]
  <2>1. position' = [position EXCEPT ![p] = paid]
    BY <1>1 DEF SettlePosition
  <2>2. paid \in Trades /\ paid.status = "settled" /\ paid.payout = payout
    BY DEF Trades
  <2> HIDE DEF paid
  <2> QED  BY <1>1, <2>1, <2>2 DEF Others
<1>2. CASE position[p].status # "open"
  BY <1>2 DEF SettlePosition, Others
<1> QED  BY <1>1, <1>2

\* A step that moves one trade leaves the others in step.
LEMMA OneTradeMoves ==
    ASSUME Lifecycle, NEW p \in Positions, Local(p)',
           \A q \in Others(p) : ledger'[q] = ledger[q] /\ position'[q] = position[q]
                              /\ decision'[q] = decision[q] /\ handler'[q] = handler[q]
    PROVE  Lifecycle'
<1>1. ASSUME NEW q \in Others(p) PROVE Local(q)'
  BY <1>1 DEF Others, Lifecycle, Local, WholeMoves, CommitFollows, WinIsHeld,
              PaysDecision, Fresh, HandlerInStep, At
<1> QED  BY <1>1 DEF Lifecycle, Others

\* What the ledger entry of p becomes in each of the pool's functions.
LEMMA ReserveMoves ==
    ASSUME PoolTypeOK, NEW p \in Positions, NEW amount \in Nat, PoolReserve(p, amount)
    PROVE  /\ Grant(p, amount) \in Nat
           /\ Grant(p, amount) > 0 =>
                ledger'[p] = [ledger[p] EXCEPT !.reserve = Grant(p, amount)]
           /\ Grant(p, amount) = 0 => ledger'[p] = ledger[p]
           /\ \A q \in Others(p) : ledger'[q] = ledger[q]
<1> USE DEF PoolTypeOK, Row, Entry, Others, poolVars
<1>1. Grant(p, amount) \in Nat /\ (ledger[p].reserve > 0 => Grant(p, amount) = ledger[p].reserve)
  BY DEF Grant, Available
<1>2. ledger[p] \in Entry /\ ledger[p] = [ledger[p] EXCEPT !.reserve = ledger[p].reserve]
  OBVIOUS
<1> HIDE DEF Entry, Row
<1> QED  BY <1>1, <1>2 DEF PoolReserve, Entry

\* fn_pool_commit and fn_pool_release leave nothing outstanding of a grant that
\* had not left yet, and do nothing to one that had.
LEMMA CommitWhole ==
    ASSUME PoolTypeOK, NEW p \in Positions, WholeMoves(p), ledger[p].release = 0,
           PoolCommit(p)
    PROVE  /\ ledger'[p].reserve = ledger[p].reserve /\ ledger'[p].release = 0
           /\ ledger'[p].commit = ledger[p].reserve
           /\ \A q \in Others(p) : ledger'[q] = ledger[q]
<1>1. ledger[p] \in Entry /\ Outstanding(p) \in Int
  BY DEF PoolTypeOK, Entry, Outstanding
<1>2. CASE Outstanding(p) > 0
  BY <1>1, <1>2 DEF PoolCommit, PoolTypeOK, Others, WholeMoves, Outstanding, Entry
<1>3. CASE ~(Outstanding(p) > 0)
  BY <1>1, <1>3 DEF PoolCommit, PoolTypeOK, Others, WholeMoves, Outstanding, Entry, poolVars
<1> QED  BY <1>2, <1>3

\* fn_pool_release leaves nothing held of a grant that had not left yet.
LEMMA ReleaseWhole ==
    ASSUME PoolTypeOK, NEW p \in Positions, WholeMoves(p), ledger[p].commit = 0,
           PoolRelease(p)
    PROVE  /\ ledger'[p].reserve = ledger[p].reserve /\ ledger'[p].commit = 0
           /\ ledger'[p].release = ledger[p].reserve
           /\ \A q \in Others(p) : ledger'[q] = ledger[q]
<1>1. ledger[p] \in Entry /\ Outstanding(p) \in Int
  BY DEF PoolTypeOK, Entry, Outstanding
<1>2. CASE Outstanding(p) > 0
  BY <1>1, <1>2 DEF PoolRelease, PoolTypeOK, Others, WholeMoves, Outstanding, Entry
<1>3. CASE ~(Outstanding(p) > 0)
  BY <1>1, <1>3 DEF PoolRelease, PoolTypeOK, Others, WholeMoves, Outstanding, Entry, poolVars
<1> QED  BY <1>2, <1>3

-----------------------------------------------------------------------------
(* Each action keeps the types of the trade's rows and Lifecycle.          *)

TradeTypes ==
    /\ position \in [Positions -> Trades]
    /\ decision \in [Positions -> Nat \union {Unset}]
    /\ handler \in [Positions -> Handlers]

TradesInStep == TradeTypes /\ Lifecycle

\* Open: fn_open_position takes the stake and the trade has no hold yet.
LEMMA OpenInStep ==
    ASSUME PoolTypeOK, TradesInStep, NEW p \in Positions, Open(p)
    PROVE  TradesInStep'
<1> USE DEF TradesInStep, TradeTypes
<1>1. /\ handler' \in [Positions -> Handlers] /\ handler'[p].at = "opened"
      /\ \A q \in Others(p) : handler'[q] = handler[q]
  BY GotoMoves DEF Open, Steps, Opening
<1>2. /\ position' \in [Positions -> Trades] /\ position'[p].status = "open"
      /\ \A q \in Others(p) : position'[q] = position[q]
  BY DEF Open, Trades, Others
<1>3. UNCHANGED <<ledger, decision>> /\ ledger[p] = NoEntry /\ decision[p] = Unset
  BY DEF Open, Lifecycle, Local, Fresh
<1>4. Local(p)'
  BY <1>1, <1>2, <1>3 DEF Local, WholeMoves, CommitFollows, WinIsHeld, PaysDecision, Fresh,
     HandlerInStep, At, NoEntry, Unset, Undecided, Opening
<1> QED  BY <1>1, <1>2, <1>3, <1>4, OneTradeMoves

\* Reading the pool and the pacing memory moves only the handler.
LEMMA ReadInStep ==
    ASSUME PoolTypeOK, TradesInStep, NEW p \in Positions,
           ReadPool(p) \/ LookUpSession(p) \/ StoreSession(p) \/ SeedTurnover(p)
    PROVE  TradesInStep'
<1> USE DEF TradesInStep, TradeTypes
<1>1. UNCHANGED <<ledger, position, decision>>
  BY DEF ReadPool, EnsureDay, LookUpSession, StoreSession, SeedTurnover
<1>2. /\ handler' \in [Positions -> Handlers]
      /\ handler'[p].at \in Undecided \ {"idle"}
      /\ handler[p].at \in Undecided \ {"idle"}
      /\ \A q \in Others(p) : handler'[q] = handler[q]
  <2>1. CASE ReadPool(p)
    <3>1. EnsuredRow.amount \in Nat /\ EnsuredRow.paid + EnsuredRow.reserved \in Nat
      BY DailyPoolAssumption DEF PoolTypeOK, Row, EnsuredRow
    <3> DEFINE read == [at |-> "pooled", amount |-> EnsuredRow.amount,
                        spent |-> EnsuredRow.paid + EnsuredRow.reserved, payout |-> 0]
    <3>2. handler' = [handler EXCEPT ![p] = read]
      BY <2>1 DEF ReadPool
    <3>3. read \in Handlers /\ read.at = "pooled"
      BY <3>1 DEF Handlers, Steps, Opening
    <3> HIDE DEF read
    <3> QED  BY <2>1, <3>2, <3>3 DEF ReadPool, Others, Undecided, At
  <2>2. CASE LookUpSession(p) \/ StoreSession(p) \/ SeedTurnover(p)
    BY <2>2, GotoMoves DEF LookUpSession, StoreSession, SeedTurnover, Steps, Opening,
       Undecided, At
  <2> QED  BY <2>1, <2>2
<1>3. Local(p)'
  BY <1>1, <1>2 DEF Lifecycle, Local, WholeMoves, CommitFollows, WinIsHeld, PaysDecision,
     Fresh, HandlerInStep, At, NoEntry, Undecided, Opening
<1> QED  BY <1>1, <1>2, <1>3, OneTradeMoves

\* Decide chooses a payout in memory and touches no row.
LEMMA DecideInStep ==
    ASSUME PoolTypeOK, TradesInStep, NEW p \in Positions, Decide(p)
    PROVE  TradesInStep'
<1> USE DEF TradesInStep, TradeTypes
<1>1. UNCHANGED <<ledger, position, decision>>
  BY DEF Decide
<1>2. handler[p].at \in {"turnoverSeed", "sessioned"}
  BY DEF Decide, At
<1>3. /\ handler' \in [Positions -> Handlers]
      /\ \A q \in Others(p) : handler'[q] = handler[q]
      /\ \/ handler'[p].at = "saving" /\ handler'[p].payout = 0
         \/ handler'[p].at = "reserving"
  <2>1. CASE Rest(p, "saving", 0)
    BY <2>1, RestMoves DEF Steps, Opening
  <2>2. ASSUME NEW x \in WinningPayouts(p, Ceiling(p, TurnoverRead(p) + Stake(p))),
               handler' = [handler EXCEPT ![p].at = "reserving", ![p].payout = x]
        PROVE  <1>3!:
    <3>1. x \in Nat
      BY PoolTradesAssumption DEF WinningPayouts
    <3>2. handler[p] \in Handlers
      OBVIOUS
    <3>3. [handler EXCEPT ![p].at = "reserving", ![p].payout = x]
            = [handler EXCEPT ![p] = [handler[p] EXCEPT !.at = "reserving", !.payout = x]]
      OBVIOUS
    <3> QED  BY <2>2, <3>1, <3>2, <3>3 DEF Handlers, Others, Steps, Opening
  <2> QED  BY <2>1, <2>2 DEF Decide
<1>4. Local(p)'
  BY <1>1, <1>2, <1>3 DEF Lifecycle, Local, WholeMoves, CommitFollows, WinIsHeld,
     PaysDecision, Fresh, HandlerInStep, At, NoEntry, Undecided, Opening
<1> QED  BY <1>1, <1>3, <1>4, OneTradeMoves

\* Reserve: the payout a handler keeps is exactly what the ledger granted it.
LEMMA ReserveInStep ==
    ASSUME PoolTypeOK, TradesInStep, NEW p \in Positions, Reserve(p)
    PROVE  TradesInStep'
<1> USE DEF TradesInStep, TradeTypes
<1> DEFINE granted == Grant(p, handler[p].payout)
<1>1. handler[p] \in Handlers /\ handler[p].payout \in Nat /\ handler[p].at = "reserving"
  BY DEF Reserve, At, Handlers
<1>2. /\ ledger[p] = NoEntry /\ decision[p] = Unset /\ position[p].status = "open"
      /\ UNCHANGED <<position, decision>>
  BY <1>1 DEF Reserve, Lifecycle, Local, HandlerInStep, At, Undecided, Opening
<1>3. /\ granted \in Nat
      /\ granted > 0 => ledger'[p] = [ledger[p] EXCEPT !.reserve = granted]
      /\ granted = 0 => ledger'[p] = ledger[p]
      /\ \A q \in Others(p) : ledger'[q] = ledger[q]
  BY <1>1, ReserveMoves DEF Reserve
<1>4. /\ handler' \in [Positions -> Handlers]
      /\ \A q \in Others(p) : handler'[q] = handler[q]
      /\ \/ handler'[p].at = "saving" /\ handler'[p].payout \in {0, granted}
         \/ handler'[p].at = "releasing"
  <2>1. Rest(p, "saving", granted) \/ Rest(p, "saving", 0) \/ Rest(p, "releasing", 0)
    BY DEF Reserve
  <2> HIDE DEF granted
  <2> QED  BY <1>3, <2>1, RestMoves DEF Steps, Opening
<1>5. /\ granted > 0 => ledger'[p].reserve = granted /\ ledger'[p].commit = 0
                        /\ ledger'[p].release = 0
      /\ granted = 0 => ledger'[p] = NoEntry
  BY <1>2, <1>3 DEF NoEntry
<1> HIDE DEF granted
<1>6. Local(p)'
  BY <1>2, <1>3, <1>4, <1>5 DEF Local, WholeMoves, CommitFollows, WinIsHeld,
     PaysDecision, Fresh, HandlerInStep, At, NoEntry, Unset, Undecided, Opening
<1> QED  BY <1>2, <1>3, <1>4, <1>6, OneTradeMoves

\* ReleaseHold: a refused grant leaves whole and the trade is decided a loss.
LEMMA ReleaseHoldInStep ==
    ASSUME PoolTypeOK, TradesInStep, NEW p \in Positions, ReleaseHold(p)
    PROVE  TradesInStep'
<1> USE DEF TradesInStep, TradeTypes
<1>1. /\ handler[p].at = "releasing" /\ decision[p] = Unset /\ position[p].status = "open"
      /\ UNCHANGED <<position, decision>>
  BY DEF ReleaseHold, Lifecycle, Local, HandlerInStep, At, Opening
<1>2. /\ handler' \in [Positions -> Handlers]
      /\ handler'[p].at = "saving" /\ handler'[p].payout = 0
      /\ \A q \in Others(p) : handler'[q] = handler[q]
  BY RestMoves DEF ReleaseHold, Steps, Opening
<1>3. /\ ledger[p].commit = 0 /\ WholeMoves(p)
  BY <1>1 DEF Lifecycle, Local, CommitFollows, PoolTypeOK, Entry
<1>4. WholeMoves(p)' /\ ledger'[p].commit = 0
      /\ \A q \in Others(p) : ledger'[q] = ledger[q]
  BY <1>3, ReleaseWhole DEF ReleaseHold, WholeMoves
<1>5. Local(p)'
  BY <1>1, <1>2, <1>4 DEF Local, CommitFollows, WinIsHeld, PaysDecision, Fresh,
     HandlerInStep, At, Unset, Undecided, Opening
<1> QED  BY <1>1, <1>2, <1>4, <1>5, OneTradeMoves

\* SaveDecision: the saved payout is the one the ledger still holds.
LEMMA SaveDecisionInStep ==
    ASSUME PoolTypeOK, TradesInStep, NEW p \in Positions, SaveDecision(p)
    PROVE  TradesInStep'
<1> USE DEF TradesInStep, TradeTypes
<1>1. /\ handler[p].at = "saving" /\ handler[p].payout \in Nat
      /\ decision[p] = Unset /\ position[p].status = "open"
      /\ UNCHANGED <<ledger, position>>
  BY DEF SaveDecision, Lifecycle, Local, HandlerInStep, At, Opening, Handlers
<1>2. /\ decision' \in [Positions -> Nat \union {Unset}]
      /\ decision'[p] = handler[p].payout
      /\ \A q \in Others(p) : decision'[q] = decision[q]
  BY <1>1 DEF SaveDecision, Others
<1>3. /\ handler' \in [Positions -> Handlers]
      /\ handler'[p].at = "live" /\ handler'[p].payout = handler[p].payout
      /\ \A q \in Others(p) : handler'[q] = handler[q]
  BY GotoMoves DEF SaveDecision, Steps
<1>4. ledger[p].commit = 0
  BY <1>1 DEF Lifecycle, Local, CommitFollows, PoolTypeOK, Entry
<1>5. Local(p)'
  BY <1>1, <1>2, <1>3, <1>4 DEF Lifecycle, Local, WholeMoves, CommitFollows, WinIsHeld,
     PaysDecision, Fresh, HandlerInStep, At, Undecided, Opening
<1> QED  BY <1>1, <1>2, <1>3, <1>5, OneTradeMoves

\* Settle pays the saved decision, if the trade has one, and only once.
LEMMA SettleInStep ==
    ASSUME PoolTypeOK, TradesInStep, NEW p \in Positions, Settle(p)
    PROVE  TradesInStep'
<1> USE DEF TradesInStep, TradeTypes
<1>1. /\ handler[p].at = "live" /\ handler[p].payout \in Nat
      /\ decision[p] \in {Unset, handler[p].payout}
      /\ position[p].status \in {"open", "settled"}
      /\ UNCHANGED <<ledger, decision>>
  BY DEF Settle, Lifecycle, Local, Fresh, HandlerInStep, At, Handlers, Trades
<1>2. /\ handler' \in [Positions -> Handlers]
      /\ handler'[p].at = "settled" /\ handler'[p].payout = handler[p].payout
      /\ \A q \in Others(p) : handler'[q] = handler[q]
  BY GotoMoves DEF Settle, Steps
<1>3. /\ position' \in [Positions -> Trades] /\ position'[p].status = "settled"
      /\ decision[p] # Unset => position'[p].payout = decision[p]
      /\ CommitFollows(p)'
      /\ \A q \in Others(p) : position'[q] = position[q]
  <2>1. /\ position' \in [Positions -> Trades]
        /\ position[p].status = "open" => position'[p].status = "settled"
                                       /\ position'[p].payout = handler[p].payout
        /\ position[p].status # "open" => position'[p] = position[p]
        /\ \A q \in Others(p) : position'[q] = position[q]
    BY <1>1, SettleMoves DEF Settle
  <2> QED  BY <1>1, <2>1 DEF Lifecycle, Local, PaysDecision, CommitFollows, Unset
<1>4. Local(p)'
  BY <1>1, <1>2, <1>3 DEF Lifecycle, Local, WholeMoves, CommitFollows, WinIsHeld,
     PaysDecision, Fresh, HandlerInStep, At, Unset, Undecided, Opening
<1> QED  BY <1>1, <1>2, <1>3, <1>4, OneTradeMoves

\* SettleSession: only a settled win of the pool goes on to its commit.
LEMMA SettleSessionInStep ==
    ASSUME PoolTypeOK, TradesInStep, NEW p \in Positions, SettleSession(p)
    PROVE  TradesInStep'
<1> USE DEF TradesInStep, TradeTypes
<1>1. /\ handler[p].at = "settled" /\ decision[p] \in {Unset, handler[p].payout}
      /\ position[p].status = "settled" /\ UNCHANGED <<ledger, position, decision>>
  BY DEF SettleSession, Lifecycle, Local, HandlerInStep, At
<1>2. /\ handler' \in [Positions -> Handlers]
      /\ \A q \in Others(p) : handler'[q] = handler[q]
      /\ \/ handler'[p].at = "committing" /\ handler'[p].payout = handler[p].payout
            /\ handler[p].payout > 0 /\ decision[p] # Unset
         \/ handler'[p].at = "done"
  BY GotoMoves, RestMoves DEF SettleSession, PoolControlled, Steps
<1>3. Local(p)'
  BY <1>1, <1>2 DEF Lifecycle, Local, WholeMoves, CommitFollows, WinIsHeld,
     PaysDecision, Fresh, HandlerInStep, At, Undecided, Opening
<1> QED  BY <1>1, <1>2, <1>3, OneTradeMoves

\* A commit that reaches the pool: the payout is the saved decision, its hold is
\* whole, and the position was settled for it.
LEMMA CommitKeepsLocal ==
    ASSUME PoolTypeOK, TradesInStep, NEW p \in Positions, At(p, "committing"),
           PoolCommit(p), UNCHANGED <<position, decision>>, handler'[p].at = "done"
    PROVE  Local(p)' /\ \A q \in Others(p) : ledger'[q] = ledger[q]
<1>1. /\ position[p].status = "settled" /\ decision[p] > 0 /\ decision[p] # Unset
      /\ ledger[p].reserve = decision[p] /\ ledger[p].release = 0
      /\ position[p].payout = decision[p] /\ WholeMoves(p)
  <2>1. decision[p] = handler[p].payout /\ decision[p] > 0 /\ handler[p].payout \in Nat
    BY DEF TradesInStep, TradeTypes, Handlers, Lifecycle, Local, HandlerInStep, At
  <2> QED  BY <2>1 DEF TradesInStep, Lifecycle, Local, HandlerInStep, WinIsHeld,
              PaysDecision, Unset, At
<1>2. /\ ledger'[p].reserve = decision[p] /\ ledger'[p].release = 0
      /\ ledger'[p].commit = decision[p]
      /\ \A q \in Others(p) : ledger'[q] = ledger[q]
  BY <1>1, CommitWhole
<1>3. decision[p] \in Nat /\ position' = position /\ decision' = decision
  BY <1>1 DEF TradesInStep, TradeTypes
<1>4. WholeMoves(p)' /\ CommitFollows(p)' /\ WinIsHeld(p)' /\ PaysDecision(p)'
  BY <1>1, <1>2, <1>3 DEF WholeMoves, CommitFollows, WinIsHeld, PaysDecision
<1>5. Fresh(p)' /\ HandlerInStep(p)'
  BY <1>1, <1>3 DEF Fresh, HandlerInStep, At, Undecided, Opening
<1> QED  BY <1>2, <1>4, <1>5 DEF Local

\* Commit moves the hold of a settled win to paid and touches no other trade.
LEMMA CommitInStep ==
    ASSUME PoolTypeOK, TradesInStep, NEW p \in Positions, Commit(p)
    PROVE  TradesInStep'
<1>1. /\ handler' \in [Positions -> Handlers] /\ handler'[p].at = "done"
      /\ \A q \in Others(p) : handler'[q] = handler[q]
  BY RestMoves DEF TradesInStep, TradeTypes, Commit, Steps
<1>2. UNCHANGED <<position, decision>>
  BY DEF Commit
<1>3. Local(p)' /\ \A q \in Others(p) : ledger'[q] = ledger[q]
  BY <1>1, <1>2, CommitKeepsLocal DEF Commit
<1> QED  BY <1>1, <1>2, <1>3, OneTradeMoves DEF TradesInStep, TradeTypes

\* RecoverDecided settles from the saved decision or re-arms the trade with it.
LEMMA RecoverDecidedInStep ==
    ASSUME PoolTypeOK, TradesInStep, NEW p \in Positions, RecoverDecided(p)
    PROVE  TradesInStep'
<1> USE DEF TradesInStep, TradeTypes
<1>1. /\ handler[p].at = "recovering" /\ decision[p] \in Nat /\ decision[p] # Unset
      /\ position[p].status = "open" /\ UNCHANGED <<ledger, decision>>
  BY DEF RecoverDecided, Lifecycle, Local, HandlerInStep, At
<1>2. /\ handler' \in [Positions -> Handlers]
      /\ \A q \in Others(p) : handler'[q] = handler[q]
      /\ position' \in [Positions -> Trades]
      /\ \A q \in Others(p) : position'[q] = position[q]
      /\ \/ /\ position'[p].status = "settled" /\ position'[p].payout = decision[p]
            /\ \/ handler'[p].at = "committing" /\ handler'[p].payout = decision[p]
                  /\ decision[p] > 0
               \/ handler'[p].at = "done"
         \/ /\ position'[p] = position[p]
            /\ handler'[p].at = "live" /\ handler'[p].payout = decision[p]
  <2>1. CASE Rest(p, "live", decision[p]) /\ UNCHANGED position
    BY <1>1, <2>1, RestMoves DEF Steps
  <2>2. CASE /\ SettlePosition(p, decision[p])
             /\ IF decision[p] > 0 THEN Rest(p, "committing", decision[p])
                ELSE Rest(p, "done", 0)
    BY <1>1, <2>2, RestMoves, SettleMoves DEF Steps
  <2> QED  BY <2>1, <2>2 DEF RecoverDecided
<1>3. Local(p)'
  BY <1>1, <1>2 DEF Lifecycle, Local, WholeMoves, CommitFollows, WinIsHeld,
     PaysDecision, Fresh, HandlerInStep, At, Undecided, Opening
<1> QED  BY <1>1, <1>2, <1>3, OneTradeMoves

\* RecoverStatistical pays or re-arms only trades that have no saved decision.
LEMMA RecoverStatisticalInStep ==
    ASSUME PoolTypeOK, TradesInStep, NEW p \in Positions, RecoverStatistical(p)
    PROVE  TradesInStep'
<1> USE DEF TradesInStep, TradeTypes
<1>1. /\ decision[p] = Unset /\ position[p].status = "open" /\ UNCHANGED <<ledger, decision>>
  BY DEF RecoverStatistical, Lifecycle, Local, HandlerInStep, At
<1>2. PICK payout \in Nat : \/ SettlePosition(p, payout) /\ Rest(p, "done", 0)
                            \/ Rest(p, "live", payout) /\ UNCHANGED position
  BY PoolTradesAssumption DEF RecoverStatistical
<1>3. /\ handler' \in [Positions -> Handlers]
      /\ \A q \in Others(p) : handler'[q] = handler[q]
      /\ position' \in [Positions -> Trades]
      /\ \A q \in Others(p) : position'[q] = position[q]
      /\ \/ position'[p].status = "settled" /\ handler'[p].at = "done"
         \/ position'[p] = position[p] /\ handler'[p].at = "live"
  <2>1. CASE SettlePosition(p, payout) /\ Rest(p, "done", 0)
    BY <1>1, <2>1, RestMoves, SettleMoves DEF Steps
  <2>2. CASE Rest(p, "live", payout) /\ UNCHANGED position
    BY <2>2, RestMoves DEF Steps
  <2> QED  BY <1>2, <2>1, <2>2
<1>4. Local(p)'
  BY <1>1, <1>3 DEF Lifecycle, Local, WholeMoves, CommitFollows, WinIsHeld,
     PaysDecision, Fresh, HandlerInStep, At, Undecided, Opening
<1> QED  BY <1>1, <1>3, <1>4, OneTradeMoves

\* A thrown call: what took effect before the reply was lost, one case each.
LEMMA FaultInStep ==
    ASSUME PoolTypeOK, TradesInStep, NEW p \in Positions, Fault(p)
    PROVE  TradesInStep'
<1> USE DEF TradesInStep, TradeTypes
<1>1. /\ handler[p] \in Handlers /\ handler[p].payout \in Nat
      /\ handler[p].at \notin {"settled", "done", "failed"}
      /\ Local(p) /\ decision[p] \in Nat \union {Unset} /\ position[p] \in Trades
  BY DEF Fault, CallPending, Lifecycle, At, Handlers
<1>2. /\ handler' \in [Positions -> Handlers]
      /\ \A q \in Others(p) : handler'[q] = handler[q]
      /\ \/ At(p, "live") /\ handler' = handler
         \/ At(p, "committing") /\ handler'[p].at = "done"
         \/ ~At(p, "live") /\ ~At(p, "committing") /\ handler'[p].at = "failed"
  BY RestMoves DEF Fault, Steps, Others
<1> DEFINE Quiet == \A q \in Others(p) : /\ ledger'[q] = ledger[q] /\ decision'[q] = decision[q]
                                         /\ position'[q] = position[q]
           Typed == /\ position' \in [Positions -> Trades]
                    /\ decision' \in [Positions -> Nat \union {Unset}]
<1>3. CASE UNCHANGED <<row, ledger, position, decision>>
  <2>1. Local(p)'
    BY <1>1, <1>2, <1>3 DEF Local, WholeMoves, CommitFollows, WinIsHeld,
       PaysDecision, Fresh, HandlerInStep, At, Undecided, Opening
  <2> QED  BY <1>2, <1>3, <2>1, OneTradeMoves
<1>4. CASE At(p, "opened") /\ EnsureDay /\ UNCHANGED <<position, decision>>
  <2>1. UNCHANGED <<ledger, position, decision>>
    BY <1>4 DEF EnsureDay
  <2>2. Local(p)'
    BY <1>1, <1>2, <2>1 DEF Local, WholeMoves, CommitFollows, WinIsHeld,
       PaysDecision, Fresh, HandlerInStep, At, Undecided, Opening
  <2> QED  BY <1>2, <2>1, <2>2, OneTradeMoves
<1>5. CASE At(p, "reserving") /\ PoolReserve(p, handler[p].payout)
           /\ UNCHANGED <<position, decision>>
  <2>1. ledger[p] = NoEntry /\ decision[p] = Unset /\ position[p].status = "open"
        /\ handler'[p].at = "failed"
    BY <1>1, <1>2, <1>5 DEF Local, HandlerInStep, At, Undecided, Opening
  <2>2. ledger'[p].commit = 0 /\ ledger'[p].release = 0
        /\ \A q \in Others(p) : ledger'[q] = ledger[q]
    <3> DEFINE granted == Grant(p, handler[p].payout)
    <3>1. /\ granted \in Nat
          /\ granted > 0 => ledger'[p] = [NoEntry EXCEPT !.reserve = granted]
          /\ granted = 0 => ledger'[p] = NoEntry
          /\ \A q \in Others(p) : ledger'[q] = ledger[q]
      BY <1>1, <1>5, <2>1, ReserveMoves
    <3> HIDE DEF granted
    <3> QED  BY <3>1 DEF NoEntry
  <2>3. Local(p)'
    BY <1>5, <2>1, <2>2 DEF Local, WholeMoves, CommitFollows, WinIsHeld,
       PaysDecision, Fresh, HandlerInStep, At, Undecided, Opening, Unset
  <2> QED  BY <1>2, <1>5, <2>2, <2>3, OneTradeMoves
<1>6. CASE At(p, "releasing") /\ PoolRelease(p) /\ UNCHANGED <<position, decision>>
  <2>1. ledger[p].commit = 0 /\ WholeMoves(p) /\ decision[p] = Unset
        /\ position[p].status = "open" /\ handler'[p].at = "failed"
    BY <1>1, <1>2, <1>6 DEF Local, CommitFollows, HandlerInStep, At, Opening, PoolTypeOK, Entry
  <2>2. WholeMoves(p)' /\ ledger'[p].commit = 0
        /\ \A q \in Others(p) : ledger'[q] = ledger[q]
    BY <1>6, <2>1, ReleaseWhole DEF WholeMoves
  <2>3. Local(p)'
    BY <1>6, <2>1, <2>2 DEF Local, CommitFollows, WinIsHeld,
       PaysDecision, Fresh, HandlerInStep, At, Undecided, Opening, Unset
  <2> QED  BY <1>2, <1>6, <2>2, <2>3, OneTradeMoves
<1>7. CASE At(p, "committing") /\ PoolCommit(p) /\ UNCHANGED <<position, decision>>
  <2>1. handler'[p].at = "done"
    BY <1>2, <1>7 DEF At
  <2>2. Local(p)' /\ \A q \in Others(p) : ledger'[q] = ledger[q]
    BY <1>7, <2>1, CommitKeepsLocal
  <2> QED  BY <1>2, <1>7, <2>2, OneTradeMoves
<1>8. CASE /\ At(p, "saving") /\ UNCHANGED <<row, ledger, position>>
           /\ decision' = [decision EXCEPT ![p] = IF @ = Unset THEN handler[p].payout ELSE @]
  <2>1. decision[p] = Unset /\ position[p].status = "open" /\ handler'[p].at = "failed"
    BY <1>1, <1>2, <1>8 DEF Local, HandlerInStep, At, Opening
  <2>2. decision' \in [Positions -> Nat \union {Unset}] /\ decision'[p] = handler[p].payout
        /\ \A q \in Others(p) : decision'[q] = decision[q]
    BY <1>1, <1>8, <2>1 DEF Others
  <2>3. ledger[p].commit = 0
    BY <1>1, <2>1 DEF Local, CommitFollows, PoolTypeOK, Entry
  <2>4. Local(p)'
    BY <1>1, <1>8, <2>1, <2>2, <2>3 DEF Local, WholeMoves, CommitFollows, WinIsHeld,
       PaysDecision, Fresh, HandlerInStep, At, Undecided, Opening
  <2> QED  BY <1>2, <1>8, <2>2, <2>4, OneTradeMoves
<1>9. CASE At(p, "live") /\ SettlePosition(p, handler[p].payout)
           /\ UNCHANGED <<row, ledger, decision>>
  <2>1. handler' = handler /\ decision[p] \in {Unset, handler[p].payout}
    BY <1>1, <1>2, <1>9 DEF Local, HandlerInStep, At
  <2>2. /\ position' \in [Positions -> Trades]
        /\ position[p].status = "open" => position'[p].status = "settled"
                                       /\ position'[p].payout = handler[p].payout
        /\ position[p].status # "open" => position'[p] = position[p]
        /\ \A q \in Others(p) : position'[q] = position[q]
    BY <1>1, <1>9, SettleMoves
  <2>3. Local(p)'
    BY <1>1, <1>9, <2>1, <2>2 DEF Local, WholeMoves, CommitFollows, WinIsHeld,
       PaysDecision, Fresh, HandlerInStep, At, Undecided, Opening
  <2> QED  BY <1>2, <1>9, <2>2, <2>3, OneTradeMoves
<1>10. ASSUME NEW payout \in Nat, At(p, "recovering"), SettlePosition(p, payout),
              decision[p] # Unset => payout = decision[p],
              UNCHANGED <<row, ledger, decision>>
       PROVE  TradesInStep'
  <2>1. position[p].status = "open" /\ handler'[p].at = "failed"
    BY <1>1, <1>2, <1>10 DEF Local, HandlerInStep, At
  <2>2. /\ position' \in [Positions -> Trades] /\ position'[p].status = "settled"
        /\ position'[p].payout = payout
        /\ \A q \in Others(p) : position'[q] = position[q]
    BY <1>10, <2>1, SettleMoves
  <2>3. Local(p)'
    BY <1>1, <1>10, <2>1, <2>2 DEF Local, WholeMoves, CommitFollows, WinIsHeld,
       PaysDecision, Fresh, HandlerInStep, At, Undecided, Opening
  <2> QED  BY <1>2, <1>10, <2>2, <2>3, OneTradeMoves
<1>11. CASE At(p, "idle") /\ position' = [position EXCEPT ![p].status = "open"]
            /\ UNCHANGED <<row, ledger, decision>>
  <2>1. ledger[p] = NoEntry /\ decision[p] = Unset /\ handler'[p].at = "failed"
    BY <1>1, <1>2, <1>11 DEF Local, HandlerInStep, At, Undecided
  <2>2. /\ position' \in [Positions -> Trades] /\ position'[p].status = "open"
        /\ \A q \in Others(p) : position'[q] = position[q]
    BY <1>11 DEF Trades, Others
  <2>3. Local(p)'
    BY <1>11, <2>1, <2>2 DEF Local, WholeMoves, CommitFollows, WinIsHeld,
       PaysDecision, Fresh, HandlerInStep, At, Undecided, Opening, NoEntry, Unset
  <2> QED  BY <1>2, <1>11, <2>2, <2>3, OneTradeMoves
<1>12. CASE At(p, "recovering") /\ decision[p] = Unset
            /\ (\E payout \in 0..Contract[p].most : SettlePosition(p, payout))
            /\ UNCHANGED <<row, ledger, decision>>
  BY <1>10, <1>12, PoolTradesAssumption
<1>13. CASE At(p, "recovering") /\ decision[p] # Unset /\ SettlePosition(p, decision[p])
            /\ UNCHANGED <<row, ledger, decision>>
  BY <1>1, <1>10, <1>13
<1> QED  BY <1>3, <1>4, <1>5, <1>6, <1>7, <1>8, <1>9, <1>11, <1>12, <1>13
         DEF Fault, ReplyLost

\* A restart forgets every handler and lists what the rows say is open.
LEMMA RestartInStep ==
    ASSUME PoolTypeOK, TradesInStep, Restart
    PROVE  TradesInStep'
<1> USE DEF TradesInStep, TradeTypes
<1> DEFINE step(p) == CASE position[p].status = "open" -> "recovering"
                        [] position[p].status = "none" -> "idle"
                        [] OTHER -> "done"
           boot(p) == [Idle EXCEPT !.at = step(p)]
<1>1. UNCHANGED <<ledger, position, decision>> /\ handler' = [p \in Positions |-> boot(p)]
  BY DEF Restart
<1>2. ASSUME NEW p \in Positions
      PROVE  /\ boot(p) \in Handlers
             /\ position[p].status = "open" => boot(p).at = "recovering"
             /\ position[p].status = "none" => boot(p).at = "idle"
             /\ position[p].status = "settled" => boot(p).at = "done"
             /\ position[p].status \in {"none", "open", "settled"}
  BY DEF Handlers, Idle, Steps, Trades
<1> HIDE DEF boot, step
<1>3. ASSUME NEW p \in Positions PROVE Local(p)'
  BY <1>1, <1>2 DEF Lifecycle, Local, WholeMoves, CommitFollows, WinIsHeld,
     PaysDecision, Fresh, HandlerInStep, At, Undecided, Opening
<1> QED  BY <1>1, <1>2, <1>3 DEF Lifecycle

-----------------------------------------------------------------------------
(* The step lemmas together.                                               *)

\* Every step of the trades is a step of the day's pool, or leaves it alone.
LEMMA StepIsPoolStep ==
    ASSUME BooksTypeOK, [Next]_vars
    PROVE  [PoolNext]_poolVars
<1> USE DEF PoolNext, poolVars
<1>1. \A p \in Positions : handler[p].payout \in Nat
  BY DEF BooksTypeOK
<1>2. ASSUME NEW p \in Positions, Open(p) PROVE UNCHANGED poolVars
  BY <1>2 DEF Open
<1>3. ASSUME NEW p \in Positions, Proceed(p) PROVE [PoolNext]_poolVars
  <2>1. CASE ReadPool(p) \/ LookUpSession(p) \/ StoreSession(p) \/ SeedTurnover(p) \/ Decide(p)
    BY <2>1 DEF ReadPool, LookUpSession, StoreSession, SeedTurnover, Decide
  <2>2. CASE Reserve(p)
    BY <1>1, <2>2 DEF Reserve
  <2>3. CASE ReleaseHold(p) \/ Commit(p)
    BY <2>3 DEF ReleaseHold, Commit
  <2>4. CASE SaveDecision(p) \/ Settle(p) \/ SettleSession(p)
             \/ RecoverDecided(p) \/ RecoverStatistical(p)
    BY <2>4 DEF SaveDecision, Settle, SettleSession, RecoverDecided, RecoverStatistical
  <2> QED  BY <1>3, <2>1, <2>2, <2>3, <2>4 DEF Proceed
<1>4. ASSUME NEW p \in Positions, Fault(p) PROVE [PoolNext]_poolVars
  BY <1>1, <1>4 DEF Fault, ReplyLost
<1>5. CASE Restart \/ UNCHANGED vars
  BY <1>5 DEF Restart, vars
<1>6. CASE MoveBudget \/ Connect \/ BootStreamers
  BY <1>6 DEF MoveBudget, Connect, BootStreamers
<1> QED  BY <1>2, <1>3, <1>4, <1>5, <1>6 DEF Next

\* A day starts with no row, no hold and no trade in flight.
LEMMA InitInv == Init => IInv
<1> SUFFICES ASSUME Init PROVE IInv
  OBVIOUS
<1>1. PoolTypeOK /\ HardCap /\ Unfunded
  BY DEF Init, PoolInit, PoolTypeOK, HardCap, Unfunded, Row, Entry, NoRow, NoEntry
<1>2. BooksTypeOK
  BY <1>1, PoolTradesAssumption DEF BooksTypeOK, Init, Idle, Unset, Steps
<1>3. Lifecycle
  BY DEF Init, PoolInit, Lifecycle, Local, WholeMoves, CommitFollows, WinIsHeld,
     PaysDecision, Fresh, HandlerInStep, At, Undecided, Opening, NoEntry, Idle, Unset
<1> QED  BY <1>1, <1>2, <1>3 DEF IInv

\* The invariant is inductive: every action of every handler keeps it.
LEMMA StepInv == IInv /\ [Next]_vars => IInv'
<1> SUFFICES ASSUME IInv, [Next]_vars PROVE IInv'
  OBVIOUS
<1>1. BooksTypeOK /\ PoolTypeOK /\ TradesInStep
  BY DEF IInv, BooksTypeOK, TradesInStep, TradeTypes, Trades, Handlers
<1>2. PoolInv'
  BY <1>1, StepIsPoolStep, PoolStepSafe DEF IInv, PoolInv
<1>3. TradesInStep'
  <2>1. ASSUME NEW p \in Positions, Proceed(p) PROVE TradesInStep'
    BY <1>1, <2>1, ReadInStep, DecideInStep, ReserveInStep, ReleaseHoldInStep,
       SaveDecisionInStep, SettleInStep, SettleSessionInStep, CommitInStep,
       RecoverDecidedInStep, RecoverStatisticalInStep DEF Proceed
  <2>2. ASSUME NEW p \in Positions, Open(p) \/ Fault(p) PROVE TradesInStep'
    BY <1>1, <2>2, OpenInStep, FaultInStep
  <2>3. CASE Restart
    BY <1>1, <2>3, RestartInStep
  <2>4. CASE MoveBudget \/ Connect \/ BootStreamers \/ UNCHANGED vars
    <3>1. UNCHANGED <<ledger, position, decision, handler>>
      BY <2>4 DEF MoveBudget, TopupToday, AdminSetPool, Connect, BootStreamers, tradeVars, vars
    <3> QED  BY <1>1, <3>1 DEF TradesInStep, TradeTypes, Lifecycle, Local, WholeMoves,
             CommitFollows, WinIsHeld, PaysDecision, Fresh, HandlerInStep, At
  <2> QED  BY <2>1, <2>2, <2>3, <2>4 DEF Next
<1>4. faults' \in 0..MaxFaults /\ restarts' \in 0..MaxRestarts
      /\ loops' \subseteq {"ticks", "streams"} /\ cut' \subseteq Positions
  <2>1. faults \in 0..MaxFaults /\ restarts \in 0..MaxRestarts
        /\ loops \subseteq {"ticks", "streams"} /\ cut \subseteq Positions
    BY <1>1 DEF BooksTypeOK
  <2>2. ASSUME NEW p \in Positions, Fault(p) PROVE <1>4!:
    BY <2>1, <2>2, PoolTradesAssumption DEF Fault
  <2>3. CASE Restart
    BY <2>1, <2>3, PoolTradesAssumption DEF Restart
  <2>4. ASSUME NEW p \in Positions, Open(p) \/ Proceed(p) PROVE <1>4!:
    BY <2>1, <2>4 DEF Open, Proceed, ReadPool, LookUpSession, StoreSession, SeedTurnover,
       Decide, Reserve, ReleaseHold, SaveDecision, StartStreamer, Settle, SettleSession,
       Commit, RecoverDecided, RecoverStatistical
  <2>5. CASE Connect \/ BootStreamers
    BY <2>1, <2>5 DEF Connect, BootStreamers
  <2>6. CASE MoveBudget \/ UNCHANGED vars
    BY <2>1, <2>6 DEF MoveBudget, tradeVars, vars
  <2> QED  BY <2>2, <2>3, <2>4, <2>5, <2>6 DEF Next
<1> QED  BY <1>2, <1>3, <1>4 DEF IInv, PoolInv, BooksTypeOK, TradesInStep, TradeTypes,
         Trades, Handlers

-----------------------------------------------------------------------------
\* The books always have their types, the day's budget covers what it owes, and
\* every trade's handler agrees with its position, decision and ledger rows.
THEOREM Inductive == Spec => []IInv
BY InitInv, StepInv, PTL DEF Spec

\* The hard cap: no interleaving of trades, faults, restarts and operators takes
\* paid + reserved above the day's amount.
THEOREM CapHolds == Spec => []HardCap
<1>1. IInv => HardCap
  BY DEF IInv
<1> QED  BY <1>1, Inductive, PTL

\* A saved win is always backed by its own unreleased reservation.
THEOREM WinsAreBacked == Spec => []Backed
<1>1. IInv => Backed
  BY DEF IInv, Lifecycle, Local, WinIsHeld, Backed
<1> QED  BY <1>1, Inductive, PTL

\* What the pool counts as paid was credited to the player, to the cent.
THEOREM PaidIsCredited == Spec => []PaidWereCredited
<1>1. IInv => PaidWereCredited
  BY DEF IInv, Lifecycle, Local, CommitFollows, PaidWereCredited
<1> QED  BY <1>1, Inductive, PTL

\* A decided trade pays its saved decision, crashes and lost replies included.
THEOREM DecisionsArePaid == Spec => []SettledAsDecided
<1>1. IInv => SettledAsDecided
  BY DEF IInv, Lifecycle, Local, PaysDecision, SettledAsDecided
<1> QED  BY <1>1, Inductive, PTL

\* The trades, crashes and faults included, use the day's pool only as its own
\* functions allow: PoolTrades implements DailyPool's specification.
THEOREM TradesImplementPool == Spec => PoolSpec
<1>1. Init => PoolInit
  BY DEF Init
<1>2. IInv /\ [Next]_vars => [PoolNext]_poolVars
  BY StepIsPoolStep DEF IInv
<1> QED  BY <1>1, <1>2, Inductive, PTL DEF Spec, PoolSpec
=============================================================================
