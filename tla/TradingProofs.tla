---------------------------- MODULE TradingProofs ----------------------------
(***************************************************************************)
(* Proofs about Trading for every set of positions and orders and every    *)
(* bound: types (no bucket goes below zero), a payout goes where its stake *)
(* came from and is what the player was told, no stake is lost from sight, *)
(* an armed order fills once and is not forgotten, an ended one does not   *)
(* fill, and the account keeps the promise of module Stakes.               *)
(*                                                                         *)
(* The inductive invariant says who may settle a position (Tracked) and    *)
(* what an order that may still fill has behind it (Ordered).              *)
(***************************************************************************)
EXTENDS Trading, TLAPS

\* Only the loop, while up, has a call or picked orders; only a boot has rows
\* to recover, and the book is empty then.
Phases ==
    /\ ~Up => call = NoCall /\ due = {} /\ book = {}
    /\ Up => engine.todo = {}

\* Whoever may settle a row finds it open, or knows the reply it lost.
Tracked(p) ==
    /\ row[p].status = "none" => mem[p] = "none"
    /\ p \in revalued => row[p].status = "settled"
    /\ mem[p] = "open" \/ call = [op |-> "settle", pos |-> p]
       => row[p].status = "open" \/ p \in revalued
    /\ call = [op |-> "settle", pos |-> p] => mem[p] = "settled"
    /\ call.op = "open" /\ call.pos = p => row[p].status = "open" /\ mem[p] = "none"
    /\ p \in engine.todo => row[p].status = "open" /\ mem[p] = "none"

Known(p) ==
    row[p].status = "open" =>
        p \in stranded \union engine.todo \/ mem[p] = "open" \/ (call.op # "none" /\ call.pos = p)

Opened(o) == \E p \in Positions : row[p].status # "none" /\ origin[p] = o
Filling(o) == call.op = "open" /\ call.order = o
Armed(o) == o \in book \/ o \in due \/ Filling(o)
CancelExcused(o) == excuse[o] \intersect {"due", "unmarked"} # {}
OpenExcused(o) == excuse[o] \intersect {"reply", "unmarked"} # {}

\* What an order's past must be: while it may still fill, before it was placed,
\* in its row and its writes, and while the engine boots.
MayFill(o) ==
    /\ Armed(o) => asked[o] # "none" /\ orow[o] # "filled"
                   /\ (asked[o] = "canceled" => CancelExcused(o))
    /\ o \in book \/ o \in due \/ (Filling(o) /\ call.pos = "none")
       => ~Opened(o) \/ OpenExcused(o)
    /\ Filling(o) => o \notin book /\ o \notin due /\ (call.pos # "none" => Opened(o))

Recorded(o) ==
    /\ asked[o] = "none" => ~Opened(o) /\ orow[o] = "none"
                            /\ \A k \in Kinds : <<k, o>> \notin writes
    /\ <<"fill", o>> \in writes \/ orow[o] = "filled" => Opened(o)
    /\ <<"cancel", o>> \in writes \/ orow[o] = "canceled" => asked[o] = "canceled"

Booting(o) ==
    ~Up => /\ orow[o] = "none" /\ asked[o] # "none" => "unwritten" \in excuse[o]
           /\ orow[o] = "live" /\ (asked[o] = "canceled" \/ Opened(o)) => "unmarked" \in excuse[o]

Kept(o) ==
    Up /\ asked[o] = "armed" /\ ~Opened(o)
    => o \in book \/ BeingFilled(o) \/ excuse[o] \intersect {"unwritten", "unscanned"} # {}

Ordered(o) == MayFill(o) /\ Recorded(o) /\ Booting(o) /\ Kept(o)

IInv ==
    /\ TypeOK /\ Phases /\ PaidWhereStaked /\ SaidIsPaid /\ StakesKnown
    /\ \A p \in Positions : Tracked(p)
    /\ \A o \in Orders : Ordered(o)

-----------------------------------------------------------------------------
(* Money.                                                                  *)

Trades == [p \in Positions |-> Trade(p)]

\* Opening a row takes one stake from one purse, which had it.
LEMMA OpenRowTakes ==
    ASSUME WalletAssumption, WalletTypeOK, PaidWhereStaked,
           NEW p \in Positions, OpenRow(p), UNCHANGED <<account, switch>>
    PROVE  WalletTypeOK' /\ PaidWhereStaked' /\ Promise!Next
<1> DEFINE purseOf == IF Home = "real" THEN "cash" ELSE Home
<1>0. Home \in Homes /\ Stake \in Nat
  BY DEF Home, Homes, WalletAssumption
<1>1. wallet' \in [Buckets -> Nat]
  BY <1>0 DEF OpenRow, Debit, CanStake, WalletTypeOK, Buckets, Homes, Least
<1>2. row'[p] = [status |-> "open", home |-> Home, payout |-> 0, paid |-> "none"]
      /\ \A q \in Positions \ {p} : row'[q] = row[q]
  BY DEF OpenRow, WalletTypeOK
<1>3. WalletTypeOK'
  <2>1. row' \in [Positions -> [status : {"none", "open", "settled"}, home : Homes,
                              payout : Payouts \union {0}, paid : Homes \union {"none"}]]
    BY <1>0 DEF OpenRow, WalletTypeOK
  <2>2. bonus' \in [active : BOOLEAN, wagered : Nat]
    BY <1>0 DEF OpenRow, WalletTypeOK
  <2> QED  BY <1>1, <2>1, <2>2 DEF WalletTypeOK
<1>4. PaidWhereStaked'
  BY <1>2 DEF PaidWhereStaked
<1>5. Promise!Take(p, purseOf)
  <2>1. Trades[p] = "none" /\ Trades' = [Trades EXCEPT ![p] = purseOf]
    <3>1. Trade(p) = "none" /\ Trade(p)' = purseOf
      BY <1>0, <1>2 DEF Trade, OpenRow, Homes
    <3>2. \A q \in Positions \ {p} : Trade(q)' = Trade(q)
      BY <1>2 DEF Trade
    <3> QED  BY <3>1, <3>2 DEF Trades
  <2>2. Purse[purseOf] >= Stake /\ Purse' = [Purse EXCEPT ![purseOf] = @ - Stake]
    <3>1. CASE Home = "real"
      <4>1. wallet'["real"] + wallet'["bonus"] = wallet["real"] + wallet["bonus"] - Stake
            /\ wallet'["demo"] = wallet["demo"] /\ wallet'["practice"] = wallet["practice"]
        BY <1>0, <3>1 DEF OpenRow, Debit, CanStake, WalletTypeOK, Buckets, Least
      <4>2. Purse["cash"] >= Stake /\ Purse["cash"]' = Purse["cash"] - Stake
        <5>1. Purse["cash"] = wallet["real"] + wallet["bonus"]
              /\ Purse["cash"]' = wallet'["real"] + wallet'["bonus"]
          BY DEF Purse
        <5>2. wallet["real"] + wallet["bonus"] >= Stake
          BY <3>1 DEF OpenRow, CanStake
        <5>3. wallet["real"] \in Nat /\ wallet["bonus"] \in Nat
          BY DEF WalletTypeOK, Buckets
        <5> QED  BY <1>0, <4>1, <5>1, <5>2, <5>3
      <4>3. Purse["demo"]' = Purse["demo"] /\ Purse["practice"]' = Purse["practice"]
        BY <4>1 DEF Purse
      <4> QED  BY <3>1, <4>2, <4>3 DEF Purse
    <3>2. CASE Home # "real"
      BY <1>0, <3>2 DEF Purse, OpenRow, Debit, CanStake, WalletTypeOK, Buckets, Homes
    <3> QED  BY <3>1, <3>2
  <2> QED  BY <2>1, <2>2 DEF Promise!Take, Trades
<1>6. purseOf \in Promise!Purses
  BY <1>0 DEF Promise!Purses, Homes
<1> QED  BY <1>3, <1>4, <1>5, <1>6 DEF Promise!Next

\* Settling an open row returns its payout to the purse it was staked from,
\* or to play money for a marketer; settling any other changes nothing.
LEMMA SettleRowReturns ==
    ASSUME WalletAssumption, WalletTypeOK, PaidWhereStaked,
           NEW p \in Positions, NEW v \in Payouts, SettleRow(p, v),
           UNCHANGED <<account, switch>>
    PROVE  /\ WalletTypeOK' /\ PaidWhereStaked'
           /\ Promise!Next \/ UNCHANGED Promise!vars
           /\ row[p].status = "open" => row'[p].status = "settled" /\ row'[p].payout = v
           /\ row[p].status # "open" => row' = row
           /\ \A q \in Positions \ {p} : row'[q] = row[q]
<1> DEFINE b == PayTo(p)
<1>0. b \in Homes /\ v \in Nat /\ b # "bonus"
  BY DEF PayTo, Homes, WalletAssumption, WalletTypeOK
<1>1. CASE row[p].status # "open"
  <2>1. UNCHANGED <<row, wallet, bonus>>
    BY <1>1 DEF SettleRow
  <2>2. WalletTypeOK' /\ PaidWhereStaked'
    BY <2>1 DEF WalletTypeOK, PaidWhereStaked
  <2>3. UNCHANGED Promise!vars
    BY <2>1, Zenon DEF Promise!vars, Trade, Purse
  <2> QED  BY <1>1, <2>1, <2>2, <2>3
<1>2. CASE row[p].status = "open"
  <2>1. row' = [row EXCEPT ![p].status = "settled", ![p].payout = v, ![p].paid = b]
    BY <1>2 DEF SettleRow
  <2>2. row' \in [Positions -> [status : {"none", "open", "settled"}, home : Homes,
                              payout : Payouts \union {0}, paid : Homes \union {"none"}]]
    <3>1. row[p] \in [status : {"none", "open", "settled"}, home : Homes,
                     payout : Payouts \union {0}, paid : Homes \union {"none"}]
      BY DEF WalletTypeOK
    <3>2. [row[p] EXCEPT !.status = "settled", !.payout = v, !.paid = b]
             \in [status : {"none", "open", "settled"}, home : Homes,
                  payout : Payouts \union {0}, paid : Homes \union {"none"}]
      BY <1>0, <3>1
    <3>3. row' = [row EXCEPT ![p] = [row[p] EXCEPT !.status = "settled", !.payout = v, !.paid = b]]
      BY <2>1
    <3> QED  BY <3>2, <3>3 DEF WalletTypeOK
  <2>3. /\ row'[p].status = "settled" /\ row'[p].payout = v /\ row'[p].paid = b
        /\ row'[p].home = row[p].home
        /\ \A q \in Positions \ {p} : row'[q] = row[q]
    BY <2>1 DEF WalletTypeOK
  <2>4. b = row[p].home \/ (row[p].home = "real" /\ b = "demo" /\ account.marketer)
    BY DEF PayTo, WalletTypeOK, Homes
  <2>5. PaidWhereStaked'
    BY <2>2, <2>3, <2>4 DEF PaidWhereStaked, WalletTypeOK
  <2>6. Converted(b) \in Nat /\ Converted(b) <= wallet["bonus"] /\ (b # "real" => Converted(b) = 0)
    BY DEF Converted, Clears, Least, WalletTypeOK, WalletAssumption, Buckets
  <2>7. /\ wallet'["real"] = wallet["real"] + Converted(b) + (IF b = "real" THEN v ELSE 0)
        /\ wallet'["bonus"] = wallet["bonus"] - Converted(b)
        /\ wallet'["demo"] = wallet["demo"] + (IF b = "demo" THEN v ELSE 0)
        /\ wallet'["practice"] = wallet["practice"] + (IF b = "practice" THEN v ELSE 0)
        /\ wallet' \in [Buckets -> Nat]
    BY <1>0, <1>2, <2>6 DEF SettleRow, WalletTypeOK, Buckets, Homes
  <2>8. WalletTypeOK'
    <3>1. bonus' \in [active : BOOLEAN, wagered : Nat]
      BY <1>2 DEF SettleRow, WalletTypeOK, Clears
    <3> QED  BY <2>2, <2>7, <3>1 DEF WalletTypeOK
  <2>9. Promise!Return(p, IF b = "real" THEN "cash" ELSE b, v)
    <3>1. Trades[p] = (IF row[p].home = "real" THEN "cash" ELSE row[p].home)
          /\ Trades' = [Trades EXCEPT ![p] = "settled"]
      <4>1. Trade(p)' = "settled" /\ \A q \in Positions \ {p} : Trade(q)' = Trade(q)
        BY <2>3 DEF Trade
      <4>2. Trade(p) = (IF row[p].home = "real" THEN "cash" ELSE row[p].home)
        BY <1>2 DEF Trade
      <4> QED  BY <4>1, <4>2 DEF Trades
    <3>2. Purse' = [Purse EXCEPT ![IF b = "real" THEN "cash" ELSE b] = @ + v]
      BY <1>0, <2>6, <2>7 DEF Purse, WalletTypeOK, Buckets, Homes
    <3> QED  BY <1>0, <2>4, <3>1, <3>2 DEF Promise!Return, Trades, Homes
  <2>10. (IF b = "real" THEN "cash" ELSE b) \in Promise!Purses
    BY <1>0 DEF Promise!Purses, Homes
  <2> QED  BY <1>2, <2>2, <2>3, <2>5, <2>8, <2>9, <2>10 DEF Promise!Next, WalletTypeOK
<1> QED  BY <1>1, <1>2

\* Topping up, being made a marketer and switching leave every trade as it is.
LEMMA AccountKeeps ==
    ASSUME WalletAssumption, WalletTypeOK, PaidWhereStaked,
           TopUp \/ Promote \/ Switch \/ \E mode \in {"real", "demo"} : AskSwitch(mode)
    PROVE  WalletTypeOK' /\ PaidWhereStaked' /\ (Promise!Next \/ UNCHANGED Promise!vars)
           /\ row' = row
<1>1. ASSUME NEW b \in {"demo", "practice"}, wallet' = ToppedUp(b), row' = row,
             account'.marketer = account.marketer
      PROVE  wallet' \in [Buckets -> Nat] /\ Promise!TopUp(b)
  <2>1. /\ wallet' \in [Buckets -> Nat] /\ wallet'[b] >= wallet[b]
        /\ \A c \in Buckets \ {b} : wallet'[c] = wallet[c]
    BY <1>1 DEF ToppedUp, WalletTypeOK, WalletAssumption, Buckets
  <2>2. Purse' \in [Promise!Purses -> Nat]
    BY <2>1 DEF Purse, Promise!Purses, Buckets
  <2>3. Purse'[b] >= Purse[b] /\ \A c \in Promise!Purses \ {b} : Purse'[c] = Purse[c]
    BY <1>1, <2>1 DEF Purse, Promise!Purses, Buckets
  <2>4. Trades' = Trades
    BY <1>1, Zenon DEF Trades, Trade
  <2> QED  BY <1>1, <2>1, <2>2, <2>3, <2>4 DEF Promise!TopUp, Trades
<1>2. ASSUME UNCHANGED <<row, wallet>>, account'.marketer = account.marketer
      PROVE  UNCHANGED Promise!vars
  BY <1>2, Zenon DEF Promise!vars, Trade, Purse
<1>3. {"demo", "practice"} \subseteq Promise!Purses
  BY DEF Promise!Purses
<1>4. CASE TopUp
  <2>1. PICK b \in {"demo", "practice"} : wallet' = ToppedUp(b)
    BY <1>4 DEF TopUp
  <2>2. row' = row /\ account' = account
    BY <1>4 DEF TopUp
  <2>3. wallet' \in [Buckets -> Nat] /\ Promise!TopUp(b)
    BY <1>1, <2>1, <2>2
  <2> QED  BY <1>3, <1>4, <2>2, <2>3 DEF TopUp, WalletTypeOK, PaidWhereStaked, Promise!Next
<1>5. CASE Promote
  <2>1. Promise!Promote
    <3>1. UNCHANGED <<row, wallet>>
      BY <1>5 DEF Promote
    <3>2. UNCHANGED <<[p \in Positions |-> Trade(p)], Purse>>
      BY <3>1, Zenon DEF Trade, Purse
    <3>3. ~account.marketer /\ account'.marketer
      BY <1>5 DEF Promote, WalletTypeOK
    <3> QED  BY <3>2, <3>3, Zenon DEF Promise!Promote
  <2>2. account' \in [mode : {"real", "demo"}, practice : BOOLEAN, marketer : BOOLEAN]
        /\ account'.marketer
    BY <1>5 DEF Promote, WalletTypeOK
  <2> QED  BY <1>5, <2>1, <2>2 DEF Promote, WalletTypeOK, PaidWhereStaked, Promise!Next
<1>6. CASE Switch
  <2>1. /\ account' \in [mode : {"real", "demo"}, practice : BOOLEAN, marketer : BOOLEAN]
        /\ account'.marketer = account.marketer
    BY <1>6 DEF Switch, WalletTypeOK
  <2>2. wallet' = wallet \/ \E b \in {"demo", "practice"} : wallet' = ToppedUp(b)
    BY <1>6 DEF Switch
  <2>3. row' = row /\ bonus' = bonus /\ switch' = "none"
    BY <1>6 DEF Switch
  <2>4. wallet' \in [Buckets -> Nat] /\ (Promise!Next \/ UNCHANGED Promise!vars)
    BY <1>1, <1>2, <1>3, <2>1, <2>2, <2>3 DEF WalletTypeOK, Promise!Next
  <2> QED  BY <2>1, <2>3, <2>4 DEF WalletTypeOK, PaidWhereStaked
<1>7. ASSUME NEW mode \in {"real", "demo"}, AskSwitch(mode)
      PROVE  WalletTypeOK' /\ PaidWhereStaked' /\ UNCHANGED Promise!vars /\ row' = row
  <2>1. UNCHANGED <<row, wallet, bonus, account>> /\ switch' = mode
    BY <1>7 DEF AskSwitch
  <2>2. UNCHANGED Promise!vars
    BY <1>2, <2>1
  <2> QED  BY <1>7, <2>1, <2>2 DEF WalletTypeOK, PaidWhereStaked
<1> QED  BY <1>4, <1>5, <1>6, <1>7

-----------------------------------------------------------------------------
(* One step.                                                               *)

LEMMA NewRowFree ==
    ASSUME Free # {}
    PROVE  NewRow \in Positions /\ row[NewRow].status = "none"
BY DEF Free, NewRow

LEMMA CallKinds ==
    ASSUME TypeOK
    PROVE  /\ call.op = "settle" => call.pos \in Positions /\ call = [op |-> "settle", pos |-> call.pos]
           /\ call.op = "open" => call.order \in Orders /\ call.pos \in Positions \union {"none"}
                                  /\ call = [op |-> "open", order |-> call.order, pos |-> call.pos]
           /\ call.op \notin {"open", "settle"} => call = NoCall
BY DEF TypeOK, Calls, NoCall

\* The actions that leave the database's money alone.
Quiet ==
    \/ Connect \/ Tick \/ Filled \/ FillRefused \/ FillThrows \/ Crash \/ Booted
    \/ \E o \in Orders : PlaceOrder(o) \/ CancelOrder(o) \/ Fill(o)
    \/ \E p \in Positions : Close(p) \/ RecoverFails(p)

\* The actions that settle a row, and which, and those that open one.
Settles(p) == \/ Sell(p) \/ Recover(p)
              \/ call.op = "settle" /\ call.pos = p /\ (Closed \/ CloseThrows)

Opens(o) == (o = "market" /\ MarketOrder) \/ (o = call.order /\ FillRuns)

LEMMA QuietKeepsMoney ==
    ASSUME TypeOK, Quiet
    PROVE  UNCHANGED walletVars
BY DEF Quiet, Connect, Tick, Filled, FillRefused, FillThrows, Crash, Booted, PlaceOrder, CancelOrder,
       Fill, Close, RecoverFails, walletVars

LEMMA SettlesOrNot ==
    ASSUME TypeOK, NEW p \in Positions, Settles(p)
    PROVE  /\ UNCHANGED <<account, switch>>
           /\ UNCHANGED <<row, wallet, bonus>> \/ \E v \in Payouts : SettleRow(p, v)
BY DEF Settles, Sell, Recover, Closed, CloseThrows, Pay

LEMMA OpensOne ==
    ASSUME TypeOK, NEW o, Opens(o)
    PROVE  /\ UNCHANGED <<account, switch>> /\ Insert(o)
BY DEF Opens, MarketOrder, FillRuns

LEMMA NextKinds ==
    ASSUME TypeOK, Next
    PROVE  \/ Quiet \/ ChangeAccount
           \/ \E p \in Positions : Settles(p)
           \/ \E o \in Orders \union {"market"} : Opens(o)
<1>1. CASE Closed \/ CloseThrows
  <2>1. call.op = "settle"
    BY <1>1 DEF Closed, CloseThrows
  <2> QED  BY <1>1, <2>1, CallKinds DEF Settles
<1>2. CASE FillRuns
  <2>1. call.op = "open"
    BY <1>2 DEF FillRuns
  <2> QED  BY <1>2, <2>1, CallKinds DEF Opens
<1>3. CASE MarketOrder
  <2>1. \A o : o = "market" => Opens(o)
    BY <1>3 DEF Opens
  <2> QED  BY <2>1
<1>4. CASE \E p \in Positions : Sell(p) \/ Recover(p)
  BY <1>4 DEF Settles
<1>5. CASE \/ Connect \/ Tick \/ Filled \/ FillRefused \/ FillThrows \/ Crash \/ Booted
           \/ \E o \in Orders : PlaceOrder(o) \/ CancelOrder(o) \/ Fill(o)
           \/ \E p \in Positions : Close(p) \/ RecoverFails(p)
  BY <1>5 DEF Quiet
<1> QED  BY <1>1, <1>2, <1>3, <1>4, <1>5, Zenon DEF Next, Answer, Throw

\* Every step keeps the wallet's types, pays where it staked, and is a step of
\* the promise or none.
LEMMA MoneyStep ==
    ASSUME WalletAssumption, TypeOK, PaidWhereStaked, Next
    PROVE  WalletTypeOK' /\ PaidWhereStaked' /\ (Promise!Next \/ UNCHANGED Promise!vars)
<1>0. WalletTypeOK
  BY DEF TypeOK
<1>1. ASSUME UNCHANGED walletVars
      PROVE  WalletTypeOK' /\ PaidWhereStaked' /\ UNCHANGED Promise!vars
  <2>1. UNCHANGED <<row, wallet, bonus, account, switch>>
    BY <1>1 DEF walletVars
  <2>2. UNCHANGED Promise!vars
    BY <2>1, Zenon DEF Promise!vars, Trade, Purse
  <2> QED  BY <1>0, <2>1, <2>2 DEF WalletTypeOK, PaidWhereStaked
<1>2. CASE Quiet
  BY <1>1, <1>2, QuietKeepsMoney
<1>3. CASE ChangeAccount
  BY <1>0, <1>3, AccountKeeps DEF ChangeAccount
<1>4. ASSUME NEW p \in Positions, Settles(p)
      PROVE  WalletTypeOK' /\ PaidWhereStaked' /\ (Promise!Next \/ UNCHANGED Promise!vars)
  <2>1. CASE UNCHANGED <<row, wallet, bonus>>
    BY <1>1, <1>4, <2>1, SettlesOrNot DEF walletVars
  <2>2. CASE \E v \in Payouts : SettleRow(p, v)
    BY <1>0, <1>4, <2>2, SettlesOrNot, SettleRowReturns
  <2> QED  BY <1>4, <2>1, <2>2, SettlesOrNot
<1>5. ASSUME NEW o \in Orders \union {"market"}, Opens(o)
      PROVE  WalletTypeOK' /\ PaidWhereStaked' /\ Promise!Next
  <2>1. Insert(o) /\ UNCHANGED <<account, switch>>
    BY <1>5, OpensOne
  <2> QED  BY <1>0, <2>1, NewRowFree, OpenRowTakes DEF Insert
<1> QED  BY <1>2, <1>3, <1>4, <1>5, NextKinds

\* Types of the book, the engine and the counters.
LEMMA TypeStep ==
    ASSUME WalletAssumption, TradingAssumption, TypeOK, PaidWhereStaked, Next
    PROVE  TypeOK'
<1> USE CallKinds DEF TypeOK, OrdersTypeOK
<1>0. WalletTypeOK'
  BY MoneyStep
<1>1. CASE MarketOrder
  BY <1>0, <1>1, NewRowFree DEF MarketOrder, Insert, Upset, orderVars
<1>2. CASE ChangeAccount
  BY <1>0, <1>2 DEF ChangeAccount, Upset, orderVars, engineVars
<1>3. CASE Tick
  BY <1>0, <1>3 DEF Tick, orderVars, walletVars
<1>4. CASE Answer
  <2>1. CASE FillRuns
    BY <1>0, <2>1, NewRowFree DEF FillRuns, Insert, orderVars, Calls
  <2>2. CASE Filled
    BY <1>0, <2>2 DEF Filled, Calls, Kinds
  <2>3. CASE FillRefused
    BY <1>0, <2>3 DEF FillRefused, PutBack, Calls
  <2>4. CASE Closed
    BY <1>0, <2>4 DEF Closed, Pay, Calls, orderVars
  <2> QED  BY <1>4, <2>1, <2>2, <2>3, <2>4 DEF Answer
<1>5. CASE FillThrows
  BY <1>0, <1>5 DEF FillThrows, PutBack, Calls, Upset, Excuse, Excuses
<1>6. CASE CloseThrows
  BY <1>0, <1>6 DEF CloseThrows, Unlock, Calls, Upset, orderVars
<1>7. CASE Crash
  <2>1. ticking' \in BOOLEAN
    BY <1>7, Zenon DEF Crash
  <2>2. call' \in Calls /\ mem' \in [Positions -> {"none", "open", "settled"}]
    BY <1>7 DEF Crash, Calls
  <2>3. /\ engine' \in [at : {"up", "booting"}, todo : SUBSET Positions, scanned : BOOLEAN]
        /\ excuse' \in [Orders -> SUBSET Excuses] /\ orow' \in [Orders -> Statuses]
        /\ book' \subseteq Orders /\ writes' \subseteq Kinds \X Orders
        /\ due' \subseteq Orders /\ stranded' \subseteq Positions
        /\ restarts' \in 0..MaxRestarts
    BY <1>7 DEF Crash, Excuses, OpenRows
  <2>4. UNCHANGED <<asked, origin, misreported, revalued, upsets>>
    BY <1>7 DEF Crash
  <2> QED  BY <1>0, <2>1, <2>2, <2>3, <2>4, Zenon
<1>8. CASE Booted
  <2>1. excuse' \in [Orders -> SUBSET Excuses] /\ book' \subseteq Orders
    BY <1>8 DEF Booted, Excuse, Excuses, Live
  <2>2. engine' \in [at : {"up", "booting"}, todo : SUBSET Positions, scanned : BOOLEAN]
    BY <1>8 DEF Booted
  <2> QED  BY <1>0, <1>8, <2>1, <2>2 DEF Booted
<1>9. ASSUME NEW o \in Orders, PlaceOrder(o)
      PROVE  TypeOK'
  BY <1>0, <1>9 DEF PlaceOrder, Place, Kinds, engineVars
<1>10. ASSUME NEW o \in Orders, CancelOrder(o)
       PROVE  TypeOK'
  BY <1>0, <1>10 DEF CancelOrder, Cancel, Kinds, Excuse, Excuses, engineVars
<1>11. ASSUME NEW o \in Orders, Fill(o)
       PROVE  TypeOK'
  BY <1>0, <1>11 DEF Fill, Calls
<1>12. ASSUME NEW p \in Positions, Sell(p)
       PROVE  TypeOK'
  BY <1>0, <1>12 DEF Sell, Pay, Upset, orderVars
<1>13. ASSUME NEW p \in Positions, Close(p)
       PROVE  TypeOK'
  BY <1>0, <1>13 DEF Close, Lock, Calls, orderVars
<1>14. ASSUME NEW p \in Positions, Recover(p)
       PROVE  TypeOK'
  BY <1>0, <1>14 DEF Recover, orderVars
<1>15. ASSUME NEW p \in Positions, RecoverFails(p)
       PROVE  TypeOK'
  BY <1>0, <1>15 DEF RecoverFails, Upset, orderVars
<1>16. CASE Connect
  BY <1>0, <1>16 DEF Connect, orderVars
<1> QED
  BY <1>1, <1>2, <1>3, <1>4, <1>5, <1>6, <1>7, <1>8, <1>9, <1>10, <1>11, <1>12, <1>13, <1>14, <1>15,
     <1>16 DEF Next, Throw

\* How a settlement changes the rows: one open row becomes settled, or none.
LEMMA SettlesShape ==
    ASSUME WalletAssumption, TypeOK, PaidWhereStaked, NEW p \in Positions, Settles(p)
    PROVE  /\ \A q \in Positions \ {p} : row'[q] = row[q]
           /\ row'[p] = row[p] \/ (row[p].status = "open" /\ row'[p].status = "settled")
<1>0. WalletTypeOK
  BY DEF TypeOK
<1>1. ASSUME NEW v \in Payouts, SettleRow(p, v)
      PROVE  /\ \A q \in Positions \ {p} : row'[q] = row[q]
             /\ row'[p] = row[p] \/ (row[p].status = "open" /\ row'[p].status = "settled")
  BY <1>0, <1>1, SettlesOrNot, SettleRowReturns
<1> QED  BY <1>1, SettlesOrNot

LEMMA SettleRowSettles ==
    ASSUME WalletAssumption, TypeOK, PaidWhereStaked, NEW p \in Positions,
           \E v \in Payouts : SettleRow(p, v), UNCHANGED <<account, switch>>
    PROVE  row[p].status = "open" => row'[p].status = "settled"
BY SettleRowReturns DEF TypeOK

LEMMA InsertShape ==
    ASSUME TypeOK, NEW o, Insert(o)
    PROVE  /\ NewRow \in Positions /\ row[NewRow].status = "none"
           /\ row'[NewRow].status = "open" /\ origin'[NewRow] = o
           /\ \A q \in Positions \ {NewRow} : row'[q] = row[q] /\ origin'[q] = origin[q]
BY NewRowFree DEF Insert, OpenRow, TypeOK, WalletTypeOK

\* The payout is misreported only when the row was settled before.
LEMMA PayTells ==
    ASSUME WalletAssumption, TypeOK, PaidWhereStaked, NEW p \in Positions, Pay(p),
           UNCHANGED <<account, switch>>
    PROVE  /\ row[p].status = "open" => misreported' = misreported /\ row'[p].status = "settled"
           /\ misreported' \subseteq misreported \union {p}
<1>1. PICK v \in Payouts :
         /\ SettleRow(p, v)
         /\ misreported' = IF row'[p].payout = v THEN misreported ELSE misreported \union {p}
  BY DEF Pay
<1>2. row[p].status = "open" => row'[p].status = "settled" /\ row'[p].payout = v
  BY <1>1, SettleRowReturns DEF TypeOK
<1> QED  BY <1>1, <1>2

\* No step loses a position, lets two settle it, or misreports it.
LEMMA PositionStep ==
    ASSUME WalletAssumption, TradingAssumption, IInv, Next
    PROVE  Phases' /\ SaidIsPaid' /\ \A p \in Positions : Tracked(p)' /\ Known(p)'
<1> DEFINE Goal == Phases' /\ SaidIsPaid' /\ \A p \in Positions : Tracked(p)' /\ Known(p)'
<1>0. TypeOK /\ Phases /\ SaidIsPaid /\ PaidWhereStaked /\ \A p \in Positions : Tracked(p) /\ Known(p)
  BY DEF IInv, StakesKnown, OpenRows, Known
<1>t. TypeOK'
  BY <1>0, TypeStep
<1>k. /\ mem \in [Positions -> {"none", "open", "settled"}]
      /\ engine \in [at : {"up", "booting"}, todo : SUBSET Positions, scanned : BOOLEAN]
      /\ call.op = "settle" => call.pos \in Positions /\ call = [op |-> "settle", pos |-> call.pos]
      /\ call.op = "open" => call.pos \in Positions \union {"none"}
      /\ "none" \notin Positions /\ call.op \notin {"open", "settle"} => call = NoCall
  BY <1>0, CallKinds DEF TypeOK, TradingAssumption
<1> USE DEF Tracked, Known, Phases, Up, Running, SaidIsPaid, NoCall
<1>1. CASE MarketOrder
  <2>1. Insert("market")
    BY <1>1 DEF MarketOrder
  <2> QED  BY <1>0, <1>1, <1>k, <2>1, InsertShape DEF MarketOrder, orderVars
<1>2. CASE ChangeAccount
  <2>1. row' = row
    BY <1>0, <1>2, AccountKeeps DEF ChangeAccount, TypeOK
  <2> QED  BY <1>0, <1>2, <2>1 DEF ChangeAccount, orderVars, engineVars
<1>3. CASE Tick
  BY <1>0, <1>3, <1>k DEF Tick, walletVars, orderVars
<1>4. CASE Answer
  <2>1. CASE FillRuns
    <3>1. Insert(call.order) /\ call.op = "open" /\ call'.op = "open" /\ call'.pos = NewRow
      BY <1>0, <2>1, CallKinds DEF FillRuns
    <3> QED  BY <1>0, <1>k, <2>1, <3>1, InsertShape DEF FillRuns, orderVars
  <2>2. CASE Filled
    BY <1>0, <2>2, <1>k DEF Filled, walletVars
  <2>3. CASE FillRefused
    BY <1>0, <2>3, <1>k DEF FillRefused, PutBack, walletVars
  <2>4. CASE Closed
    <3>1. call.op = "settle" /\ call.pos \in Positions /\ Settles(call.pos)
      BY <1>k, <2>4 DEF Closed, Settles
    <3> QED  BY <1>0, <1>k, <2>4, <3>1, SettlesShape, PayTells DEF Closed, orderVars
  <2> QED  BY <1>4, <2>1, <2>2, <2>3, <2>4 DEF Answer
<1>5. CASE FillThrows
  BY <1>0, <1>5, <1>k DEF FillThrows, PutBack, walletVars
<1>6. CASE CloseThrows
  <2>1. call.op = "settle" /\ call.pos \in Positions /\ Settles(call.pos)
    BY <1>k, <1>6 DEF CloseThrows, Settles
  <2> QED  BY <1>0, <1>k, <1>6, <2>1, SettlesShape, SettleRowSettles DEF CloseThrows, Unlock, orderVars
<1>7. CASE Crash
  BY <1>0, <1>7, <1>k DEF Crash, walletVars, OpenRows
<1>8. CASE Booted
  BY <1>0, <1>8, <1>k DEF Booted, walletVars
<1>9. CASE \E o \in Orders : PlaceOrder(o) \/ CancelOrder(o) \/ Fill(o)
  BY <1>0, <1>9, <1>k DEF PlaceOrder, Place, CancelOrder, Cancel, Fill, walletVars, engineVars
<1>10. ASSUME NEW p \in Positions, Sell(p)
       PROVE  Goal
  <2>1. Settles(p)
    BY <1>10 DEF Settles
  <2> QED  BY <1>0, <1>k, <1>10, <2>1, SettlesShape, SettleRowSettles, PayTells DEF Sell, orderVars
<1>11. ASSUME NEW p \in Positions, Close(p)
       PROVE  Goal
  BY <1>0, <1>11, <1>k DEF Close, Lock, walletVars, orderVars
<1>12. ASSUME NEW p \in Positions, Recover(p)
       PROVE  Goal
  <2>1. Settles(p)
    BY <1>12 DEF Settles
  <2> QED  BY <1>0, <1>k, <1>12, <2>1, SettlesShape, SettleRowSettles DEF Recover, orderVars
<1>13. ASSUME NEW p \in Positions, RecoverFails(p)
       PROVE  Goal
  BY <1>0, <1>13, <1>k DEF RecoverFails, walletVars, orderVars
<1>14. CASE Connect
  BY <1>0, <1>14, <1>k DEF Connect, walletVars, orderVars
<1> QED
  BY <1>1, <1>2, <1>3, <1>4, <1>5, <1>6, <1>7, <1>8, <1>9, <1>10, <1>11, <1>12, <1>13, <1>14
     DEF Next, Throw

-----------------------------------------------------------------------------
(* Orders.                                                                 *)

LEMMA OpenedKept ==
    ASSUME origin' = origin,
           \A q \in Positions : row'[q].status = "none" <=> row[q].status = "none"
    PROVE  \A o : OpenedFor(o)' = OpenedFor(o) /\ (Opened(o)' <=> Opened(o))
BY DEF OpenedFor, Opened

LEMMA OpenedInserted ==
    ASSUME TypeOK, NEW x, Insert(x)
    PROVE  /\ Opened(x)'
           /\ \A o : o # x => OpenedFor(o)' = OpenedFor(o) /\ (Opened(o)' <=> Opened(o))
BY InsertShape DEF OpenedFor, Opened

LEMMA OpenedForNone ==
    ASSUME NEW o
    PROVE  OpenedFor(o) = {} <=> ~Opened(o)
BY DEF OpenedFor, Opened

\* What EndedStaysEnded asks of a step.
EndedStep ==
    \A o \in Orders :
        OpenedFor(o)' # OpenedFor(o) =>
            orow[o] # "filled" /\ (asked[o] = "canceled" => CancelExcused(o))

\* Connections, requests, closings and recoveries of positions do not touch orders.
LEMMA NotOfOrders ==
    ASSUME \A o \in Orders : Ordered(o), UNCHANGED orderVars, due' = due, Up' <=> Up,
           \A o \in Orders : OpenedFor(o)' = OpenedFor(o) /\ (Opened(o)' <=> Opened(o)),
           call' = call \/ (call.op # "open" /\ call'.op # "open")
    PROVE  EndedStep /\ \A o \in Orders : Ordered(o)'
<1>1. \A o \in Orders : (Filling(o)' <=> Filling(o)) /\ (Filling(o) => call' = call)
  BY DEF Filling
<1>2. UNCHANGED <<book, orow, writes, asked, excuse>>
  BY DEF orderVars
<1>3. SUFFICES ASSUME NEW o \in Orders
               PROVE  Ordered(o)'
  BY DEF EndedStep
<1>4. /\ Filling(o)' <=> Filling(o)
      /\ Filling(o) => call' = call
      /\ Opened(o)' <=> Opened(o)
      /\ BeingFilled(o)' <=> BeingFilled(o)
  BY <1>1 DEF BeingFilled, Filling
<1> QED
  BY <1>2, <1>4 DEF Ordered, MayFill, Recorded, Booting, Kept, Armed, CancelExcused, OpenExcused

LEMMA PositionsOnly ==
    ASSUME WalletAssumption, TradingAssumption, IInv,
           \/ Connect \/ MarketOrder \/ ChangeAccount \/ Closed \/ CloseThrows
           \/ \E p \in Positions : Sell(p) \/ Close(p) \/ Recover(p) \/ RecoverFails(p)
    PROVE  EndedStep /\ \A o \in Orders : Ordered(o)'
<1>0. TypeOK /\ PaidWhereStaked /\ \A o \in Orders : Ordered(o)
  BY DEF IInv
<1>1. CASE MarketOrder
  <2>1. Insert("market") /\ "market" \notin Orders
    BY <1>1 DEF MarketOrder, TradingAssumption
  <2>2. \A o \in Orders : OpenedFor(o)' = OpenedFor(o) /\ (Opened(o)' <=> Opened(o))
    BY <1>0, <2>1, OpenedInserted
  <2> QED  BY <1>0, <1>1, <2>2, NotOfOrders DEF MarketOrder, Up
<1>2. ASSUME origin' = origin, UNCHANGED orderVars, due' = due, Up' <=> Up,
             call' = call \/ (call.op # "open" /\ call'.op # "open"),
             \A q \in Positions : row'[q].status = "none" <=> row[q].status = "none"
      PROVE  EndedStep /\ \A o \in Orders : Ordered(o)'
  BY <1>0, <1>2, OpenedKept, NotOfOrders
<1>3. CASE ChangeAccount
  <2>1. row' = row
    BY <1>0, <1>3, AccountKeeps DEF ChangeAccount, TypeOK
  <2> QED  BY <1>2, <1>3, <2>1 DEF ChangeAccount, engineVars, Up
<1>4. CASE Closed \/ CloseThrows
  <2>1. call.op = "settle" /\ call.pos \in Positions /\ Settles(call.pos)
    BY <1>0, <1>4, CallKinds DEF Closed, CloseThrows, Settles
  <2>2. \A q \in Positions : row'[q].status = "none" <=> row[q].status = "none"
    BY <1>0, <2>1, SettlesShape
  <2> QED  BY <1>2, <1>4, <2>1, <2>2 DEF Closed, CloseThrows, NoCall, Up
<1>5. ASSUME NEW p \in Positions, Sell(p) \/ Recover(p)
      PROVE  EndedStep /\ \A o \in Orders : Ordered(o)'
  <2>1. \A q \in Positions : row'[q].status = "none" <=> row[q].status = "none"
    BY <1>0, <1>5, SettlesShape DEF Settles
  <2>2. Up' <=> Up
    BY <1>0, <1>5 DEF Sell, Recover, Up, TypeOK
  <2> QED  BY <1>2, <1>5, <2>1, <2>2 DEF Sell, Recover
<1>6. ASSUME NEW p \in Positions, Close(p) \/ RecoverFails(p)
      PROVE  EndedStep /\ \A o \in Orders : Ordered(o)'
  <2>1. Up' <=> Up
    BY <1>0, <1>6 DEF Close, RecoverFails, Up, TypeOK
  <2> QED  BY <1>2, <1>6, <2>1 DEF Close, RecoverFails, walletVars, NoCall
<1>7. CASE Connect
  BY <1>2, <1>7 DEF Connect, walletVars, Up
<1> QED  BY <1>1, <1>3, <1>4, <1>5, <1>6, <1>7

\* Nothing an order does or suffers makes one that ended fill again.
LEMMA OrderStep ==
    ASSUME WalletAssumption, TradingAssumption, IInv, Next
    PROVE  EndedStep /\ \A o \in Orders : Ordered(o)'
<1> DEFINE Goal == EndedStep /\ \A o \in Orders : Ordered(o)'
<1>0. TypeOK /\ Phases /\ TypeOK' /\ (\A o \in Orders : Ordered(o)) /\ (\A p \in Positions : Tracked(p))
  BY TypeStep DEF IInv
<1>k. /\ book \subseteq Orders /\ due \subseteq Orders
      /\ orow \in [Orders -> Statuses] /\ asked \in [Orders -> {"none", "armed", "canceled"}]
      /\ excuse \in [Orders -> SUBSET Excuses]
      /\ engine \in [at : {"up", "booting"}, todo : SUBSET Positions, scanned : BOOLEAN]
      /\ call.op = "open" => call.order \in Orders /\ call.pos \in Positions \union {"none"}
      /\ "none" \notin Positions /\ "market" \notin Orders
  BY <1>0, CallKinds DEF TypeOK, OrdersTypeOK, TradingAssumption
<1>w. ASSUME UNCHANGED walletVars, origin' = origin
      PROVE  EndedStep /\ \A o : Opened(o)' <=> Opened(o)
  <2>1. \A o : OpenedFor(o)' = OpenedFor(o) /\ (Opened(o)' <=> Opened(o))
    BY <1>w, OpenedKept DEF walletVars
  <2> QED  BY <2>1 DEF EndedStep
<1> USE DEF Ordered, MayFill, Recorded, Booting, Kept, Armed, Filling, CancelExcused, OpenExcused,
            BeingFilled, Up, Running
<1>1. CASE Tick
  <2>1. EndedStep /\ \A o : Opened(o)' <=> Opened(o)
    BY <1>1, <1>w DEF Tick
  <2> QED  BY <1>0, <1>1, <1>k, <2>1 DEF Tick, orderVars, NoCall
<1>2. CASE FillRuns
  <2>1. Insert(call.order) /\ call.op = "open" /\ call.order \in Orders /\ call.pos = "none"
        /\ call'.op = "open" /\ call'.pos = NewRow /\ call'.order = call.order
    BY <1>0, <1>2, CallKinds DEF FillRuns
  <2>2. /\ Opened(call.order)'
        /\ \A o : o # call.order => OpenedFor(o)' = OpenedFor(o) /\ (Opened(o)' <=> Opened(o))
    BY <1>0, <2>1, OpenedInserted
  <2>3. EndedStep
    BY <1>0, <2>1, <2>2 DEF EndedStep
  <2>4. NewRow # "none"
    BY <1>0, <1>k, <2>1, InsertShape
  <2>5. Up /\ Up'
    BY <1>0, <1>2, <2>1 DEF FillRuns, Phases, NoCall
  <2>6. UNCHANGED <<book, orow, writes, asked, excuse, due>>
    BY <1>2 DEF FillRuns, orderVars
  <2>7. ASSUME NEW o \in Orders
        PROVE  Ordered(o)'
    <3>1. CASE o = call.order
      BY <1>0, <2>1, <2>2, <2>4, <2>5, <2>6, <3>1
    <3>2. CASE o # call.order
      BY <1>0, <2>1, <2>2, <2>5, <2>6, <3>2
    <3> QED  BY <3>1, <3>2
  <2> QED  BY <2>3, <2>7
<1>3. CASE Filled
  <2>1. EndedStep /\ \A o : Opened(o)' <=> Opened(o)
    BY <1>3, <1>w DEF Filled
  <2> QED  BY <1>0, <1>3, <1>k, <2>1 DEF Filled, NoCall, Kinds
<1>4. CASE FillRefused
  <2>1. EndedStep /\ \A o : Opened(o)' <=> Opened(o)
    BY <1>4, <1>w DEF FillRefused
  <2> QED  BY <1>0, <1>4, <1>k, <2>1 DEF FillRefused, PutBack, NoCall
<1>5. CASE FillThrows
  <2>1. EndedStep /\ \A o : Opened(o)' <=> Opened(o)
    BY <1>5, <1>w DEF FillThrows
  <2> QED  BY <1>0, <1>5, <1>k, <2>1 DEF FillThrows, PutBack, NoCall, Excuse
<1>6. CASE Crash
  <2>1. EndedStep /\ \A o : Opened(o)' <=> Opened(o)
    BY <1>6, <1>w DEF Crash
  <2>2. \A o : OpenedFor(o) = {} <=> ~Opened(o)
    BY OpenedForNone
  <2> QED  BY <1>0, <1>6, <1>k, <2>1, <2>2 DEF Crash, Landed, NoCall, Kinds, Statuses
<1>7. CASE Booted
  <2>1. EndedStep /\ \A o : Opened(o)' <=> Opened(o)
    BY <1>7, <1>w DEF Booted
  <2>2. ~Up /\ Up' /\ call = NoCall /\ due = {} /\ book = {}
        /\ UNCHANGED <<orow, writes, asked, call, due>>
    BY <1>0, <1>7, <1>k DEF Booted, Phases
  <2>3. ASSUME NEW o \in Orders
        PROVE  Ordered(o)'
    <3>1. o \in book' => orow[o] = "live"
      BY <1>7, <2>2 DEF Booted, Live
    <3>2. excuse[o] \subseteq excuse'[o]
      BY <1>7, <1>k DEF Booted, Excuse
    <3>3. orow[o] = "live" => o \in book' \/ "unscanned" \in excuse'[o]
      BY <1>7, <1>k DEF Booted, Live, Excuse
    <3> QED  BY <1>0, <1>k, <2>1, <2>2, <3>1, <3>2, <3>3 DEF NoCall, Statuses
  <2> QED  BY <2>1, <2>3
<1>8. ASSUME NEW x \in Orders, PlaceOrder(x)
      PROVE  Goal
  <2>1. EndedStep /\ \A o : Opened(o)' <=> Opened(o)
    BY <1>8, <1>w DEF PlaceOrder, engineVars
  <2> QED  BY <1>0, <1>8, <1>k, <2>1 DEF PlaceOrder, Place, engineVars, Kinds
<1>9. ASSUME NEW x \in Orders, CancelOrder(x)
      PROVE  Goal
  <2>1. EndedStep /\ \A o : Opened(o)' <=> Opened(o)
    BY <1>9, <1>w DEF CancelOrder, engineVars
  <2> QED  BY <1>0, <1>9, <1>k, <2>1 DEF CancelOrder, Cancel, Excuse, engineVars, Kinds
<1>10. ASSUME NEW x \in Orders, Fill(x)
       PROVE  Goal
  <2>1. EndedStep /\ \A o : Opened(o)' <=> Opened(o)
    BY <1>10, <1>w DEF Fill
  <2> QED  BY <1>0, <1>10, <1>k, <2>1 DEF Fill, NoCall
<1> QED
  BY <1>1, <1>2, <1>3, <1>4, <1>5, <1>6, <1>7, <1>8, <1>9, <1>10, PositionsOnly
     DEF Next, Answer, Throw

-----------------------------------------------------------------------------
LEMMA InitSafe == Init => IInv
<1> SUFFICES ASSUME Init PROVE IInv
  OBVIOUS
<1> USE DEF Init, WalletInit, OrdersInit, NoRow, NoCall
<1>1. TypeOK
  <2>1. WalletTypeOK
    BY WalletAssumption DEF WalletTypeOK, Homes
  <2>2. OrdersTypeOK
    BY DEF OrdersTypeOK, Statuses
  <2>3. ticking \in BOOLEAN
    BY Zenon
  <2> QED  BY TradingAssumption, <2>1, <2>2, <2>3 DEF TypeOK, Calls
<1>2. Phases /\ PaidWhereStaked /\ SaidIsPaid /\ StakesKnown
  BY DEF Phases, Up, PaidWhereStaked, SaidIsPaid, StakesKnown, OpenRows
<1>3. \A p \in Positions : Tracked(p)
  BY DEF Tracked
<1>4. \A o \in Orders : Ordered(o)
  BY DEF Ordered, MayFill, Recorded, Booting, Kept, Armed, Filling, Opened, Up
<1> QED  BY <1>1, <1>2, <1>3, <1>4 DEF IInv

LEMMA StepSafe == IInv /\ [Next]_vars => IInv'
<1> SUFFICES ASSUME IInv, [Next]_vars PROVE IInv'
  OBVIOUS
<1>1. CASE Next
  <2>1. TypeOK' /\ PaidWhereStaked'
    BY <1>1, WalletAssumption, TradingAssumption, TypeStep, MoneyStep DEF IInv
  <2>2. Phases' /\ SaidIsPaid' /\ \A p \in Positions : Tracked(p)' /\ Known(p)'
    BY <1>1, WalletAssumption, TradingAssumption, PositionStep
  <2>3. \A o \in Orders : Ordered(o)'
    BY <1>1, WalletAssumption, TradingAssumption, OrderStep
  <2> QED  BY <2>1, <2>2, <2>3 DEF IInv, StakesKnown, OpenRows, Known
<1>2. CASE UNCHANGED vars
  <2> USE <1>2 DEF vars, walletVars, orderVars, engineVars
  <2>1. TypeOK'
    BY DEF IInv, TypeOK, WalletTypeOK, OrdersTypeOK
  <2>2. Phases' /\ PaidWhereStaked' /\ SaidIsPaid' /\ StakesKnown'
    BY DEF IInv, Phases, Up, PaidWhereStaked, SaidIsPaid, StakesKnown, OpenRows
  <2>3. \A p \in Positions : Tracked(p)'
    BY DEF IInv, Tracked
  <2>4. \A o \in Orders : Ordered(o)'
    BY DEF IInv, Ordered, MayFill, Recorded, Booting, Kept, Armed, Filling, Opened, Up,
           BeingFilled, CancelExcused, OpenExcused
  <2> QED  BY <2>1, <2>2, <2>3, <2>4 DEF IInv
<1> QED  BY <1>1, <1>2

\* Types: no bucket of the wallet ever goes below zero.
THEOREM TradingTypes == Spec => []TypeOK
<1>1. IInv => TypeOK
  BY DEF IInv
<1> QED  BY <1>1, InitSafe, StepSafe, PTL DEF Spec

\* A payout goes to the bucket its stake left (fn_settle_position).
THEOREM PaidHome == Spec => []PaidWhereStaked
<1>1. IInv => PaidWhereStaked
  BY DEF IInv
<1> QED  BY <1>1, InitSafe, StepSafe, PTL DEF Spec

\* What finalize announces is what the row records.
THEOREM SettlementIsSaid == Spec => []SaidIsPaid
<1>1. IInv => SaidIsPaid
  BY DEF IInv
<1> QED  BY <1>1, InitSafe, StepSafe, PTL DEF Spec

\* No open position is lost from sight, but for a lost reply or recovery.
THEOREM StakesStayKnown == Spec => []StakesKnown
<1>1. IInv => StakesKnown
  BY DEF IInv
<1> QED  BY <1>1, InitSafe, StepSafe, PTL DEF Spec

\* An order in the book has opened nothing (PendingOrders.step).
THEOREM OrdersFillOnce == Spec => []ArmedOnce
<1>1. IInv => ArmedOnce
  BY OpenedForNone DEF IInv, TypeOK, OrdersTypeOK, Ordered, MayFill, OpenExcused, ArmedOnce
<1> QED  BY <1>1, InitSafe, StepSafe, PTL DEF Spec

\* An armed order is not forgotten (PendingOrders.step, recoverAll).
THEOREM OrdersAreKept == Spec => []ArmedKept
<1>1. IInv => ArmedKept
  BY OpenedForNone DEF IInv, Ordered, Kept, ArmedKept
<1> QED  BY <1>1, InitSafe, StepSafe, PTL DEF Spec

\* Filled and cancelled orders open nothing more.
THEOREM EndedOrders == Spec => EndedStaysEnded
<1> DEFINE Step == \A o \in Orders : OpenedFor(o)' # OpenedFor(o) =>
              /\ orow[o] # "filled"
              /\ asked[o] = "canceled" => excuse[o] \intersect {"due", "unmarked"} # {}
<1>1. IInv /\ [Next]_vars => [Step]_vars
  BY OrderStep, WalletAssumption, TradingAssumption DEF EndedStep, CancelExcused
<1> QED  BY <1>1, InitSafe, StepSafe, PTL DEF Spec, EndedStaysEnded

\* The engine, its crashes and its retries keep the promise of module Stakes.
THEOREM TradingKeepsStakes == Spec => StakesKept
<1>1. Init => Promise!Init
  <2> SUFFICES ASSUME Init PROVE Promise!Init
    OBVIOUS
  <2>1. Purse \in [Promise!Purses -> Nat]
    BY WalletAssumption DEF Init, WalletInit, Purse, Promise!Purses, Buckets
  <2>2. account.marketer \in BOOLEAN
    BY DEF Init, WalletInit
  <2>3. Trades = [p \in Positions |-> "none"]
    BY DEF Init, WalletInit, Trades, Trade, NoRow
  <2> QED  BY <2>1, <2>2, <2>3 DEF Promise!Init, Trades
<1>2. IInv /\ [Next]_vars => [Promise!Next]_(Promise!vars)
  <2> SUFFICES ASSUME IInv, [Next]_vars PROVE Promise!Next \/ UNCHANGED Promise!vars
    OBVIOUS
  <2>1. CASE Next
    BY <2>1, WalletAssumption, MoneyStep DEF IInv
  <2>2. CASE UNCHANGED vars
    <3>1. UNCHANGED <<row, wallet, account>>
      BY <2>2 DEF vars, walletVars
    <3> QED  BY <3>1, Zenon DEF Promise!vars, Trade, Purse
  <2> QED  BY <2>1, <2>2
<1> QED  BY <1>1, <1>2, InitSafe, StepSafe, PTL DEF Spec, StakesKept, Promise!Spec
=============================================================================
