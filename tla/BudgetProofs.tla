----------------------------- MODULE BudgetProofs -----------------------------
(***************************************************************************)
(* Proofs about the sums of PoolTrades, for every set of trades, players   *)
(* and amounts: the pool's counters are its ledger's sums, what the        *)
(* decided trades pay fits the day's budget, the pacing memory counts each *)
(* stake once, and a reservation from a fresh snapshot keeps the target.   *)
(***************************************************************************)
EXTENDS PoolProofs

-----------------------------------------------------------------------------
(* The ledger tie.  A pool function moves one ledger entry, and with it    *)
(* the row's counters by as much.                                          *)

Unpaid    == [p \in Positions |-> Outstanding(p)]
Committed == [p \in Positions |-> ledger[p].commit]

LEMMA TieSums ==
    LedgerTie <=> /\ row.reserved = SumFunctionOnSet(Unpaid, Positions)
                  /\ row.paid = SumFunctionOnSet(Committed, Positions)
BY DEF LedgerTie, SumFunction, Unpaid, Committed

\* An entry that moves takes the row's counters along.
LEMMA EntryTie ==
    ASSUME PoolTypeOK, PoolTypeOK', LedgerTie, NEW p \in Positions,
           \A q \in Positions \ {p} : ledger'[q] = ledger[q],
           row'.reserved - row.reserved = Outstanding(p)' - Outstanding(p),
           row'.paid - row.paid = ledger'[p].commit - ledger[p].commit
    PROVE  LedgerTie'
<1> USE DEF PoolTypeOK, Entry, Row
<1>1. \A q \in Positions : Unpaid[q] \in Int /\ Unpaid'[q] \in Int
  BY DEF Unpaid, Outstanding
<1>2. \A q \in Positions : Committed[q] \in Int /\ Committed'[q] \in Int
  BY DEF Committed
<1>3. IsFiniteSet(Positions) /\ p \in Positions
  BY DailyPoolAssumption DEF DailyPoolAssumption
<1>4. SumFunctionOnSet(Unpaid', Positions)
        = SumFunctionOnSet(Unpaid, Positions) + Unpaid'[p] - Unpaid[p]
  <2>1. \A q \in Positions \ {p} : Unpaid'[q] = Unpaid[q]
    BY DEF Unpaid, Outstanding
  <2> QED  BY ONLY <1>1, <1>3, <2>1, SumUpdate
<1>5. SumFunctionOnSet(Committed', Positions)
        = SumFunctionOnSet(Committed, Positions) + Committed'[p] - Committed[p]
  <2>1. \A q \in Positions \ {p} : Committed'[q] = Committed[q]
    BY DEF Committed
  <2> QED  BY ONLY <1>2, <1>3, <2>1, SumUpdate
<1>6. /\ Unpaid[p] = Outstanding(p) /\ Unpaid'[p] = Outstanding(p)'
      /\ Committed[p] = ledger[p].commit /\ Committed'[p] = ledger'[p].commit
  BY DEF Unpaid, Committed
<1>7. /\ row.reserved = SumFunctionOnSet(Unpaid, Positions)
      /\ row.paid = SumFunctionOnSet(Committed, Positions)
  BY TieSums
<1>8. /\ row'.reserved = SumFunctionOnSet(Unpaid', Positions)
      /\ row'.paid = SumFunctionOnSet(Committed', Positions)
  <2>1. /\ row.reserved \in Int /\ row'.reserved \in Int /\ row.paid \in Int /\ row'.paid \in Int
        /\ Unpaid[p] \in Int /\ Unpaid'[p] \in Int /\ Committed[p] \in Int /\ Committed'[p] \in Int
    BY <1>1, <1>2
  <2> QED  BY <1>4, <1>6, <1>7, <1>5, <2>1
<1> QED  BY <1>8 DEF LedgerTie, SumFunction, Unpaid, Committed

\* Every function of the pool keeps the tie.
LEMMA PoolStepTie ==
    ASSUME PoolInv, LedgerTie, [PoolNext]_poolVars
    PROVE  LedgerTie'
<1>0. PoolTypeOK /\ PoolTypeOK'
  BY PoolStepSafe DEF PoolInv
<1>1. CASE UNCHANGED ledger /\ row'.reserved = row.reserved /\ row'.paid = row.paid
  BY <1>1 DEF LedgerTie, Outstanding
<1>2. CASE EnsureDay \/ \E amount \in Amounts : TopupToday(amount) \/ AdminSetPool(amount)
  <2>1. EnsuredRow.reserved = row.reserved /\ EnsuredRow.paid = row.paid /\ EnsuredRow \in Row
    BY <1>0, DailyPoolAssumption DEF PoolInv, Unfunded, PoolTypeOK, Row, EnsuredRow,
       DailyPoolAssumption
  <2>2. UNCHANGED ledger /\ row'.reserved = row.reserved /\ row'.paid = row.paid
    BY <1>0, <1>2, <2>1 DEF EnsureDay, TopupToday, AdminSetPool, PoolTypeOK, Row
  <2> QED  BY <1>1, <2>2
<1>3. ASSUME NEW p \in Positions, NEW amount \in Nat, PoolReserve(p, amount)
      PROVE  LedgerTie'
  <2>1. CASE ledger[p].reserve = 0 /\ Grant(p, amount) > 0
    <3>1. Grant(p, amount) \in Nat
      BY <1>0, <1>3, ReserveMoves
    <3>2. row' = [row EXCEPT !.reserved = @ + Grant(p, amount)]
          /\ ledger' = [ledger EXCEPT ![p].reserve = Grant(p, amount)]
      BY <1>3, <2>1 DEF PoolReserve
    <3> HIDE DEF Grant
    <3>3. /\ row'.reserved - row.reserved = Grant(p, amount) /\ row'.paid - row.paid = 0
          /\ Outstanding(p)' - Outstanding(p) = Grant(p, amount)
          /\ ledger'[p].commit - ledger[p].commit = 0
          /\ \A q \in Positions \ {p} : ledger'[q] = ledger[q]
      BY <1>0, <2>1, <3>1, <3>2 DEF PoolTypeOK, Row, Entry, Outstanding
    <3> QED  BY <1>0, <3>3, EntryTie
  <2>2. CASE ~(ledger[p].reserve = 0 /\ Grant(p, amount) > 0)
    BY <1>1, <1>3, <2>2 DEF PoolReserve, poolVars
  <2> QED  BY <2>1, <2>2
<1>4. ASSUME NEW p \in Positions, PoolCommit(p)
      PROVE  LedgerTie'
  <2>1. CASE Outstanding(p) > 0
    <3>1. row' = [row EXCEPT !.reserved = @ - Outstanding(p), !.paid = @ + Outstanding(p)]
          /\ ledger' = [ledger EXCEPT ![p].commit = @ + Outstanding(p)]
      BY <1>0, <1>4, <2>1 DEF PoolCommit, PoolTypeOK, Entry, Outstanding
    <3>2. /\ row'.reserved - row.reserved = 0 - Outstanding(p)
          /\ row'.paid - row.paid = Outstanding(p)
          /\ Outstanding(p)' - Outstanding(p) = 0 - Outstanding(p)
          /\ ledger'[p].commit - ledger[p].commit = Outstanding(p)
          /\ \A q \in Positions \ {p} : ledger'[q] = ledger[q]
      BY <1>0, <3>1 DEF PoolTypeOK, Row, Entry, Outstanding
    <3> QED  BY <1>0, <3>2, EntryTie
  <2>2. CASE ~(Outstanding(p) > 0)
    BY <1>1, <1>4, <2>2 DEF PoolCommit, poolVars
  <2> QED  BY <2>1, <2>2
<1>5. ASSUME NEW p \in Positions, PoolRelease(p)
      PROVE  LedgerTie'
  <2>1. CASE Outstanding(p) > 0
    <3>1. row' = [row EXCEPT !.reserved = @ - Outstanding(p)]
          /\ ledger' = [ledger EXCEPT ![p].release = @ + Outstanding(p)]
      BY <1>0, <1>5, <2>1 DEF PoolRelease, PoolTypeOK, Entry, Outstanding
    <3>2. /\ row'.reserved - row.reserved = 0 - Outstanding(p)
          /\ row'.paid - row.paid = 0
          /\ Outstanding(p)' - Outstanding(p) = 0 - Outstanding(p)
          /\ ledger'[p].commit - ledger[p].commit = 0
          /\ \A q \in Positions \ {p} : ledger'[q] = ledger[q]
      BY <1>0, <3>1 DEF PoolTypeOK, Row, Entry, Outstanding
    <3> QED  BY <1>0, <3>2, EntryTie
  <2>2. CASE ~(Outstanding(p) > 0)
    BY <1>1, <1>5, <2>2 DEF PoolRelease, poolVars
  <2> QED  BY <2>1, <2>2
<1>6. CASE UNCHANGED poolVars
  BY <1>1, <1>6 DEF poolVars
<1> QED  BY <1>2, <1>3, <1>4, <1>5, <1>6 DEF PoolNext

\* The ledger tie of fn_pool_reconcile: at every moment, crashes and lost
\* replies included, the row's counters are the sums of the pool's ledger.
THEOREM LedgerTied == Spec => []LedgerTie
<1>1. Init => LedgerTie
  <2> SUFFICES ASSUME Init PROVE LedgerTie
    OBVIOUS
  <2>1. \A p \in Positions : Unpaid[p] = 0 /\ Committed[p] = 0
    BY DEF Init, PoolInit, NoEntry, Unpaid, Committed, Outstanding
  <2>2. SumFunctionOnSet(Unpaid, Positions) = 0 /\ SumFunctionOnSet(Committed, Positions) = 0
    BY <2>1, SumZero, DailyPoolAssumption DEF DailyPoolAssumption
  <2> QED  BY <2>2, TieSums DEF Init, PoolInit, NoRow
<1>2. IInv /\ LedgerTie /\ [Next]_vars => LedgerTie'
  BY StepIsPoolStep, PoolStepTie DEF IInv, PoolInv, BooksTypeOK
<1> QED  BY <1>1, <1>2, Inductive, PTL DEF Spec

-----------------------------------------------------------------------------
(* The day's wins.  What a decided trade pays is what the ledger holds or  *)
(* paid for it, and those are the row's counters.                          *)

OnLedger == [p \in Positions |-> ledger[p].reserve - ledger[p].release]
Pay      == [p \in Positions |-> position[p].payout]

\* docs/25: the payouts of the day's decided trades never exceed its budget.
THEOREM DecidedWinsFit == Spec => []DecidedWinsWithinPool
<1>1. IInv /\ LedgerTie => DecidedWinsWithinPool
  <2> SUFFICES ASSUME IInv, LedgerTie
               PROVE  DecidedWinsWithinPool
    OBVIOUS
  <2> DEFINE Wins == {p \in {q \in Positions : decision[q] # Unset} :
                        position[p].status = "settled"}
  <2>1. IsFiniteSet(Positions) /\ IsFiniteSet(Wins)
    BY DailyPoolAssumption, FS_Subset DEF DailyPoolAssumption
  <2>2. PoolTypeOK /\ row \in Row /\ BooksTypeOK /\ HardCap
    BY DEF IInv, BooksTypeOK, PoolTypeOK
  <2>3. \A p \in Positions : /\ Unpaid[p] \in Int /\ Committed[p] \in Int
                             /\ OnLedger[p] = Unpaid[p] + Committed[p]
    BY <2>2 DEF PoolTypeOK, Entry, Unpaid, Committed, OnLedger, Outstanding
  <2>4. SumFunctionOnSet(OnLedger, Positions)
          = SumFunctionOnSet(Unpaid, Positions) + SumFunctionOnSet(Committed, Positions)
    BY ONLY <2>1, <2>3, SumPlus
  <2>5. \A p \in Positions : OnLedger[p] \in Nat
    BY <2>2 DEF IInv, Lifecycle, Local, WholeMoves, PoolTypeOK, Entry, OnLedger
  <2>6. \A p \in Wins : Pay[p] \in Int /\ OnLedger[p] \in Int /\ Pay[p] <= OnLedger[p]
    <3> SUFFICES ASSUME NEW p \in Wins
                 PROVE  Pay[p] \in Int /\ OnLedger[p] \in Int /\ Pay[p] <= OnLedger[p]
      OBVIOUS
    <3>1. position[p].payout = decision[p] /\ decision[p] \in Nat
      BY <2>2 DEF IInv, Lifecycle, Local, PaysDecision, BooksTypeOK, Unset
    <3>2. decision[p] > 0 => OnLedger[p] = decision[p]
      BY <2>2, <3>1 DEF IInv, Lifecycle, Local, WinIsHeld, OnLedger, PoolTypeOK, Entry
    <3>3. OnLedger[p] \in Nat /\ Pay[p] = decision[p]
      BY <2>5, <3>1 DEF Pay
    <3> QED  BY <3>1, <3>2, <3>3
  <2>7. SumFunctionOnSet(Pay, Wins) <= SumFunctionOnSet(OnLedger, Wins)
    BY ONLY <2>1, <2>6, SumMonotone
  <2>8. SumFunctionOnSet(OnLedger, Wins) <= SumFunctionOnSet(OnLedger, Positions)
    <3>1. Wins \in SUBSET Positions
      OBVIOUS
    <3> QED  BY ONLY <2>1, <2>5, <3>1, SumSubset
  <2>9. /\ SumFunctionOnSet(Pay, Wins) \in Int /\ SumFunctionOnSet(OnLedger, Wins) \in Int
        /\ SumFunctionOnSet(OnLedger, Positions) = row.reserved + row.paid
    <3>1. /\ \A p \in Wins : Pay[p] \in Int
          /\ \A p \in Wins : OnLedger[p] \in Int
      BY <2>6
    <3>2. /\ SumFunctionOnSet(Pay, Wins) \in Int
          /\ SumFunctionOnSet(OnLedger, Wins) \in Int
      BY ONLY <2>1, <3>1, SumInt
    <3> QED  BY <2>4, <3>2, TieSums
  <2>10. SumFunctionOnSet(Pay, Wins) <= row.amount
    <3> HIDE DEF Wins
    <3>1. /\ row.amount \in Int /\ row.paid \in Int /\ row.reserved \in Int
          /\ row.amount >= row.paid + row.reserved
      BY <2>2 DEF Row, HardCap
    <3> QED  BY <2>7, <2>8, <2>9, <3>1
  <2> QED  BY <2>10 DEF DecidedWinsWithinPool, Credited, Payouts, Pay
<1> QED  BY <1>1, Inductive, LedgerTied, PTL

-----------------------------------------------------------------------------
(* The pacing memory.  Its seeds are sums over some of the day's trades,   *)
(* and the set of the trades it may count only grows.                      *)

StakeOf  == [p \in Positions |-> Stake(p)]
Before   == Opening \ {"saving"}
CountSet == {p \in Positions : Counted(p)}
Taken    == {p \in Positions : position[p].status # "none"}

LEMMA StakesType ==
    /\ \A p \in Positions : StakeOf[p] = Stake(p) /\ Stake(p) \in Nat \ {0} /\ User(p) \in Users
    /\ IsFiniteSet(Positions)
    /\ \A S \in SUBSET Positions : Stakes(S) = SumFunctionOnSet(StakeOf, S) /\ Stakes(S) \in Nat
<1>1. \A p \in Positions : StakeOf[p] = Stake(p) /\ Stake(p) \in Nat \ {0} /\ User(p) \in Users
  BY PoolTradesAssumption DEF PoolTradesAssumption, Stake, User, StakeOf
<1>2. IsFiniteSet(Positions)
  BY DailyPoolAssumption DEF DailyPoolAssumption
<1>3. ASSUME NEW S \in SUBSET Positions
      PROVE  Stakes(S) = SumFunctionOnSet(StakeOf, S) /\ Stakes(S) \in Nat
  <2>1. IsFiniteSet(S) /\ \A p \in S : StakeOf[p] \in Nat
    BY <1>1, <1>2, FS_Subset
  <2>2. SumFunctionOnSet(StakeOf, S) \in Nat
    BY ONLY <2>1, SumNat
  <2> QED  BY <2>2 DEF Stakes, StakeOf
<1> QED  BY <1>1, <1>2, <1>3

\* More trades have staked no less.
LEMMA StakesGrow ==
    ASSUME NEW S \in SUBSET Positions, NEW R \in SUBSET S
    PROVE  Stakes(R) <= Stakes(S)
<1>1. IsFiniteSet(S) /\ (\A p \in S : StakeOf[p] \in Nat) /\ R \in SUBSET S
  BY StakesType, FS_Subset
<1>2. SumFunctionOnSet(StakeOf, R) <= SumFunctionOnSet(StakeOf, S)
  BY ONLY <1>1, SumSubset
<1> QED  BY <1>2, StakesType

\* A trade that joins brings its stake.
LEMMA StakesJoin ==
    ASSUME NEW S \in SUBSET Positions, NEW R \in SUBSET S, NEW p \in S, p \notin R
    PROVE  Stakes(R) + Stake(p) <= Stakes(S)
<1>1. /\ IsFiniteSet(R) /\ p \notin R
      /\ \A q \in R \union {p} : StakeOf[q] \in Int
  BY StakesType, FS_Subset
<1>2. SumFunctionOnSet(StakeOf, R \union {p}) = StakeOf[p] + SumFunctionOnSet(StakeOf, R)
  BY ONLY <1>1, SumAdd
<1>3. Stakes(R \union {p}) <= Stakes(S)
  BY StakesGrow
<1>4. /\ Stakes(R \union {p}) = Stake(p) + Stakes(R)
      /\ Stakes(R) \in Nat /\ Stake(p) \in Nat /\ Stakes(S) \in Nat
  BY <1>2, StakesType
<1> QED  BY <1>3, <1>4

\* A decided trade is one the turnover may count.
LEMMA DecidedIsCounted ==
    ASSUME IInv, NEW p \in Positions, decision[p] # Unset
    PROVE  Counted(p)
BY DEF IInv, Lifecycle, Local, Fresh, HandlerInStep, Counted, Undecided, Opening

LEMMA SessionSeedType ==
    ASSUME BooksTypeOK, NEW u
    PROVE  SessionSeed(u) \in Nat
<1>1. IsFiniteSet(SettledOf(u)) /\ \A p \in SettledOf(u) : Pay[p] \in Nat
  BY StakesType, FS_Subset DEF SettledOf, Pay, BooksTypeOK
<1>2. SumFunctionOnSet(Pay, SettledOf(u)) \in Nat
  BY ONLY <1>1, SumNat
<1> QED  BY <1>2 DEF SessionSeed, Payouts, Pay

-----------------------------------------------------------------------------
\* A step of one trade neither takes it back out of the day nor out of the
\* trades the turnover may count.
LEMMA TradeGrows ==
    ASSUME IInv, NEW p \in Positions, Open(p) \/ Proceed(p) \/ Fault(p)
    PROVE  /\ position[p].status # "none" => position'[p].status # "none"
           /\ Counted(p) => handler'[p].at \notin Before
           /\ \A q \in Others(p) : handler'[q] = handler[q] /\ position'[q] = position[q]
<1>0. /\ handler \in [Positions -> Handlers] /\ position \in [Positions -> Trades]
      /\ handler[p].payout \in Nat /\ decision[p] \in Nat \union {Unset}
      /\ position[p].status \in {"none", "open", "settled"}
      /\ At(p, "idle") => position[p].status = "none"
      /\ handler[p].at \in Steps
  BY DEF IInv, BooksTypeOK, Handlers, Trades, Lifecycle, Local, HandlerInStep
<1> USE DEF Before, Opening, Steps, Counted, At
<1>1. CASE Open(p)
  BY <1>0, <1>1, GotoMoves DEF Open, Others
<1>2. CASE ReadPool(p) \/ LookUpSession(p) \/ StoreSession(p) \/ SeedTurnover(p) \/ Decide(p)
  <2>1. handler[p].at \in Before /\ position' = position
    BY <1>2 DEF ReadPool, LookUpSession, StoreSession, SeedTurnover, Decide
  <2>2. \A q \in Others(p) : handler'[q] = handler[q]
    <3>1. CASE ReadPool(p)
      BY <1>0, <3>1 DEF ReadPool, Others
    <3>2. CASE LookUpSession(p) \/ StoreSession(p) \/ SeedTurnover(p)
      BY <1>0, <3>2, GotoMoves DEF LookUpSession, StoreSession, SeedTurnover
    <3>3. CASE Decide(p)
      BY <1>0, <3>3, RestMoves DEF Decide, Others
    <3> QED  BY <1>2, <3>1, <3>2, <3>3
  <2> QED  BY <2>1, <2>2
<1>3. CASE Reserve(p) \/ ReleaseHold(p)
  <2>1. handler[p].at \in Before /\ position' = position
    BY <1>3 DEF Reserve, ReleaseHold
  <2>2. \E step \in Steps : \E payout : Rest(p, step, payout)
    BY <1>3 DEF Reserve, ReleaseHold
  <2> QED  BY <1>0, <2>1, <2>2 DEF Rest, Others
<1>4. CASE SaveDecision(p) \/ SettleSession(p) \/ Commit(p)
  <2>1. position' = position
    BY <1>4 DEF SaveDecision, SettleSession, Commit
  <2>2. /\ handler'[p].at \notin Before
        /\ \A q \in Others(p) : handler'[q] = handler[q]
    BY <1>0, <1>4, GotoMoves, RestMoves DEF SaveDecision, SettleSession, Commit
  <2> QED  BY <2>1, <2>2
<1>5. CASE Settle(p) \/ RecoverDecided(p) \/ RecoverStatistical(p)
  <2>1. /\ handler'[p].at \notin Before
        /\ \A q \in Others(p) : handler'[q] = handler[q]
    BY <1>0, <1>5, GotoMoves, RestMoves DEF Settle, RecoverDecided, RecoverStatistical
  <2>2. /\ position[p].status # "none" => position'[p].status # "none"
        /\ \A q \in Others(p) : position'[q] = position[q]
    <3>1. position' = position \/ \E payout \in Nat : SettlePosition(p, payout)
      BY <1>0, <1>5, PoolTradesAssumption DEF Settle, RecoverDecided, RecoverStatistical,
         PoolTradesAssumption
    <3> QED  BY <1>0, <3>1, SettleMoves
  <2> QED  BY <2>1, <2>2
<1>6. CASE Fault(p)
  <2>1. /\ handler'[p] = handler[p] \/ handler'[p].at \in {"done", "failed"}
        /\ \A q \in Others(p) : handler'[q] = handler[q]
    BY <1>0, <1>6, RestMoves DEF Fault
  <2>2. /\ position[p].status # "none" => position'[p].status # "none"
        /\ \A q \in Others(p) : position'[q] = position[q]
    <3>1. \/ position' = position
          \/ position' = [position EXCEPT ![p].status = "open"]
          \/ \E payout \in Nat : SettlePosition(p, payout)
      BY <1>0, <1>6, PoolTradesAssumption DEF Fault, ReplyLost, PoolTradesAssumption
    <3>2. CASE position' = [position EXCEPT ![p].status = "open"]
      BY <1>0, <3>2 DEF Others, Trades
    <3> QED  BY <1>0, <3>1, <3>2, SettleMoves
  <2> QED  BY <2>1, <2>2
<1> QED  BY <1>1, <1>2, <1>3, <1>4, <1>5, <1>6 DEF Proceed

\* No step of the system makes either set smaller.
LEMMA SetsGrow ==
    ASSUME IInv, [Next]_vars
    PROVE  CountSet \subseteq CountSet' /\ Taken \subseteq Taken'
<1>1. ASSUME NEW p \in Positions, Open(p) \/ Proceed(p) \/ Fault(p)
      PROVE  CountSet \subseteq CountSet' /\ Taken \subseteq Taken'
  BY <1>1, TradeGrows DEF CountSet, Taken, Counted, Before, Others
<1>2. CASE Restart
  <2>1. ASSUME NEW p \in CountSet
        PROVE  handler'[p].at \in {"recovering", "done"} /\ position'[p] = position[p]
    BY <1>2, <2>1 DEF Restart, CountSet, Counted, Idle
  <2> QED  BY <1>2, <2>1 DEF Restart, CountSet, Taken, Counted, Opening
<1>3. CASE MoveBudget \/ Connect \/ BootStreamers \/ UNCHANGED vars
  BY <1>3 DEF MoveBudget, Connect, BootStreamers, tradeVars, vars, CountSet, Taken, Counted
<1> QED  BY <1>1, <1>2, <1>3 DEF Next

-----------------------------------------------------------------------------
(* The inductive invariant of the pacing memory: a seed that is on its way *)
(* counts no more than the turnover may count by now, and a reserve about  *)
(* to be asked for fits the RTP budget of the stakes taken by now.         *)

MemoryTypes ==
    /\ seed \in [Positions -> Nat]
    /\ turnover \in Nat \union {Unset}
    /\ returned \in [Users -> Nat \union {Unset}]

SeedsCount == \A p \in Positions : At(p, "turnoverSeed") => seed[p] <= Stakes(CountSet)

Affordable(p) == handler[p].payout + handler[p].spent <= RtpBudget(Stakes(Taken))

Paced ==
    /\ MemoryTypes
    /\ turnover <= Stakes(CountSet)
    /\ SeedsCount
    /\ \A p \in Positions : At(p, "reserving") => Affordable(p)

\* A larger turnover has no smaller budget.
LEMMA BudgetGrows ==
    ASSUME NEW s \in Nat, NEW t \in Nat, s <= t
    PROVE  RtpBudget(s) <= RtpBudget(t) /\ RtpBudget(s) \in Nat
<1>1. RtpNum \in Nat /\ RtpDen \in Nat /\ RtpDen > 0
  BY PoolTradesAssumption DEF PoolTradesAssumption
<1>2. RtpNum * s <= RtpNum * t /\ RtpNum * s \in Nat /\ RtpNum * t \in Nat
  BY <1>1
<1>3. \A a, b \in Nat : a <= b => a \div RtpDen <= b \div RtpDen /\ a \div RtpDen \in Nat
  BY <1>1
<1> QED  BY <1>2, <1>3 DEF RtpBudget

\* A decision's ceiling is no more than what the RTP budget has left.
LEMMA CeilingFits ==
    ASSUME NEW p \in Positions, NEW t, RtpBudget(t) \in Nat, handler[p] \in Handlers,
           returned[User(p)] \in Int, NEW x \in Nat, x <= Ceiling(p, t)
    PROVE  x <= Positive(RtpBudget(t) - handler[p].spent)
<1> DEFINE a == Positive(handler[p].amount - handler[p].spent)
           b == Positive(ShareCap(handler[p].amount) - returned[User(p)])
           c == Positive(RtpBudget(t) - handler[p].spent)
<1>1. handler[p].amount \in Nat /\ handler[p].spent \in Nat
  BY DEF Handlers
<1>2. ShareCap(handler[p].amount) \in Int
  <2>1. ShareNum * handler[p].amount \in Nat /\ ShareDen \in Nat /\ ShareDen > 0
    BY <1>1, PoolTradesAssumption DEF PoolTradesAssumption
  <2> QED  BY <2>1 DEF ShareCap
<1>3. a \in Int /\ b \in Int /\ c \in Int
  BY <1>1, <1>2 DEF Positive
<1> HIDE DEF a, b, c
<1>4. \E m \in {a, b, c} : \A n \in {a, b, c} : m <= n
  BY <1>3
<1>5. Min({a, b, c}) \in {a, b, c} /\ Min({a, b, c}) <= c
  BY <1>3, <1>4 DEF Min
<1>6. x <= Min({a, b, c})
  BY DEF Ceiling, a, b, c
<1>7. x <= c
  BY <1>3, <1>5, <1>6
<1> QED  BY <1>7 DEF c

\* What either set has staked only grows, and so does its budget.
LEMMA SumsGrow ==
    ASSUME IInv, [Next]_vars
    PROVE  /\ Stakes(CountSet) <= Stakes(CountSet') /\ Stakes(CountSet) \in Nat
           /\ Stakes(CountSet') \in Nat
           /\ RtpBudget(Stakes(Taken)) <= RtpBudget(Stakes(Taken'))
           /\ RtpBudget(Stakes(Taken)) \in Nat /\ RtpBudget(Stakes(Taken')) \in Nat
<1>1. /\ CountSet \in SUBSET CountSet' /\ CountSet' \in SUBSET Positions
      /\ Taken \in SUBSET Taken' /\ Taken' \in SUBSET Positions
  BY SetsGrow DEF CountSet, Taken
<1>2. Stakes(CountSet) <= Stakes(CountSet') /\ Stakes(Taken) <= Stakes(Taken')
  BY <1>1, StakesGrow
<1>3. /\ Stakes(CountSet) \in Nat /\ Stakes(CountSet') \in Nat
      /\ Stakes(Taken) \in Nat /\ Stakes(Taken') \in Nat
  BY <1>1, StakesType
<1>4. RtpBudget(Stakes(Taken')) \in Nat
  BY <1>3, BudgetGrows
<1> QED  BY <1>2, <1>3, <1>4, BudgetGrows

\* A step of one trade leaves the seeds and reserves of the others affordable.
LEMMA OneTradePaced ==
    ASSUME IInv, Paced, NEW p \in Positions, Open(p) \/ Proceed(p) \/ Fault(p),
           MemoryTypes', turnover' <= Stakes(CountSet'),
           \A q \in Others(p) : seed'[q] = seed[q],
           At(p, "turnoverSeed")' => seed'[p] <= Stakes(CountSet'),
           At(p, "reserving")' =>
               handler'[p].payout + handler'[p].spent <= RtpBudget(Stakes(Taken'))
    PROVE  Paced'
<1>0. /\ Stakes(CountSet) <= Stakes(CountSet') /\ Stakes(CountSet) \in Nat
      /\ Stakes(CountSet') \in Nat
      /\ RtpBudget(Stakes(Taken)) <= RtpBudget(Stakes(Taken'))
      /\ RtpBudget(Stakes(Taken)) \in Nat /\ RtpBudget(Stakes(Taken')) \in Nat
  BY SumsGrow DEF Next
<1>1. \A q \in Others(p) : handler'[q] = handler[q]
  BY TradeGrows
<1>2. ASSUME NEW q \in Positions, At(q, "turnoverSeed")'
      PROVE  seed'[q] <= Stakes(CountSet')
  <2>1. CASE q = p
    BY <1>2, <2>1
  <2>2. CASE q # p
    <3>1. seed'[q] = seed[q] /\ seed[q] \in Nat /\ seed[q] <= Stakes(CountSet)
      BY <1>1, <1>2, <2>2 DEF Paced, SeedsCount, MemoryTypes, Others, At
    <3> QED  BY <1>0, <3>1
  <2> QED  BY <2>1, <2>2
<1>3. ASSUME NEW q \in Positions, At(q, "reserving")'
      PROVE  handler'[q].payout + handler'[q].spent <= RtpBudget(Stakes(Taken'))
  <2>1. CASE q = p
    BY <1>3, <2>1
  <2>2. CASE q # p
    <3>1. /\ handler'[q] = handler[q] /\ handler[q].payout + handler[q].spent \in Nat
          /\ handler[q].payout + handler[q].spent <= RtpBudget(Stakes(Taken))
      BY <1>1, <1>3, <2>2 DEF Paced, Affordable, Others, At, IInv, BooksTypeOK
    <3> QED  BY <1>0, <3>1
  <2> QED  BY <2>1, <2>2
<1> QED  BY <1>2, <1>3 DEF Paced, SeedsCount, Affordable

\* An action that leaves the memory alone, and takes no seed or reserve up.
LEMMA QuietPaced ==
    ASSUME IInv, Paced, NEW p \in Positions, Open(p) \/ Proceed(p) \/ Fault(p),
           UNCHANGED <<seed, turnover, returned>>,
           handler'[p].at \notin {"turnoverSeed", "reserving"}
    PROVE  Paced'
<1>1. /\ Stakes(CountSet) <= Stakes(CountSet') /\ Stakes(CountSet) \in Nat
      /\ Stakes(CountSet') \in Nat
  BY SumsGrow DEF Next
<1>2. MemoryTypes' /\ turnover' <= Stakes(CountSet')
  BY <1>1 DEF Paced, MemoryTypes, Unset
<1> QED  BY <1>2, OneTradePaced DEF At

\* The seed queries and the session entries they fill.
LEMMA LookUpPaced ==
    ASSUME IInv, Paced, NEW p \in Positions,
           LookUpSession(p) \/ StoreSession(p) \/ SeedTurnover(p) \/ SettleSession(p)
    PROVE  Paced'
<1>0. /\ Stakes(CountSet) <= Stakes(CountSet') /\ Stakes(CountSet) \in Nat
      /\ Stakes(CountSet') \in Nat /\ Proceed(p)
  BY SumsGrow DEF Next, Proceed
<1>1. /\ handler \in [Positions -> Handlers] /\ handler[p].payout \in Nat
      /\ BooksTypeOK /\ User(p) \in Users
  BY StakesType DEF IInv, BooksTypeOK, Handlers
<1>2. UNCHANGED turnover
  BY DEF LookUpSession, StoreSession, SeedTurnover, SettleSession
<1>3. turnover' <= Stakes(CountSet')
  BY <1>0, <1>2 DEF Paced, MemoryTypes, Unset
<1>4. CASE LookUpSession(p)
  <2>1. UNCHANGED returned /\ handler'[p].at \in {"sessioned", "sessionSeed"}
    BY <1>1, <1>4, GotoMoves DEF LookUpSession, Steps, Opening
  <2>2. seed' = seed \/ seed' = [seed EXCEPT ![p] = SessionSeed(User(p))]
    BY <1>4 DEF LookUpSession
  <2>3. MemoryTypes' /\ \A q \in Others(p) : seed'[q] = seed[q]
    BY <1>1, <1>2, <2>1, <2>2, SessionSeedType DEF Paced, MemoryTypes, Others
  <2> QED  BY <1>0, <1>3, <2>1, <2>3, OneTradePaced DEF At
<1>5. CASE StoreSession(p)
  <2>1. /\ returned' = [returned EXCEPT ![User(p)] = seed[p]]
        /\ seed' = [seed EXCEPT ![p] = 0] /\ handler'[p].at = "sessioned"
    BY <1>1, <1>5, GotoMoves DEF StoreSession, Steps, Opening
  <2>2. MemoryTypes' /\ \A q \in Others(p) : seed'[q] = seed[q]
    BY <1>1, <1>2, <2>1 DEF Paced, MemoryTypes, Others
  <2> QED  BY <1>0, <1>3, <2>1, <2>2, OneTradePaced DEF At
<1>6. CASE SeedTurnover(p)
  <2>1. /\ UNCHANGED returned /\ seed' = [seed EXCEPT ![p] = TurnoverSeed]
        /\ handler'[p].at = "turnoverSeed"
    BY <1>1, <1>6, GotoMoves DEF SeedTurnover, Steps, Opening
  <2>2. TurnoverSeed \in Nat /\ TurnoverSeed <= Stakes(CountSet)
    <3>1. {q \in Positions : decision[q] # Unset} \in SUBSET CountSet
      BY DecidedIsCounted DEF CountSet
    <3>2. CountSet \in SUBSET Positions
      BY DEF CountSet
    <3> QED  BY <3>1, <3>2, StakesGrow, StakesType DEF TurnoverSeed
  <2>3. /\ MemoryTypes' /\ \A q \in Others(p) : seed'[q] = seed[q]
        /\ seed'[p] <= Stakes(CountSet')
    BY <1>0, <1>2, <2>1, <2>2 DEF Paced, MemoryTypes, Others
  <2> QED  BY <1>0, <1>3, <2>1, <2>3, OneTradePaced DEF At
<1>7. CASE SettleSession(p)
  <2>1. /\ UNCHANGED seed /\ handler'[p].at \in {"committing", "done"}
    BY <1>1, <1>7, GotoMoves, RestMoves DEF SettleSession, Steps
  <2>2. MemoryTypes'
    BY <1>1, <1>2, <1>7, <2>1 DEF SettleSession, Paced, MemoryTypes, Unset
  <2> QED  BY <1>0, <1>3, <2>1, <2>2, OneTradePaced DEF At
<1> QED  BY <1>4, <1>5, <1>6, <1>7

\* A decision: a loss counts its stake, a win fits the budget of the stakes.
LEMMA DecidePaced ==
    ASSUME IInv, Paced, NEW p \in Positions, Decide(p)
    PROVE  Paced'
<1> DEFINE read == TurnoverRead(p)
           spent == handler[p].spent
<1>0. /\ handler \in [Positions -> Handlers] /\ handler[p] \in Handlers /\ spent \in Nat
      /\ p \in Taken /\ p \notin CountSet /\ CountSet \in SUBSET Taken /\ Taken \in SUBSET Positions
  BY DEF IInv, BooksTypeOK, Handlers, Decide, At, Lifecycle, Local, HandlerInStep, Opening,
     Counted, CountSet, Taken
<1>1. /\ Stakes(CountSet) <= Stakes(CountSet') /\ Stakes(CountSet) \in Nat
      /\ Stakes(CountSet') \in Nat /\ Proceed(p)
      /\ RtpBudget(Stakes(Taken)) <= RtpBudget(Stakes(Taken'))
      /\ RtpBudget(Stakes(Taken)) \in Nat /\ RtpBudget(Stakes(Taken')) \in Nat
  BY SumsGrow DEF Next, Proceed
<1>2. read \in Nat /\ read <= Stakes(CountSet) /\ Stake(p) \in Nat /\ Stake(p) > 0
  BY StakesType DEF Decide, TurnoverRead, Paced, MemoryTypes, SeedsCount, At, Unset
<1>3. /\ seed' = [seed EXCEPT ![p] = 0] /\ UNCHANGED <<returned, position>>
  BY DEF Decide
<1>4. \A q \in Others(p) : seed'[q] = seed[q]
  BY <1>3 DEF Others, Paced, MemoryTypes
<1>5. CASE Rest(p, "saving", 0) /\ turnover' = read + Stake(p)
  <2>1. handler'[p].at = "saving"
    BY <1>0, <1>5, RestMoves DEF Steps, Opening
  <2>2. p \in CountSet' /\ CountSet' \in SUBSET Positions /\ CountSet \in SUBSET CountSet'
    BY <1>0, <1>1, <1>3, <2>1, SetsGrow DEF CountSet, Counted, Taken, Next
  <2>3. Stakes(CountSet) + Stake(p) <= Stakes(CountSet')
    BY <1>0, <2>2, StakesJoin
  <2>4. turnover' <= Stakes(CountSet') /\ turnover' \in Nat
    BY <1>1, <1>2, <1>5, <2>3
  <2>5. MemoryTypes'
    BY <1>3, <2>4 DEF Paced, MemoryTypes
  <2> QED  BY <1>1, <1>4, <2>1, <2>4, <2>5, OneTradePaced DEF At
<1>6. ASSUME NEW x \in WinningPayouts(p, Ceiling(p, read + Stake(p))),
             handler' = [handler EXCEPT ![p].at = "reserving", ![p].payout = x],
             turnover' = read
      PROVE  Paced'
  <2>1. /\ x \in Nat /\ x > 0 /\ x <= Ceiling(p, read + Stake(p))
    BY <1>2, PoolTradesAssumption DEF WinningPayouts, PoolTradesAssumption
  <2>2. read + Stake(p) \in Nat /\ read + Stake(p) <= Stakes(Taken) /\ Stakes(Taken) \in Nat
    <3>1. Stakes(CountSet) + Stake(p) <= Stakes(Taken) /\ Stakes(Taken) \in Nat
      BY <1>0, StakesJoin, StakesType
    <3> QED  BY <1>1, <1>2, <3>1
  <2>3. /\ RtpBudget(read + Stake(p)) <= RtpBudget(Stakes(Taken))
        /\ RtpBudget(read + Stake(p)) \in Nat
    BY <2>2, BudgetGrows
  <2>4. x <= Positive(RtpBudget(read + Stake(p)) - spent)
    <3>1. returned[User(p)] \in Int
      BY StakesType DEF Paced, MemoryTypes, Unset
    <3> QED  BY <2>1, <2>3, <1>0, <3>1, CeilingFits
  <2>5. x + spent <= RtpBudget(Stakes(Taken'))
    BY <1>0, <1>1, <2>1, <2>3, <2>4 DEF Positive
  <2>6. handler'[p].at = "reserving" /\ handler'[p].payout = x /\ handler'[p].spent = spent
    <3>1. [handler EXCEPT ![p].at = "reserving", ![p].payout = x]
            = [handler EXCEPT ![p] = [handler[p] EXCEPT !.at = "reserving", !.payout = x]]
      OBVIOUS
    <3> QED  BY <1>0, <1>6, <3>1 DEF Handlers
  <2>7. MemoryTypes' /\ turnover' <= Stakes(CountSet')
    BY <1>1, <1>2, <1>3, <1>6 DEF Paced, MemoryTypes
  <2> QED  BY <1>1, <1>4, <2>5, <2>6, <2>7, OneTradePaced DEF At
<1> QED  BY <1>5, <1>6 DEF Decide

\* A win that is granted, shrunk or refused counts its stake once it is decided.
LEMMA ReservePaced ==
    ASSUME IInv, Paced, NEW p \in Positions, Reserve(p) \/ ReleaseHold(p)
    PROVE  Paced'
<1>0. /\ handler \in [Positions -> Handlers] /\ handler[p].payout \in Nat
      /\ p \in Taken /\ p \notin CountSet
  BY DEF IInv, BooksTypeOK, Handlers, Reserve, ReleaseHold, At, Lifecycle, Local,
     HandlerInStep, Opening, Counted, CountSet, Taken
<1>1. /\ Stakes(CountSet) <= Stakes(CountSet') /\ Stakes(CountSet) \in Nat
      /\ Stakes(CountSet') \in Nat /\ Proceed(p)
  BY SumsGrow DEF Next, Proceed
<1>2. UNCHANGED <<seed, returned, position>>
  BY DEF Reserve, ReleaseHold
<1>3. \/ /\ \E payout : Rest(p, "saving", payout)
         /\ AdvanceTurnover(p)
      \/ Rest(p, "releasing", 0) /\ UNCHANGED turnover
  BY DEF Reserve, ReleaseHold
<1>4. CASE Rest(p, "releasing", 0) /\ UNCHANGED turnover
  <2>1. handler'[p].at = "releasing"
    BY <1>0, <1>4, RestMoves DEF Steps, Opening
  <2> QED  BY <1>1, <1>2, <1>4, <2>1, QuietPaced
<1>5. ASSUME NEW payout, Rest(p, "saving", payout), AdvanceTurnover(p)
      PROVE  Paced'
  <2>1. handler'[p].at = "saving"
    BY <1>0, <1>5 DEF Rest
  <2>2. p \in CountSet' /\ CountSet' \in SUBSET Positions /\ CountSet \in SUBSET CountSet'
    BY <1>0, <1>1, <1>2, <2>1, SetsGrow DEF CountSet, Counted, Taken, Next
  <2>3. Stakes(CountSet) + Stake(p) <= Stakes(CountSet') /\ Stake(p) \in Nat
    BY <1>0, <2>2, StakesJoin, StakesType
  <2>4. turnover' <= Stakes(CountSet') /\ turnover' \in Nat
    BY <1>1, <1>5, <2>3 DEF AdvanceTurnover, Positive, Paced, MemoryTypes, Unset
  <2>5. MemoryTypes'
    BY <1>2, <2>4 DEF Paced, MemoryTypes
  <2> QED  BY <1>1, <1>2, <2>1, <2>4, <2>5, OneTradePaced DEF At
<1> QED  BY <1>3, <1>4, <1>5

\* Every step keeps the memory paced.
LEMMA StepPaced ==
    ASSUME IInv, Paced, [Next]_vars
    PROVE  Paced'
<1>0. /\ handler \in [Positions -> Handlers]
      /\ \A p \in Positions : handler[p].payout \in Nat /\ decision[p] \in Nat \union {Unset}
  BY DEF IInv, BooksTypeOK, Handlers
<1>1. ASSUME NEW p \in Positions, Open(p)
      PROVE  Paced'
  <2>1. handler'[p].at = "opened"
    BY <1>0, <1>1, GotoMoves DEF Open, Steps, Opening
  <2> QED  BY <1>1, <2>1, QuietPaced DEF Open
<1>2. ASSUME NEW p \in Positions, Proceed(p)
      PROVE  Paced'
  <2>1. CASE LookUpSession(p) \/ StoreSession(p) \/ SeedTurnover(p) \/ SettleSession(p)
    BY <2>1, LookUpPaced
  <2>2. CASE Decide(p) \/ Reserve(p) \/ ReleaseHold(p)
    BY <2>2, DecidePaced, ReservePaced
  <2>3. CASE ReadPool(p)
    <3>1. handler'[p].at = "pooled"
      BY <1>0, <2>3 DEF ReadPool
    <3> QED  BY <1>2, <2>3, <3>1, QuietPaced DEF ReadPool
  <2>4. CASE SaveDecision(p) \/ Settle(p)
    <3>1. handler'[p].at \in {"live", "settled"}
      BY <1>0, <2>4, GotoMoves DEF SaveDecision, Settle, Steps
    <3> QED  BY <1>2, <2>4, <3>1, QuietPaced DEF SaveDecision, Settle
  <2>5. CASE Commit(p) \/ RecoverDecided(p) \/ RecoverStatistical(p)
    <3>1. handler'[p].at \in {"live", "done", "committing"}
      BY <1>0, <2>5, RestMoves DEF Commit, RecoverDecided, RecoverStatistical, Steps
    <3> QED  BY <1>2, <2>5, <3>1, QuietPaced DEF Commit, RecoverDecided, RecoverStatistical
  <2> QED  BY <1>2, <2>1, <2>2, <2>3, <2>4, <2>5 DEF Proceed
<1>3. ASSUME NEW p \in Positions, Fault(p)
      PROVE  Paced'
  <2>1. handler'[p].at \in {"live", "done", "failed"}
    BY <1>0, <1>3, RestMoves DEF Fault, Steps, At
  <2> QED  BY <1>3, <2>1, QuietPaced DEF Fault
<1>4. CASE Restart
  <2>1. /\ seed' = [p \in Positions |-> 0] /\ turnover' = Unset
        /\ returned' = [u \in Users |-> Unset]
    BY <1>4 DEF Restart
  <2>2. \A p \in Positions : handler'[p].at \in {"recovering", "idle", "done"}
    BY <1>4 DEF Restart, Idle
  <2>3. MemoryTypes' /\ turnover' <= Stakes(CountSet')
    BY <1>4, <2>1, SumsGrow DEF MemoryTypes, Unset, Next
  <2> QED  BY <2>2, <2>3 DEF Paced, SeedsCount, At
<1>5. CASE MoveBudget \/ Connect \/ BootStreamers \/ UNCHANGED vars
  <2>1. UNCHANGED <<seed, turnover, returned, handler, position>>
    BY <1>5 DEF MoveBudget, Connect, BootStreamers, tradeVars, vars
  <2>2. CountSet' = CountSet /\ Taken' = Taken
    BY <2>1 DEF CountSet, Taken, Counted
  <2> QED  BY <2>1, <2>2 DEF Paced, MemoryTypes, SeedsCount, Affordable, At
<1> QED  BY <1>1, <1>2, <1>3, <1>4, <1>5 DEF Next

\* Whatever interleaves, the pacing memory and the seeds in flight account for
\* the decided trades.
THEOREM AlwaysPaced == Spec => []Paced
<1>1. Init => Paced
  <2> SUFFICES ASSUME Init PROVE Paced
    OBVIOUS
  <2>1. Stakes(CountSet) \in Nat
    BY StakesType DEF CountSet
  <2> QED  BY <2>1 DEF Init, Paced, MemoryTypes, SeedsCount, At, Idle, Unset
<1>2. IInv /\ Paced /\ [Next]_vars => Paced'
  BY StepPaced
<1> QED  BY <1>1, <1>2, Inductive, PTL DEF Spec

\* The trades' books and the pacing memory keep their types, whatever the seed
\* queries add up to.
THEOREM TradesTyped == Spec => []TypeOK
<1>1. IInv /\ Paced => TypeOK
  BY DEF IInv, Paced, MemoryTypes, TypeOK
<1> QED  BY <1>1, Inductive, AlwaysPaced, PTL

\* The in-memory turnover never counts a stake twice or before its trade was
\* decided: not across overlapping first uses, lost replies or reseeding.
THEOREM TurnoverCountsOnce == Spec => []TurnoverNeverOvercounts
<1>1. Paced => TurnoverNeverOvercounts
  BY DEF Paced, TurnoverNeverOvercounts, CountSet
<1> QED  BY <1>1, AlwaysPaced, PTL

\* Only a reserve of p writes a reservation to p's entry, and no more than asked.
LEMMA ReserveGrants ==
    ASSUME PoolTypeOK, NEW p \in Positions, NEW amount \in Nat, PoolReserve(p, amount)
    PROVE  row'.paid + row'.reserved <= row.paid + row.reserved + amount
<1>1. row \in Row /\ ledger[p] \in Entry
  BY DEF PoolTypeOK
<1>2. CASE ledger[p].reserve = 0 /\ Grant(p, amount) > 0
  <2>1. Grant(p, amount) <= amount /\ Grant(p, amount) \in Nat
    BY <1>1, <1>2 DEF Grant, Available, Row, Entry
  <2>2. row' = [row EXCEPT !.reserved = @ + Grant(p, amount)]
    BY <1>2 DEF PoolReserve
  <2> HIDE DEF Grant
  <2>3. row'.paid = row.paid /\ row'.reserved = row.reserved + Grant(p, amount)
    BY <1>1, <2>1, <2>2 DEF Row
  <2> QED  BY <1>1, <2>1, <2>3 DEF Row
<1>3. CASE ~(ledger[p].reserve = 0 /\ Grant(p, amount) > 0)
  BY <1>1, <1>3 DEF PoolReserve, poolVars, Row
<1> QED  BY <1>2, <1>3

\* A step that raises what is reserved and changes p's entry reserves for p.
LEMMA WhoReserves ==
    ASSUME IInv, Next, NEW p \in Positions, At(p, "reserving"),
           row'.reserved > row.reserved, ledger'[p] # ledger[p]
    PROVE  PoolReserve(p, handler[p].payout)
<1>0. /\ PoolTypeOK /\ row \in Row /\ EnsuredRow.reserved = row.reserved
      /\ EnsuredRow \in Row
  BY DailyPoolAssumption DEF IInv, BooksTypeOK, PoolTypeOK, Unfunded, Row, EnsuredRow,
     DailyPoolAssumption
<1>1. ASSUME NEW q \in Positions, q # p,
             \/ PoolCommit(q) \/ PoolRelease(q) \/ \E amount : PoolReserve(q, amount)
      PROVE  ledger'[p] = ledger[p]
  BY <1>0, <1>1 DEF PoolCommit, PoolRelease, PoolReserve, poolVars, PoolTypeOK
<1>2. ASSUME NEW q \in Positions, Open(q) \/ Proceed(q) \/ Fault(q)
      PROVE  PoolReserve(p, handler[p].payout)
  <2>1. CASE q = p
    <3>1. \/ UNCHANGED ledger \/ PoolReserve(p, handler[p].payout)
      BY <1>2, <2>1 DEF At, Open, Proceed, ReadPool, LookUpSession, StoreSession, SeedTurnover,
         Decide, Reserve, ReleaseHold, SaveDecision, Settle, SettleSession, Commit,
         RecoverDecided, RecoverStatistical, Fault, ReplyLost
    <3> QED  BY <3>1
  <2>2. CASE q # p
    <3>1. \/ UNCHANGED ledger
          \/ PoolCommit(q) \/ PoolRelease(q) \/ \E amount : PoolReserve(q, amount)
      BY <1>2 DEF Open, Proceed, ReadPool, EnsureDay, LookUpSession, StoreSession, SeedTurnover,
         Decide, Reserve, ReleaseHold, SaveDecision, Settle, SettleSession, Commit,
         RecoverDecided, RecoverStatistical, Fault, ReplyLost
    <3> QED  BY <1>1, <2>2, <3>1
  <2> QED  BY <2>1, <2>2
<1>3. CASE Restart \/ MoveBudget \/ Connect \/ BootStreamers
  BY <1>3 DEF Restart, MoveBudget, TopupToday, AdminSetPool, Connect, BootStreamers
<1> QED  BY <1>2, <1>3 DEF Next

\* pool.ts: a reservation taken while the snapshot its decision used still
\* covers what the pool has spent keeps paid + reserved within the RTP budget
\* of the day's stakes, however its decision and the others interleaved.
THEOREM FreshReservesFit == Spec => FreshReserveKeepsCeiling
<1>1. ASSUME IInv, Paced, Next, NEW p \in Positions, At(p, "reserving"),
             row'.reserved > row.reserved, ledger'[p] # ledger[p], Spent <= handler[p].spent
      PROVE  RtpCeiling'
  <2>1. /\ PoolTypeOK /\ PoolTypeOK' /\ handler[p].payout \in Nat /\ handler[p].spent \in Nat
    BY <1>1, StepInv DEF IInv, BooksTypeOK
  <2>2. row'.paid + row'.reserved <= row.paid + row.reserved + handler[p].payout
    BY <1>1, <2>1, WhoReserves, ReserveGrants
  <2>3. row'.paid + row'.reserved <= handler[p].payout + handler[p].spent
    BY <1>1, <2>1, <2>2 DEF PoolTypeOK, Row, Spent
  <2>4. /\ handler[p].payout + handler[p].spent <= RtpBudget(Stakes(Taken))
        /\ RtpBudget(Stakes(Taken)) <= RtpBudget(Stakes(Taken'))
        /\ RtpBudget(Stakes(Taken)) \in Nat /\ RtpBudget(Stakes(Taken')) \in Nat
    BY <1>1, SumsGrow DEF Paced, Affordable
  <2>5. row'.paid + row'.reserved <= RtpBudget(Stakes(Taken'))
    BY <2>1, <2>3, <2>4 DEF PoolTypeOK, Row
  <2> QED  BY <2>5 DEF RtpCeiling, Spent, DayTurnover, Taken
<1>2. ASSUME IInv, Paced, [Next]_vars
      PROVE  [\A p \in Positions :
                 At(p, "reserving") /\ row'.reserved > row.reserved
                     /\ ledger'[p] # ledger[p] /\ Spent <= handler[p].spent
                 => RtpCeiling']_vars
  BY <1>1, <1>2
<1> QED  BY <1>2, Inductive, AlwaysPaced, PTL DEF Spec, FreshReserveKeepsCeiling
=============================================================================
