------------------------------ MODULE PoolTrades ------------------------------
(***************************************************************************)
(* Trades of a pool-mode brand: GameServer opens and settles them,         *)
(* PoolController decides each outcome and moves the day's budget          *)
(* (DailyPool), RecoveryService replays what was open when the process     *)
(* died.  A handler awaits every database call, so handlers of different   *)
(* trades interleave between any two of their steps.  One action is one    *)
(* database call with the synchronous code that follows its reply.         *)
(*                                                                         *)
(* Abstracted: the seeded draws (a decision picks any payout its caps      *)
(* allow, so win probability, amount draw and near-miss are free choices), *)
(* the clock (a trade may expire at any time) and wallets.                 *)
(***************************************************************************)
EXTENDS DailyPool

CONSTANTS
    Users,
    Contract,          \* Positions -> [user, stake, fixed, most]; fixed = 0: rise/fall
    RtpNum, RtpDen,    \* target RTP = 1 - house edge
    ShareNum, ShareDen,\* playerShare
    MaxFaults,         \* bound: database calls that throw
    MaxRestarts        \* bound: process deaths

ASSUME PoolTradesAssumption ==
    /\ Contract \in [Positions -> [user : Users, stake : Nat \ {0},
                                   fixed : Nat, most : Nat]]
    /\ RtpNum \in Nat /\ RtpDen \in Nat \ {0}
    /\ ShareNum \in Nat /\ ShareDen \in Nat \ {0}
    /\ MaxFaults \in Nat /\ MaxRestarts \in Nat

VARIABLES
    position,  \* the positions table: status and payout
    decision,  \* position_decision: the payout saved (0 a loss), Unset if no row
    handler,   \* the engine's progress on each trade: its snapshot and payout
    seed,      \* the reply of a handler's seed query, until it is stored
    turnover,  \* PoolController.turnover for the day, Unset before first use
    returned,  \* sessions: each user's returnedCents, Unset before first use
    loops,     \* the brand's timers this process runs: the tick loop, streamers
    cut,       \* history: trades whose own call threw, or whose held budget
               \* a restart left with nothing that will take it up
    faults, restarts

tradeVars == <<position, decision, handler, seed, turnover, returned, faults, restarts,
               loops, cut>>
vars == <<row, ledger, position, decision, handler, seed, turnover, returned,
          faults, restarts, loops, cut>>

Unset == -1
Stake(p) == Contract[p].stake
User(p)  == Contract[p].user

Opening == {"opened", "pooled", "sessionSeed", "sessioned", "turnoverSeed",
            "reserving", "releasing", "saving"}
Steps == {"idle", "live", "settled", "committing", "recovering", "failed", "done"}
         \union Opening

Idle == [at |-> "idle", amount |-> 0, spent |-> 0, payout |-> 0]
At(p, step) == handler[p].at = step

(* Move p's handler; a handler that has nothing left to read forgets.      *)
Goto(p, step) == handler' = [handler EXCEPT ![p].at = step]
Rest(p, step, payout) ==
    handler' = [handler EXCEPT ![p] =
                   [at |-> step, amount |-> 0, spent |-> 0, payout |-> payout]]

(* What the seed queries of PgPoolRepo sum, over some of the day's trades. *)
Stakes(S)  == SumFunctionOnSet([p \in Positions |-> Stake(p)], S)
Payouts(S) == SumFunctionOnSet([p \in Positions |-> position[p].payout], S)

(* Mutant: the seed counts every position of the day, decided or not.      *)
OpenTurnoverSeed == Stakes({p \in Positions : position[p].status # "none"})

TurnoverSeed == Stakes({p \in Positions : decision[p] # Unset})
SettledOf(u) == {p \in Positions : User(p) = u /\ position[p].status = "settled"}
SessionSeed(u) == Payouts(SettledOf(u))

-----------------------------------------------------------------------------
(* What runs a live trade: the tick loop a rise/fall trade, an instrument  *)
(* streamer a fixed-odds contract.  ensureSite starts the loop when the    *)
(* first client connects, and nothing stops it while the process lives;    *)
(* ensureStreamer starts a streamer, and the loop with it.                 *)
Driver(p)  == IF Contract[p].fixed > 0 THEN "streams" ELSE "ticks"
Driven(p)  == Driver(p) \in loops
StartStreamer(p) ==
    loops' = IF Contract[p].fixed > 0 THEN loops \union {"streams"} ELSE loops

(* The boot awaits the recovery of every brand before it listens.          *)
Recovered == \A p \in Positions : handler[p].at \notin {"recovering", "committing"}

\* A client connects to the brand for the first time in this process.
Connect ==
    /\ "ticks" \notin loops /\ Recovered
    /\ loops' = loops \union {"ticks"}
    /\ UNCHANGED <<row, ledger, position, decision, handler, seed, turnover, returned,
                   faults, restarts, cut>>

\* Mutant: for the contracts it re-armed the boot starts the brand's loop only.
BootLoopOnly ==
    /\ "ticks" \notin loops /\ Recovered
    /\ \E p \in Positions : At(p, "live") /\ Contract[p].fixed > 0
    /\ loops' = loops \union {"ticks"}
    /\ UNCHANGED <<row, ledger, position, decision, handler, seed, turnover, returned,
                   faults, restarts, cut>>

\* The boot starts the streamers of the fixed-odds contracts it re-armed.
BootStreamers ==
    /\ "streams" \notin loops /\ Recovered
    /\ \E p \in Positions : At(p, "live") /\ Contract[p].fixed > 0
    /\ loops' = {"ticks", "streams"}
    /\ UNCHANGED <<row, ledger, position, decision, handler, seed, turnover, returned,
                   faults, restarts, cut>>

-----------------------------------------------------------------------------
(* openPosition / openContract: fn_open_position debits the stake.         *)
Open(p) ==
    /\ position[p].status = "none" /\ At(p, "idle") /\ "ticks" \in loops
    /\ position' = [position EXCEPT ![p].status = "open"]
    /\ Goto(p, "opened")
    /\ UNCHANGED <<seed, row, ledger, decision, turnover, returned,
                   faults, restarts, loops, cut>>

(* repo.poolState: fn_pool_ensure_day, kept as this handler's snapshot.    *)
ReadPool(p) ==
    /\ At(p, "opened")
    /\ EnsureDay
    /\ handler' = [handler EXCEPT ![p] =
                      [at |-> "pooled", amount |-> EnsuredRow.amount,
                       spent |-> EnsuredRow.paid + EnsuredRow.reserved, payout |-> 0]]
    /\ UNCHANGED <<seed, position, decision, turnover, returned,
                   faults, restarts, loops, cut>>

(* getSession: use the user's entry, or seed it from settled positions.    *)
LookUpSession(p) ==
    /\ At(p, "pooled")
    /\ \/ returned[User(p)] # Unset /\ Goto(p, "sessioned") /\ UNCHANGED seed
       \/ /\ returned[User(p)] = Unset
          /\ Goto(p, "sessionSeed")
          /\ seed' = [seed EXCEPT ![p] = SessionSeed(User(p))]
    /\ UNCHANGED <<row, ledger, position, decision, turnover, returned,
                   faults, restarts, loops, cut>>

StoreSession(p) ==
    /\ At(p, "sessionSeed")
    /\ returned' = [returned EXCEPT ![User(p)] = seed[p]]
    /\ seed' = [seed EXCEPT ![p] = 0]
    /\ Goto(p, "sessioned")
    /\ UNCHANGED <<row, ledger, position, decision, turnover,
                   faults, restarts, loops, cut>>

(* getTurnover, first access: query the seed; Decide stores it.            *)
SeedTurnover(p) ==
    /\ At(p, "sessioned") /\ turnover = Unset
    /\ Goto(p, "turnoverSeed")
    /\ seed' = [seed EXCEPT ![p] = TurnoverSeed]
    /\ UNCHANGED <<row, ledger, position, decision, turnover, returned,
                   faults, restarts, loops, cut>>

(* decidePoolOutcome(Fixed): the least of the cash fuse, the player's      *)
(* share of the day and the RTP budget, all from the handler's snapshot.   *)
Positive(n) == IF n > 0 THEN n ELSE 0
RtpBudget(t) == (RtpNum * t) \div RtpDen
ShareCap(amount) == (ShareNum * amount) \div ShareDen

\* Mutant: the RTP budget forgets what the pool already spent.
GrossCeiling(p, t) ==
    Min({Positive(handler[p].amount - handler[p].spent),
         Positive(ShareCap(handler[p].amount) - returned[User(p)]), RtpBudget(t)})

Ceiling(p, t) ==
    Min({Positive(handler[p].amount - handler[p].spent),
         Positive(ShareCap(handler[p].amount) - returned[User(p)]),
         Positive(RtpBudget(t) - handler[p].spent)})

(* Payouts that leave a profit and fit a ceiling; fixed odds have only one. *)
WinningPayouts(p, ceiling) ==
    {x \in IF Contract[p].fixed > 0 THEN {Contract[p].fixed} ELSE 1..Contract[p].most :
        Stake(p) < x /\ x <= ceiling}

TurnoverRead(p) == IF At(p, "turnoverSeed") THEN seed[p] ELSE turnover

Decide(p) ==
    /\ At(p, "turnoverSeed") \/ (At(p, "sessioned") /\ turnover # Unset)
    /\ \/ /\ Rest(p, "saving", 0)
          /\ turnover' = TurnoverRead(p) + Stake(p)
       \/ \E x \in WinningPayouts(p, Ceiling(p, TurnoverRead(p) + Stake(p))) :
            /\ handler' = [handler EXCEPT ![p].at = "reserving", ![p].payout = x]
            /\ turnover' = TurnoverRead(p)
    /\ seed' = [seed EXCEPT ![p] = 0]
    /\ UNCHANGED <<row, ledger, position, decision, returned,
                   faults, restarts, loops, cut>>

(* A reserve the handler keeps: rise/fall shrinks to it while it beats the *)
(* stake, fixed odds need it whole.                                        *)
Acceptable(p, granted) ==
    IF Contract[p].fixed > 0 THEN granted >= handler[p].payout ELSE granted > Stake(p)

AdvanceTurnover(p) == turnover' = Positive(turnover) + Stake(p)

\* Mutant: a shrunk grant is held but the payout asked for is kept.
ReserveKeepsAsked(p) ==
    /\ At(p, "reserving")
    /\ PoolReserve(p, handler[p].payout)
    /\ Goto(p, "saving") /\ AdvanceTurnover(p)
    /\ UNCHANGED <<seed, position, decision, returned,
                   faults, restarts, loops, cut>>

Reserve(p) ==
    /\ At(p, "reserving")
    /\ PoolReserve(p, handler[p].payout)
    /\ LET granted == Grant(p, handler[p].payout) IN
       \/ /\ Acceptable(p, granted)
          /\ Rest(p, "saving", granted) /\ AdvanceTurnover(p)
       \/ /\ ~Acceptable(p, granted) /\ granted = 0
          /\ Rest(p, "saving", 0) /\ AdvanceTurnover(p)
       \/ /\ ~Acceptable(p, granted) /\ granted > 0
          /\ Rest(p, "releasing", 0) /\ UNCHANGED turnover
    /\ UNCHANGED <<seed, position, decision, returned,
                   faults, restarts, loops, cut>>

ReleaseHold(p) ==
    /\ At(p, "releasing")
    /\ PoolRelease(p)
    /\ Rest(p, "saving", 0) /\ AdvanceTurnover(p)
    /\ UNCHANGED <<seed, position, decision, returned,
                   faults, restarts, loops, cut>>

(* Mutant: the decision row stores the profit, not the payout.             *)
SaveProfit(p) ==
    /\ At(p, "saving")
    /\ decision' = [decision EXCEPT ![p] = handler[p].payout - Stake(p)]
    /\ Goto(p, "live") /\ StartStreamer(p)
    /\ UNCHANGED <<seed, row, ledger, position, turnover, returned, faults, restarts, cut>>

(* saveDecision (on conflict do nothing); the trade then joins the map and *)
(* the caller makes sure a fixed-odds contract has its streamer.           *)
SaveDecision(p) ==
    /\ At(p, "saving")
    /\ decision' = [decision EXCEPT ![p] = IF @ = Unset THEN handler[p].payout ELSE @]
    /\ Goto(p, "live") /\ StartStreamer(p)
    /\ UNCHANGED <<seed, row, ledger, position, turnover, returned, faults, restarts, cut>>

-----------------------------------------------------------------------------
(* Mutant: a settlement credits the profit and keeps the stake.            *)
SettleProfit(p, payout) ==
    position' = IF position[p].status = "open"
                THEN [position EXCEPT ![p] = [status |-> "settled",
                                              payout |-> Positive(payout - Stake(p))]]
                ELSE position

(* fn_settle_position: pays an open position once, else changes nothing.   *)
SettlePosition(p, payout) ==
    position' = IF position[p].status = "open"
                THEN [position EXCEPT ![p] = [status |-> "settled", payout |-> payout]]
                ELSE position

(* finalize / settleDigitContract / settleMultiplierDecided, when the      *)
(* trade's timer finds it expired.                                         *)
Settle(p) ==
    /\ At(p, "live") /\ Driven(p)
    /\ SettlePosition(p, handler[p].payout)
    /\ Goto(p, "settled")
    /\ UNCHANGED <<seed, row, ledger, decision, turnover, returned,
                   faults, restarts, loops, cut>>

\* A trade recovery re-armed without a stored decision is not the pool's.
PoolControlled(p) == decision[p] # Unset

(* settleSession after the reply: nothing when no session is in memory.    *)
SettleSession(p) ==
    /\ At(p, "settled")
    /\ returned' = IF returned[User(p)] = Unset \/ ~PoolControlled(p) THEN returned
                   ELSE [returned EXCEPT ![User(p)] = @ + handler[p].payout]
    /\ IF handler[p].payout > 0 /\ PoolControlled(p)
       THEN Goto(p, "committing") ELSE Rest(p, "done", 0)
    /\ UNCHANGED <<seed, row, ledger, position, decision, turnover,
                   faults, restarts, loops, cut>>

Commit(p) ==
    /\ At(p, "committing")
    /\ PoolCommit(p)
    /\ Rest(p, "done", 0)
    /\ UNCHANGED <<seed, position, decision, turnover, returned,
                   faults, restarts, loops, cut>>

-----------------------------------------------------------------------------
(* Mutant: recovery prices a decided trade again from the curve.           *)
RepriceDecided(p) ==
    /\ At(p, "recovering") /\ decision[p] # Unset
    /\ \E payout \in 0..Contract[p].most : SettlePosition(p, payout)
    /\ Rest(p, "done", 0)
    /\ UNCHANGED <<seed, row, ledger, decision, turnover, returned,
                   faults, restarts, loops, cut>>

\* Mutant: recovery settles a decided win and leaves its budget reserved.
RecoverUncommitted(p) ==
    /\ At(p, "recovering") /\ decision[p] # Unset
    /\ \/ SettlePosition(p, decision[p]) /\ Rest(p, "done", 0)
       \/ Rest(p, "live", decision[p]) /\ UNCHANGED position
    /\ UNCHANGED <<seed, row, ledger, decision, turnover, returned,
                   faults, restarts, loops, cut>>

(* RecoveryService.recover on a position with a stored decision: settle it *)
(* from it if it expired (a digit contract always), else re-arm it.        *)
RecoverDecided(p) ==
    /\ At(p, "recovering") /\ decision[p] # Unset
    /\ \/ /\ SettlePosition(p, decision[p])
          /\ IF decision[p] > 0 THEN Rest(p, "committing", decision[p]) ELSE Rest(p, "done", 0)
       \/ Rest(p, "live", decision[p]) /\ UNCHANGED position
    /\ UNCHANGED <<seed, row, ledger, decision, turnover, returned,
                   faults, restarts, loops, cut>>

(* No stored decision: the statistical path recomputes an outcome, which   *)
(* the pool knows nothing of, and settles it or re-arms the trade.         *)
RecoverStatistical(p) ==
    /\ At(p, "recovering") /\ decision[p] = Unset
    /\ \E payout \in 0..Contract[p].most :
          \/ SettlePosition(p, payout) /\ Rest(p, "done", 0)
          \/ Rest(p, "live", payout) /\ UNCHANGED position
    /\ UNCHANGED <<seed, row, ledger, decision, turnover, returned,
                   faults, restarts, loops, cut>>

-----------------------------------------------------------------------------
(* A database call throws, before it took effect or after (the reply is    *)
(* lost).  Opening gives the trade up; a settlement is retried on the next *)
(* tick; a failed commit is reported and dropped; recovery moves on.       *)
CallPending(p) ==
    \/ handler[p].at \in {"opened", "reserving", "releasing", "saving",
                         "committing", "recovering"}
    \/ At(p, "live") /\ Driven(p)
    \/ At(p, "idle") /\ position[p].status = "none" /\ "ticks" \in loops
    \/ At(p, "pooled") /\ returned[User(p)] = Unset
    \/ At(p, "sessioned") /\ turnover = Unset

ReplyLost(p) ==
    \/ At(p, "opened") /\ EnsureDay /\ UNCHANGED <<position, decision>>
    \/ /\ At(p, "reserving") /\ PoolReserve(p, handler[p].payout)
       /\ UNCHANGED <<position, decision>>
    \/ At(p, "releasing") /\ PoolRelease(p) /\ UNCHANGED <<position, decision>>
    \/ At(p, "committing") /\ PoolCommit(p) /\ UNCHANGED <<position, decision>>
    \/ /\ At(p, "saving") /\ UNCHANGED <<row, ledger, position>>
       /\ decision' = [decision EXCEPT ![p] = IF @ = Unset THEN handler[p].payout ELSE @]
    \/ /\ At(p, "live") /\ SettlePosition(p, handler[p].payout)
       /\ UNCHANGED <<row, ledger, decision>>
    \/ /\ At(p, "recovering") /\ decision[p] # Unset /\ SettlePosition(p, decision[p])
       /\ UNCHANGED <<row, ledger, decision>>
    \/ /\ At(p, "recovering") /\ decision[p] = Unset
       /\ \E payout \in 0..Contract[p].most : SettlePosition(p, payout)
       /\ UNCHANGED <<row, ledger, decision>>
    \/ /\ At(p, "idle") /\ position' = [position EXCEPT ![p].status = "open"]
       /\ UNCHANGED <<row, ledger, decision>>

Fault(p) ==
    /\ faults < MaxFaults /\ faults' = faults + 1
    /\ CallPending(p)
    /\ ReplyLost(p) \/ UNCHANGED <<row, ledger, position, decision>>
    /\ \/ At(p, "live") /\ UNCHANGED handler
       \/ At(p, "committing") /\ Rest(p, "done", 0)
       \/ ~At(p, "live") /\ ~At(p, "committing") /\ Rest(p, "failed", 0)
    /\ cut' = IF At(p, "live") THEN cut ELSE cut \union {p}
    /\ UNCHANGED <<seed, turnover, returned, loops, restarts>>

(* Budget held for a trade that recovery will not settle from its decision. *)
Orphaned(p) == Outstanding(p) > 0 /\ (decision[p] = Unset \/ position[p].status = "settled")

(* The process dies and boots: memory is lost, no timer runs, and recovery *)
(* lists the open rows.                                                    *)
Restart ==
    /\ restarts < MaxRestarts /\ restarts' = restarts + 1
    /\ handler' = [p \in Positions |->
         [Idle EXCEPT !.at = CASE position[p].status = "open" -> "recovering"
                               [] position[p].status = "none" -> "idle"
                               [] OTHER -> "done"]]
    /\ seed' = [p \in Positions |-> 0]
    /\ turnover' = Unset
    /\ returned' = [u \in Users |-> Unset]
    /\ loops' = {}
    /\ cut' = cut \union {p \in Positions : Orphaned(p)}
    /\ UNCHANGED <<row, ledger, position, decision, faults>>

(* An operator or the distributor moves the day's budget meanwhile.        *)
MoveBudget ==
    /\ \E amount \in Amounts : TopupToday(amount) \/ AdminSetPool(amount)
    /\ UNCHANGED tradeVars

-----------------------------------------------------------------------------
Init ==
    /\ PoolInit
    /\ position = [p \in Positions |-> [status |-> "none", payout |-> 0]]
    /\ decision = [p \in Positions |-> Unset]
    /\ handler  = [p \in Positions |-> Idle]
    /\ seed     = [p \in Positions |-> 0]
    /\ turnover = Unset
    /\ returned = [u \in Users |-> Unset]
    /\ loops = {} /\ cut = {}
    /\ faults = 0 /\ restarts = 0

(* What the engine does next for a trade it has taken up. *)
Proceed(p) ==
    \/ ReadPool(p) \/ LookUpSession(p) \/ StoreSession(p) \/ SeedTurnover(p)
    \/ Decide(p) \/ Reserve(p) \/ ReleaseHold(p) \/ SaveDecision(p)
    \/ Settle(p) \/ SettleSession(p) \/ Commit(p)
    \/ RecoverDecided(p) \/ RecoverStatistical(p)

Next ==
    \/ \E p \in Positions : Open(p) \/ Proceed(p) \/ Fault(p)
    \/ Connect \/ BootStreamers
    \/ Restart
    \/ MoveBudget

Spec == Init /\ [][Next]_vars

(* The event loop keeps running awaited continuations; a running timer     *)
(* settles every trade of its kind that expired; the boot ends with the    *)
(* streamers of what it re-armed.  Nothing makes a client connect, a       *)
(* player open or a process restart.                                       *)
FairSpec ==
    /\ Spec
    /\ \A p \in Positions : WF_vars(Proceed(p))
    /\ WF_vars(BootStreamers)

-----------------------------------------------------------------------------
(* Properties.                                                             *)

\* Types of the rows and of the handlers.
BooksTypeOK ==
    /\ PoolTypeOK
    /\ position \in [Positions -> [status : {"none", "open", "settled"}, payout : Nat]]
    /\ decision \in [Positions -> Nat \union {Unset}]
    /\ handler \in [Positions -> [at : Steps, amount : Nat, spent : Nat, payout : Nat]]
    /\ loops \subseteq {"ticks", "streams"} /\ cut \subseteq Positions
    /\ faults \in 0..MaxFaults /\ restarts \in 0..MaxRestarts

\* Types: the books above, and the pacing memory that the seed queries fill.
TypeOK ==
    /\ BooksTypeOK
    /\ seed \in [Positions -> Nat]
    /\ turnover \in Nat \union {Unset}
    /\ returned \in [Users -> Nat \union {Unset}]

\* A saved win is backed to the cent by a reservation that was never released,
\* whatever was clamped, shrunk, lost or replayed on the way (decideReserve).
Backed ==
    \A p \in Positions : decision[p] > 0 =>
        ledger[p].reserve = decision[p] /\ ledger[p].release = 0

\* What the pool counts as paid on a position is exactly what the player was
\* credited for it: a commit never precedes or exceeds its settlement.
PaidWereCredited ==
    \A p \in Positions : ledger[p].commit > 0 =>
        /\ position[p].status = "settled"
        /\ position[p].payout = ledger[p].commit

\* A trade whose decision was saved pays that decision, before and after a
\* crash: recovery never re-prices it and nothing pays it twice.
SettledAsDecided ==
    \A p \in Positions :
        position[p].status = "settled" /\ decision[p] # Unset =>
            position[p].payout = decision[p]

\* docs/25: the payouts of the day's decided trades never exceed its budget.
Credited(S) == Payouts({p \in S : position[p].status = "settled"})
DecidedWinsWithinPool ==
    Credited({p \in Positions : decision[p] # Unset}) <= row.amount

\* The in-memory turnover never counts a stake twice or before its trade was
\* decided, across overlapping first uses, faults and reseeding.
Counted(p) == position[p].status # "none" /\ handler[p].at \notin Opening \ {"saving"}
TurnoverNeverOvercounts ==
    turnover <= Stakes({p \in Positions : Counted(p)})

\* The RTP ceiling of pool.ts: paid + reserved <= floor(target * turnover),
\* with every stake of the day counted.
Spent    == row.paid + row.reserved
DayTurnover == Stakes({p \in Positions : position[p].status # "none"})
RtpCeiling == Spent <= RtpBudget(DayTurnover)

\* A reservation taken while the snapshot its decision used still covers what
\* the pool has spent keeps the RTP ceiling.
FreshReserveKeepsCeiling ==
    [][\A p \in Positions :
          At(p, "reserving") /\ row'.reserved > row.reserved
              /\ ledger'[p] # ledger[p] /\ Spent <= handler[p].spent
          => RtpCeiling']_vars

\* A rise/fall trade that recovery put back, in a process no client of the
\* brand has connected to: rearm starts no loop, so nothing looks at it.
Unattended(p) == At(p, "live") /\ Contract[p].fixed = 0 /\ ~Driven(p)

\* A trade that took a stake is settled in the end, restarts included, unless a
\* database error cut its opening or its recovery short, or no client connects
\* to the brand any more after the boot that re-armed it.
EveryStakeSettles ==
    \A p \in Positions : position[p].status = "open" ~>
        \/ position[p].status = "settled"
        \/ At(p, "failed")
        \/ [](Unattended(p))

\* Budget held for a win is freed or paid in the end, through settlements that
\* throw and are retried, faults of other trades and restarts.  Left are the
\* trades whose own opening, commit or recovery threw or whom a restart overtook
\* undecided or between settlement and commit, and those nobody attends.
ReservationsDrain ==
    \A p \in Positions : Outstanding(p) > 0 ~>
        \/ Outstanding(p) = 0
        \/ p \in cut
        \/ [](Unattended(p))

-----------------------------------------------------------------------------
(* What the repository says and the code does not do.                      *)

\* docs/02 and docs/03: a re-armed trade auto-settles at its timer, whether or
\* not its player is connected.
RearmedSettles ==
    \A p \in Positions : At(p, "live") ~> position[p].status = "settled"

\* docs/25: the day's payouts to pool-eligible players never exceed its budget.
WinsWithinPool == row.exists => Credited(Positions) <= row.amount
=============================================================================
