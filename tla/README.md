# invest254: verification of the money paths

TLA+ models of the parts of invest254 that move money, TLC configurations that
check them on small instances, and TLAPS proofs of what matters most for every
instance. The code is the reference; every definition names its lines in
`PROJECT.json` (`map`).

invest254 is a white-label trading game. Players of a brand deposit through
M-PESA, PayHero and other gateways, stake on short price contracts, and withdraw.
A single Node process per fleet runs the game (`apps/engine`), another serves
the HTTP API and its periodic sweeps (`apps/api`); both share one PostgreSQL
database, where money only moves inside `fn_...` functions, each one
transaction under row locks (`packages/db/migrations`). So the database steps
are atomic and **everything between two of them interleaves**: handlers await,
timers fire, callbacks repeat, processes die on every deploy.

## The system's parts

| part | state | operations | talks to | what makes it correct |
|---|---|---|---|---|
| Daily payout pool (0062-0066, 0118, 0119, 0156) | a budget row per brand and day (`amount`, `paid`, `reserved`), an append-only `pool_ledger` | ensure day, reserve, commit, release, top up, admin set | pool controller, operators, distributor | the budget covers what was paid and promised; row and ledger agree |
| Pool controller (`poolcontroller.ts`, `shared/pool.ts`) | in memory: one session per player and day, one turnover per brand and day; `position_decision` | decide and reserve (rise/fall shrinks a win, fixed odds is all or nothing), commit, release, lazy seeding | engine, pool, database | a saved win is reserved to the cent; paid + reserved within the RTP ceiling |
| Game engine (`game.ts`, `multiengine.ts`) | open positions, digit and multiplier contracts in memory | open, tick, settle at expiry or a level, sell, stream | wallet functions, controller, sockets | each stake settles once, at what was decided |
| Recovery (`recovery.ts`, `siteregistry.ts`) | none | replay open positions at boot | positions, decisions, engine | same outcome as without the crash |
| Pending orders (`pending.ts`) | armed orders in memory and in a table | arm, cancel, fill on a tick, reload | engine | an order fills at most once |
| Wallet functions (0176, 0094) | real, bonus, practice balances; `ledger_entries` | open, settle, adjust, bonus | engine, payments | balances equal the ledger; a stake returns to the bucket it came from |
| Deposits (`paymentservice.ts`, `payments.ts`, `payhero.ts`, `daraja.ts`, 0014, 0078, 0115, 0174, 0213) | `transactions`, `c2b_payments` | create, prompt, attach, abandon, callback, two kinds of sweep, claim by code | gateways, wallets | a payment is credited once, and never lost |
| Withdrawals (same service, 0048, 0108, 0127, 0169) | `transactions`, holds | request, approve, dispatch, result, reject, mark paid | gateways, wallets, marketer wallets | money leaves once or returns, never both |
| Day seeds (`daycontext.ts`, 0059) | `game_days`, `seed_overrides`, a cache of contexts and the active one | build, adopt a published one, publish, activate, reveal, force a rotation | engine, recovery | the published seed prices the day's trades, and is shown only afterwards |
| Deposit gate (0175, 0214) | limiter rows | admit, reject, record outcome | deposits | limits hold across machines |
| Deposit commissions (0078, 0079, 0105, 0154, 0156, 0159) | `deposit_commissions`, `commission_payouts`, `marketer_expenses`, roles, the brand's default marketer | settle, request, approve, pay, reject, log an expense, change a role or the default | deposits, wallets, admins | a deposit pays its 25% once; nobody draws more than she earned |
| Affiliate revenue share, marketer wallets, billing | balances and invoices | accrue, pay, transfer, claim, suspend | wallets, gateways | each event accrues once |
| Distribution (`poolrealtime.ts`, `poolops.ts`) | none | spread a platform's budget over brands | pool | never takes a budget back |
| API, web client, identity, notifications, charts | sessions, caches | routing and display | all | not about money in flight |

The hard behaviour is concurrency inside one process (state read before an
`await` and used after it), several settling paths for one payment, lost
replies, restarts at every point, and lists with a limit. `PROJECT.json`
(`hazards`) names each place.

## Modules

| module | models | status |
|---|---|---|
| `DailyPool` | the pool's database functions | checked, proved |
| `PoolTrades` | EXTENDS `DailyPool`: pool trades from open to settlement, faults, restart, recovery | checked, proved |
| `MCPoolTrades` | an instance: three trades, two players | |
| `PoolProofs` | theorems about `PoolTrades`: lifecycle, cap, refinement | 701 obligations |
| `BudgetProofs` | EXTENDS `PoolProofs`: the ledger's and the memory's sums | 819 obligations |
| `SumProofs` | lemmas about sums over finite sets, for all the others | 433 obligations |
| `PaymentCredit` | what the deposit rails promise together | abstract |
| `Deposits` | the rails, sweeps, ledger and claims; implements `PaymentCredit` | checked, proved |
| `MCDeposits` | an instance: a deposit per rail, two hand-typed payments | |
| `DepositProofs` | theorems about `Deposits` | 280 obligations |
| `Payout` | what a withdrawal promises | abstract |
| `Withdrawals` | request, approve, dispatch, result, reject, mark paid; implements `Payout` | checked, proved |
| `WithdrawalProofs` | theorems about `Withdrawals` | 484 obligations |
| `Commissions` | deposit commissions, their payouts, roles and the default marketer | checked, proved |
| `CommissionProofs` | theorems about `Commissions` | 1,120 obligations |
| `MCMoneyOut` | EXTENDS `Withdrawals` and `Commissions`: an instance of each | |
| `Stakes` | what trading promises about a player's money | abstract |
| `Wallet` | the buckets, open and settle, the mode switch | part of `Trading`; implements `Stakes` |
| `PendingOrders` | the armed orders, their rows, the writes in between | part of `Trading` |
| `Trading` | EXTENDS both: the tick loop, sells, restart and recovery | checked, proved |
| `MCTrading` | an instance: two positions, one order | |
| `TradingProofs` | theorems about `Trading` | 913 obligations |
| `DaySeeds` | the day contexts, their four jobs, forced and master rotations | checked, proved |
| `MCDaySeeds` | an instance: two days, configs and masters | |
| `DaySeedProofs` | theorems about `DaySeeds` | 1,131 obligations |

### The pool: `DailyPool`, `PoolTrades`

`row` is the `withdrawal_pool` row of one brand and day; `ledger[p]` the sums of
the position's `pool_ledger` rows by kind, which is all the functions read.
Each function is one action. `PoolTrades` adds, per trade, the `positions` row
(`position`), the `position_decision` row (`decision`), and the engine's
progress (`handler`): the step reached and what the code holds across awaits,
above all the *snapshot* of the pool row its decision uses. `turnover` and
`returned` are the controller's memory; `seed` is a seed query's reply that has
not been stored yet. One action is one database call and the synchronous code
after its reply:

`Open`, `ReadPool` (`poolState`), `LookUpSession`/`StoreSession`
(`getSession`), `SeedTurnover` (`getTurnover`), `Decide` (`decidePoolOutcome`
and `...Fixed`), `Reserve`, `ReleaseHold`, `SaveDecision`, `Settle`
(`finalize`, `settleDigitContract`, `settleMultiplierDecided`),
`SettleSession`, `Commit`, `RecoverDecided`/`RecoverStatistical`
(`recovery.ts`), `Fault` (any pending call throws, before or after taking
effect), `Restart`, `MoveBudget` (operator and distributor).

A live trade is settled by a timer, and `loops` says which ones this process
runs for the brand. The tick loop settles rise/fall trades. `ensureSite` starts
it when the first client connects (`Connect`, `multiengine.ts:436`), and nothing
stops it while the process lives. Streamers settle fixed-odds contracts: the
request that opened one starts them (`StartStreamer`), and so does the boot for
those it re-armed (`BootStreamers`, `multiengine.ts:949-957`), which starts the
tick loop too. A restart stops everything, and `rearm` starts nothing. So a
re-armed rise/fall trade waits for the first client of its brand. A trade
re-armed on the statistical path carries the payout recovery computed and, like
every trade without a saved decision, leaves the pool alone when it settles
(`PoolControlled`). `cut`, history, holds the trades whose own opening, commit
or recovery threw, and those whose held budget a restart left to nobody.

Abstracted: the seeded draws, so a decision is *any* payout its ceilings allow
(win probability, drawn amount and near-miss only choose among these); the
clock, so a trade may expire at any time; wallets. A decision reads the session
in the map: in the code, when two first trades of a player overlap, one of them
holds an object the map no longer has. No property here depends on the share
that object limits. Recovery takes rows in any order.

### Deposits: `Deposits`, `PaymentCredit`

`tx[d]` is the transaction (status, and whether `checkout_request_id` is set,
the key every settling path uses), `born` its place in `created_at` order within
its provider, `initiate` the handler's progress, `gateway` the gateways' own
truth, `c2b` the claimable payments, `sweep` the ledger sweep's loop with the
references it resolved beforehand, `credits` the wallet credits per payment.
A payment by hand is a code without a request. Actions: `Create`, `Send`,
`Attach`, `Abandon`, `Drop` (the handler ends early), `Callback`, `Sweep`
(`reconcileDeposits`, `reconcilePayHeroDeposits`; a PayHero callback only runs
them), `LedgerSweep`/`LedgerRow`/`LoseRows`, `Confirm`, `Claim`. `Pay` and
`Decline` are the customer, external.

Abstracted: amounts, phones, the gate, callback diagnostics, commissions. A
status query and the completion after it are one action, because a final answer
of these gateways does not change. The ledger page shows every payment of the
account. STK payments on Daraja are taken not to arrive as pay-bill
confirmations as well. Two guards are left out because the model implies them:
`fn_abandon_deposit`'s third (no ledger entry) and the claim's receipt check,
which adds nothing when the stored payment carries its reference. The status
query is taken not to know a hosted checkout, whose reference is ours and not
PayHero's.

### Withdrawals: `Withdrawals`, `Payout`

`tx[w]` is the status of the withdrawal's row, `balance` the wallets,
`approver[a]` how far an `approveWithdrawal` call is and on which row: `Check`
reads the payout account, `Approve` is `fn_approve_withdrawal`, `Dispatch` the
gateway call, `Drop` the call that ends early. `Reject`, `MarkPaid` and
`Request` are one database function each. `payout`, `told` and `result` are the
gateway's: whether it was told, what it did, and whether its result is on its
way, read or missed. `Result` is the result route with `fn_complete_withdrawal`
and may repeat for ever. The dashboard, bulk runs, the bot and the e-mail link
all run the same functions, so two approvers stand for any two of them.

`Payout` says in five actions what docs/07 and 0127 promise: held once, told at
most once, ended once as kept or returned, and never paid after it was returned.

### Commissions: `Commissions`

`rows` are the `deposit_commissions`; `role` and `owner` the roles and the
default marketer the next deposit reads; `request[q]` a payout call and then its
`commission_payouts` row; `expenses` what `marketer_expenses` adds up to.
`SettleDeposit` is `fn_pay_referral_commissions`, whole, since it runs inside the
settling deposit: `Recruiters` walks up, `Chain` adds the default marketer as the
root, `MarketerRows` inserts from the bottom and skips what conflicts,
`PerkRows` is the player's 5%. A payout call is three statements that see each
other's commits: `CheckOpen`, `Count`, `Insert`. `ApprovePayout`,
`MarkPayoutPaid` and `RejectPayout` are one update each. `SignedUpInOrder` is
what `fn_register_user` leaves behind: a referrer existed before the account it
brought, and nothing changes `referred_by` later. `SetRole` locks the profile; `AllowOwner` and `AssignOwner`
are the check and the write of `fn_admin_set_site_owner`, which does not.
`raced`, history, holds those whose payout calls overlapped.

Abstracted: other brands, rounding (a deposit is 100), the wallet the perk goes
to, suspension, audit rows, and the request for an advance; its approval is
`LogExpense`. In the code each account's role is read twice, once for the perk
and once for the walk; here once.

### Trades and wallet: `Wallet`, `PendingOrders`, `Trading`, `Stakes`

`Wallet` is the database's side for one player: `row` (positions, with the
bucket debited), `wallet` (four buckets), `bonus`, `account` (mode, practice,
marketer) and `switch`, a mode switch between its own check and its write.
`PendingOrders` is `pending.ts`: `book` in memory, `orow` in the table, and
`writes`, the calls nobody awaits. Nothing reads the table before the next boot,
so the writes that landed, in some order, are chosen at the crash (`Landed`).

`Trading` adds the engine: `mem` (its positions), `due` (orders the tick picked),
`call` (the one database call the tick loop awaits), the player's requests
(`MarketOrder`, `Sell`, `PlaceOrder`, `CancelOrder`), `Close` at expiry or a
level, `FillThrows` and `CloseThrows`, `Crash`, `Recover`, `RecoverFails`,
`Booted`. `ticking` is the tick loop's timer: off after a crash, on from the
first connection (`Connect`); orders, sells and ticks need it (`Running`).
`stranded`, `misreported`, `revalued` and `excuse` record history that
the properties speak of; no guard reads them.

Two simplifications change no outcome. `Switch` takes the check of
`fn_set_marketer_practice` (0176:52, which locks nothing) and its update as one
step: a settlement goes by the bucket on the row, and the player's own switch,
whose check and write are two steps, already meets every stake in between. And
when the player is promoted between `demo.pg.ts:75` and `:94`, the code goes on
to `fn_set_account_mode`, the model to the practice flag; either way the account
is play money from the promotion on.

`Stakes` is the promise: three purses, a purse falls only by a stake, a stake
comes back once and to its purse, cash is never topped up.

### Day seeds: `DaySeeds`

A seed is the record it is derived from (master, day, version) and stands for
its hash. `published`, `revealed` and `version` are the tables; `cache` and
`active` the `SeedManager`. Four jobs (boot, rotation timer, reload after an
edit, recovery) run `contextFor` in steps: `Build`, `Check`
(`adoptPublishedContext`), `Ensure` (`fn_ensure_game_day`), then `FinishInit`
or `FinishRecover`; every one but the last ends at an await. `Reveal` is
`fn_reveal_game_day`, `ForceRotation` is `fn_admin_rotate_seed`, `Midnight` the
clock, `Restart` a deploy, perhaps with a new master seed. `raced`, `missed`,
`reached` and `repriced` are history. The rotation timer (`server.ts:415`) does
not wait for its last run, so two rotations could overlap; there is one here, and
the boot and the reload are what overlaps with it.

## Runs

| run | shows | bounds |
|---|---|---|
| `pool_trades` | nine properties, below | 3 trades, 2 players, one fault, one restart, budgets 4, 6, 7; 2,221,083 states |
| `pool_trades_live` | stakes settle and holds drain, but for named cases | 2 trades, one fault, one restart; 37,126 states |
| `deposits` | no double credit, no claim of a deposit that may settle | 1 deposit per rail, 1 hand payment per account, one fault, page of 2; 528,080 states |
| `deposits_live` | sweeps alone bring every outcome home | 3 deposits, one fault, page of 2 |
| `money_out` | a withdrawal is paid or returned, once; a deposit pays its 25%, and payouts what was earned | 2 players, 3 withdrawals, 2 approvers, one fault; 4 accounts, 2 deposits, 2 payout calls, 2 changes, one expense; 230,380 states |
| `trading` | stakes and orders through races, retries, switches and a restart | 2 positions, 1 order, stake 2, payouts 0 and 3, one upset, one restart; 187,018 states |
| `day_seeds` | commitments are true, revealed in time and not early | 2 days, 2 configs, 2 masters, one bump, one upset, one open context; 269,358 states |
| `pool_rtp_ceiling`, `pool_wins_within_pool`, `pool_rearmed_idle`, `deposit_stranded`, `deposit_starved` | what the repository says and the code does not do | as above, or smaller |

`pool_trades`. `HardCap`: the budget covers paid and reserved. `LedgerTie`: the
row's counters are the ledger's sums. `Backed`: a saved win is reserved in
full. `PaidWereCredited`: the pool's payments are the players' credits.
`SettledAsDecided`: a saved decision is what is paid, through any crash.
`DecidedWinsWithinPool`: the decided payouts fit the day's budget.
`TurnoverNeverOvercounts`: overlapping lazy seeds never count a stake twice.
`FreshReserveKeepsCeiling`: what the RTP ceiling does promise: a reserve whose
snapshot is still current keeps it.

`pool_trades_live`. `EveryStakeSettles`: a stake settles, restarts included,
unless a failing call cut its own opening or recovery short, or it was re-armed
and no client ever connects to the brand again (`Unattended` for good).
`ReservationsDrain`: held budget is paid or released, through settlements that
throw and are retried, faults of the other trade, and restarts that find a
saved decision. It does not promise that of a trade in `cut` or `Unattended`
for good. `pool_rearmed_idle` shows that the second exception of each is there:
with one restart and no failing call, a re-armed trade waits for ever.

The amounts make the cases meet. A stake of 3 builds the turnover (target RTP
9/10) that two trades of stake 1 can both spend; payouts of up to 4, 2 and 3
against budgets of 4, 6 and 7 make the clamp, the shrunk win, the refused fixed
win and the refused admin change happen. One fault and one restart may fall at
any step, together, which covers every pair of failure points of one trade and
the fault of one beside the restart of another. A page of 2 with two PayHero
rows is full but not overfull; the code's 25 is the same case with more rows,
and `deposit_starved` shows the overfull page. Two deposits of one rail differ
from one per rail only in the sweep's order, which `payhero` and `lipwa` share.

`money_out` holds the two ways money leaves by an admin's approval. They share
no table, so each is explored while the other is untouched.

Withdrawals. `WalletTie`: a balance lacks exactly what is held or kept.
`PayoutKept`: the implementation of `Payout`. `ProcessingEnds`: what was
approved ends by itself, unless its dispatch was refused or its result missed.
One player's two withdrawals exceed her balance together, so the second is
refused until the first one returns; two approvals of one row race each other, a
rejection, a mark by hand and a late or repeated result.

Commissions. `FullShare`: the marketers of a deposit earn 25% together.
`DefaultEarns`: the default marketer earns on every deposit but her own.
`NeverOverdrawn`: what was asked for never exceeds what was earned, and one
request is open at a time. `CommissionTypes` includes that the recursive walk up
(`RecruitersKnown`) yields accounts and never the depositor. Three marketers recruited each other and the last
brought a player, so chains of every length up to three and, with a default from
the middle, of four occur (at four the third from the top earns nothing). Two
changes let a marketer be demoted between the check and the write that make her
the default. An expense equals the minimum payout, so it can push a balance
below it, or below zero after a payout.

`trading`. `PaidWhereStaked`: a payout goes to the bucket the stake left.
`SaidIsPaid`: the announced payout is the row's. `ArmedOnce`, `EndedStaysEnded`:
an order opens one position, and none once it ended. `ArmedKept`: an armed order
is not lost. `StakesKnown`, `StakesSettle`: somebody will settle each open row,
and does. `StakesKept`: the implementation of `Stakes`. Where the code does
not keep the plain statement, the property names the event that excuses it, and
holds for everything else. The bonus is spent and cleared within two trades, one
stake is split over two buckets, and two positions are what an order filled
twice needs; the upset and the restart combine, so a lost reply may be followed by a
crash. Once a
stake is lost the bucket no longer covers another, so refused fills happen.

`day_seeds`. `CommittedPriced`: an open trade's seed is the published one.
`RecoveredAsPriced`: recovery reprices it on the same seed. `TradedUnrevealed`:
nothing is priced by a seed already shown. `DaysRevealed`: a past day is
revealed. `ActiveCatchesUp`: the newest day and config become active. One
rotation of the day, of the config and of the master meet in any order; a third
day would repeat the step from the first to the second, since only the day a
job leaves and the one it enters occur in its guards.

**Fairness.** `PoolTrades`: a trade's own steps are weakly fair, since awaited
continuations run and a *running* timer revisits an expired trade until it
settles; `Settle` is enabled only while its timer runs. `BootStreamers` is
weakly fair: the boot ends with it. Connecting, opening, faults, restarts and
budget moves are not fair: no client is assumed to come back after a restart.
`Deposits`: handlers, the sweeps (`setInterval` in `apps/api/src/server.ts`),
the ledger loop and Safaricom's confirmation, which repeats until accepted.
Callbacks, payers and claimants are never assumed to act. The gateways are
assumed to answer a status query eventually. `Withdrawals`: an approval that
started goes on, and a gateway that took a payout ends it and sends its result,
which one fault may lose; nobody has to approve, reject or mark. `Commissions`
has no liveness: every step but a settling deposit is a person's. `Trading`: the
engine's thread and the database go on (weak), and each position is closed if
the loop can do so again and again (strong, since every tick closes all that
expired, and fills come between). Closing needs the loop to run, and nobody has
to connect after a boot: `StakesSettle` names that case (`Unattended`). Nobody
has to trade, sell or restart either, and no unawaited write has to land.
`DaySeeds`: calls are answered, the boot is retried, the timer fires every
minute.

Deadlock is checked in the pool runs. The others do not check it: when all
deposits, withdrawals or trades ended, or the last day is over, nothing is left
to do.

**Findings.** (1) The RTP ceiling does not hold "at all times": the budget is
computed from a snapshot, and the reserve clamps only to the cash budget. (2) A
trade cut off before its decision is saved is recovered as a statistical trade
and paid from outside the pool. (3) A rise/fall or continuous position re-armed
after a restart is not closed or settled before a client connects to its brand,
unless the brand also had digit or multiplier contracts open, though docs/02:126
and docs/03:48 say it auto-settles at its timer. (4) A deposit whose
handler dies after the prompt was accepted can be paid and then neither be
settled nor claimed. (5) Unpaid hosted checkouts never leave the oldest-25 page
of the PayHero sweep, which can keep newer deposits from being queried.

**Excused in a property, worth a decision.** These were met while modelling and
appear as named exceptions, not as runs of their own.

- `siteregistry.ts:228` reads the waiting orders only for a brand that had open
  positions (excuse `unscanned`), though 0185:9-12 says a restart keeps them.
- `pending.ts:180` does not await the mark of a fill, and a fill whose reply is
  lost puts the order back: it can open a second position, which 0185:20 denies
  (`unmarked`, `reply`).
- An order cancelled while its tick awaits another fill is filled anyway (`due`).
- `game.ts:1097`: after a lost settlement reply the retry announces a figure the
  row does not have (`revalued`).
- 0176:286 pays a player who became a marketer in play money for a stake made in
  real money (the exception in `PaidWhereStaked` and `Stakes`).
- docs/25:160-161 says reservations that never committed are released, but
  `fn_pool_release` is called only for a grant the decision refuses
  (`poolcontroller.ts:147`, `:214`): a commit that throws (`game.ts:1084`), a
  `saveDecision` that throws, or a restart between reserve and save holds its
  budget for good (`cut` in `ReservationsDrain`).
- 0066:40 sums net winnings for the nightly payout tie, which 0066:7-9 describes
  as what players were credited, and compares them with the gross payments of
  the pool: one ordinary committed win is reported as `PAID > PAYOUTS`.
- A rotation or reload that straddles midnight can leave a day unrevealed for
  good or activate the older day again (`missed`, `reached`).
- A forced rotation of a day already published (0059:143) makes the seed differ
  from its commitment, which then can never be revealed (`raced`), contrary to
  `daycontext.ts:180`.
- 0159:251-254 makes the default marketer the root though another marketer may
  have recruited her: if she also stands lower in the chain, the root's row
  conflicts (0159:275) and its 5% is paid to nobody, though 0103:11 says the
  totals "always sum to exactly 25%" (the condition in `FullShare`).
- 0079:50 says the payout request "guards double-request"; two overlapping calls
  both find no open payout and both take the whole balance (`raced`).
- `fn_admin_set_site_owner` checks the role without a lock (0156:726-743), so a
  demotion in between leaves a default who is no marketer, which 0124 set out to
  prevent: deposits of players nobody recruited then pay no commission.
- `paymentservice.ts:1313-1316` leaves a refused or unanswered dispatch to a
  reconcile job; there is none for withdrawals, and no route for
  `b2cTimeoutUrl`, so the row waits for a person (exceptions in
  `ProcessingEnds`). A person who marks it paid while the gateway is still
  paying pays twice, once by hand.

## Proofs

All theorems hold for every number of trades, players, deposits, payouts and
payments, every amount, every referral graph and every bound on faults and
restarts, from the constants' assumptions alone. Those are: finite sets of
trades, withdrawals, accounts and requests (rows of a table), amounts that are
natural numbers, positive where the code checks it, and referrers that signed up
before the accounts they brought. Every property of a passing run that is not
liveness is stated by a theorem.

`SumProofs`. The community modules' `SumFunctionOnSet` is a fold: a recursive
function that takes an element the `CHOOSE` picks and goes on with the rest.
`SumExists` builds the function, `SumUnique` shows there is one, and
`SolutionRemove` that any element may be taken first; what follows is arithmetic
(`SumAdd`, `SumRemove`, `SumUpdate`, `SumSubset`, `SumMonotone`, `SumAgree`).
Induction is by a smallest counterexample among the subsets, since no operator
can be passed to an induction theorem.

`PoolProofs`. None of the invariants is inductive: `Backed` needs to know what
a handler carries when it saves, `PaidWereCredited` what it carries when it
commits. The strengthening (`Lifecycle`) says, for each step a handler can be
at, what the position, the decision and the ledger rows of its trade are:
nothing reserved before `reserving`; at `saving` exactly the payout held; at
`live` the payout equal to the decision, if one was saved; at `committing` the position already
settled with it; and what remains when the process died or the trade was given
up. With the types of the books it is inductive (`Inductive`), one lemma per
action, and yields `CapHolds`, `WinsAreBacked`, `PaidIsCredited` and
`DecisionsArePaid`. `TradesImplementPool` shows every step of the engine is a
step of `DailyPool` or leaves the books alone. The refinement is proved and not
run, because `PoolNext` reserves any amount in `Nat`.

`BudgetProofs`. `LedgerTied`: each pool function moves one ledger entry and the
row's counters by as much, so the sums go on agreeing whichever entry it is.
`DecidedWinsFit`: what is decided is part of what is committed or reserved
(`Lifecycle`), and that is within the cap. The pacing memory needs an invariant
of its own, `Paced`: the turnover in memory, and every seed query's reply not
yet stored, count decided stakes only, and a reservation about to be made fits
the budget of the stakes taken. TLC checked it on the instance of `pool_trades`
before it was proved. It gives `TradesTyped`, `TurnoverCountsOnce` and
`FreshReservesFit`.

`DepositProofs`. A credit is either the completion of the payment's own row or
its claim: `CreditOf` says `credits` is the sum of the two, and that a claimed
row is failed, which `fn_complete_deposit` never leaves. `Unsent` says a
payment exists only for a deposit that reached the gateway. Together they are
inductive, and give `DepositTypes`, `ClaimsNeverSettle` and the refinement
`DepositsCreditOnce`: the rails implement `PaymentCredit`.

`WithdrawalProofs`. `Accounted` ties a row to the gateway's record (told once
or never; nothing told while pending; a failed row failed at the gateway).
`OneDispatch` says who may still tell a gateway: the one call that turned the
row from pending to processing, and nobody before it did. They give
`WithdrawalTypes` (no wallet goes below zero) and `WithdrawalsKeepPromise`,
every step a step of `Payout` or a stutter. `WalletTied` follows the wallet: a
step adds one withdrawal to what its owner's rows hold, returns one, or leaves
the sum alone.

`TradingProofs`. `Tracked` says who may settle a position: what `mem` holds
open, or the call settles, is an open row or one whose settlement lost its
reply. `Ordered` says what an order has behind it while it may still fill,
what its row and its unlanded writes allow, and what a boot will find. With the
properties themselves they are inductive and give `PaidHome`,
`SettlementIsSaid`, `StakesStayKnown`, `OrdersFillOnce`, `OrdersAreKept` and
`EndedOrders`. `TradingKeepsStakes` maps each step to one of `Stakes`; the bonus
conversion moves money inside the cash purse.

`DaySeedProofs`. `CommittedPriced` is not inductive: a trade is priced from a
cache filled steps before the hash is published. `Kept` follows a context
through `contextFor`: a cached one is the fresh one or the published one, one
that passed the adoption is what the next step will find or publish, and a ready
one is published. `Published` and `Traded` say the same of the table and of the
open trades. Days bumped too late, or whose master is lost, are let off
throughout. It gives `CommitmentsAreTrue` and `RecoveryIsFaithful`.
`TradesAreUnrevealed` rests on `Standing`: whatever was revealed is past, and in
a running process lies before the latest day it activated, because rotation
reveals the day it left only after it brought in the next one, and a boot begins
on a day nobody can have revealed.

`CommissionProofs`. `RatesTelescope`: the rates add up to 25% at every length.
`RootEarns`: whoever ends a chain has a row that earns, since her own at the top
is skipped only for an earlier one of hers. `ChainEarnsAll`: if the top's row is
not skipped, the rows come to 25. The walk up is a function that calls itself;
`WalkExists` constructs it account by account in the order of sign-up, and
`WalkClimbs` shows that it ends, comes past nobody twice and never past the
depositor, whatever roles people have by now. So `DefaultIsPaid` and
`SharesAddUp` hold for every referral graph and every history of roles.
`NeverOverdrawn` is not inductive: `Count` reads a balance and `Insert` commits
it later. The invariant (`AlwaysInv`) adds that a marketer whose calls did not
overlap has one call or open row in hand (`OneAtATime`), and that what she asked
for *and is about to ask for* is within her earnings (`Covered`); only `Count`
adds to that sum, and it adds what is left. TLC checked both on the instance of
`money_out`. It gives `CommissionsTyped` and `NobodyOverdraws`.

Only model-checked: liveness, since fairness and ENABLED are outside the prover
(`EveryStakeSettles`, `ReservationsDrain`, `InitiationEnds`,
`OutcomeReachesDeposit`, `PaidReachesPlayer`, `ProcessingEnds`, `StakesSettle`,
`DaysRevealed`, `ActiveCatchesUp`). What the runs expect to be violated is
refuted, not proved.

## Not modelled, and the plan

- **Engine**: digit and multiplier contracts outside the pool, the instrument
  streamers, moving a level (whose unawaited writes may land out of order), the
  values a recovered continuous position is settled at. The next module would be
  one contract per instrument, with the check before the awaits
  (`game.ts:599`) and the streamers' double start (`multiengine.ts:152`).
- **Pool**: the share of one player (`pool.ts:161`), which several trades in
  flight may pass; its statement needs the session object that is lost when two
  first trades overlap.
- **Withdrawals**: the internal rail and marketer accounts, minimum amounts.
- **Deposits**: the gate (0175, 0214), the other gateways, and an answer that
  changes after it was final (`paymentservice.ts:867`).
- **Commissions**: the life of an advance before its approval; affiliate revenue
  share (0019), whose gateway payouts the documents call legacy: their result
  never finds the payout (`affiliateservice.ts:95` passes no result id), so an
  approved one stays open.
- Marketer transfers and billing: accounting with few actors, next in line.
- Web, charts, identity, notifications and administration keep no state the
  money paths depend on; the price curve is floating point and outside TLC.
