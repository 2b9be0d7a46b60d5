------------------------------ MODULE DailyPool ------------------------------
(***************************************************************************)
(* One brand's payout budget for one EAT day: the withdrawal_pool row and  *)
(* the pool_ledger audit, moved only by the database functions of          *)
(* migrations 0062-0066, 0118, 0119 and 0156.  Each function runs in one   *)
(* transaction under the row lock (FOR UPDATE), so each is one action.     *)
(***************************************************************************)
EXTENDS Integers, FiniteSetsExt, Functions

CONSTANTS
    Positions,      \* trades that may ask the pool for a payout
    DefaultAmount,  \* what fn_pool_ensure_day seeds a new day with
    Amounts         \* budgets an operator or the real-time distributor asks for

ASSUME DailyPoolAssumption ==
    IsFiniteSet(Positions) /\ DefaultAmount \in Nat /\ Amounts \subseteq Nat

VARIABLES
    row,     \* the day's withdrawal_pool row; exists is FALSE before the insert
    ledger   \* pool_ledger per position: the sum of its rows of each kind

poolVars == <<row, ledger>>

Row   == [exists : BOOLEAN, amount : Nat, paid : Nat, reserved : Nat]
Entry == [reserve : Nat, commit : Nat, release : Nat]

NoRow   == [exists |-> FALSE, amount |-> 0, paid |-> 0, reserved |-> 0]
NoEntry == [reserve |-> 0, commit |-> 0, release |-> 0]

Available      == row.amount - row.paid - row.reserved
Outstanding(p) == ledger[p].reserve - ledger[p].commit - ledger[p].release

-----------------------------------------------------------------------------
(* fn_pool_ensure_day: insert the seeded row, on conflict do nothing.      *)
EnsuredRow ==
    IF row.exists THEN row
    ELSE [exists |-> TRUE, amount |-> DefaultAmount, paid |-> 0, reserved |-> 0]

EnsureDay == row' = EnsuredRow /\ UNCHANGED ledger

(* Mutant: a grant that is not clamped to what the row can still cover.    *)
UnclampedGrant(p, amount) ==
    IF ledger[p].reserve > 0 THEN ledger[p].reserve
    ELSE IF ~row.exists \/ Available <= 0 THEN 0 ELSE amount

(* What fn_pool_reserve returns: the first grant if this position already  *)
(* has one, else as much of the amount as the row can still cover.         *)
Grant(p, amount) ==
    IF ledger[p].reserve > 0 THEN ledger[p].reserve
    ELSE IF ~row.exists \/ Available <= 0 THEN 0
    ELSE IF amount <= Available THEN amount ELSE Available

PoolReserve(p, amount) ==
    \/ /\ ledger[p].reserve = 0 /\ Grant(p, amount) > 0
       /\ row' = [row EXCEPT !.reserved = @ + Grant(p, amount)]
       /\ ledger' = [ledger EXCEPT ![p].reserve = Grant(p, amount)]
    \/ /\ ledger[p].reserve > 0 \/ Grant(p, amount) = 0
       /\ UNCHANGED poolVars

(* fn_pool_commit and fn_pool_release move the whole outstanding amount,   *)
(* or nothing.  The column CHECK reserved_cents >= 0 aborts the update.    *)
PoolCommit(p) ==
    \/ /\ Outstanding(p) > 0 /\ Outstanding(p) <= row.reserved
       /\ row' = [row EXCEPT !.reserved = @ - Outstanding(p),
                             !.paid = @ + Outstanding(p)]
       /\ ledger' = [ledger EXCEPT ![p].commit = @ + Outstanding(p)]
    \/ Outstanding(p) <= 0 /\ UNCHANGED poolVars

\* Mutant: a release that frees the row and writes no ledger row.
UnrecordedRelease(p) ==
    \/ /\ Outstanding(p) > 0 /\ Outstanding(p) <= row.reserved
       /\ row' = [row EXCEPT !.reserved = @ - Outstanding(p)]
       /\ UNCHANGED ledger
    \/ Outstanding(p) <= 0 /\ UNCHANGED poolVars

PoolRelease(p) ==
    \/ /\ Outstanding(p) > 0 /\ Outstanding(p) <= row.reserved
       /\ row' = [row EXCEPT !.reserved = @ - Outstanding(p)]
       /\ ledger' = [ledger EXCEPT ![p].release = @ + Outstanding(p)]
    \/ Outstanding(p) <= 0 /\ UNCHANGED poolVars

(* fn_pool_topup_today: ensure the day, then only ever raise the budget.   *)
TopupToday(amount) ==
    /\ row' = [EnsuredRow EXCEPT !.amount = IF @ >= amount THEN @ ELSE amount]
    /\ UNCHANGED ledger

(* Mutant: the budget may be set below what the pool already owes.         *)
UncheckedSetPool(amount) ==
    row' = [row EXCEPT !.exists = TRUE, !.amount = amount] /\ UNCHANGED ledger

(* fn_admin_set_withdrawal_pool: upsert, refused below paid + reserved.    *)
AdminSetPool(amount) ==
    /\ row.exists => amount >= row.paid + row.reserved
    /\ row' = [row EXCEPT !.exists = TRUE, !.amount = amount]
    /\ UNCHANGED ledger

-----------------------------------------------------------------------------
PoolInit == row = NoRow /\ ledger = [p \in Positions |-> NoEntry]

PoolNext ==
    \/ EnsureDay
    \/ \E p \in Positions : PoolCommit(p) \/ PoolRelease(p)
    \/ \E p \in Positions, amount \in Nat : PoolReserve(p, amount)
    \/ \E amount \in Amounts : TopupToday(amount) \/ AdminSetPool(amount)

PoolSpec == PoolInit /\ [][PoolNext]_poolVars

-----------------------------------------------------------------------------
PoolTypeOK == row \in Row /\ ledger \in [Positions -> Entry]

\* The day's budget covers what was paid and what is held for wins in flight
\* (the 0062 constraint pool_nonneg_available, "the hard cap").
HardCap == row.amount >= row.paid + row.reserved

\* fn_pool_reconcile's LEDGER TIE: the row's counters are the ledger's sums.
LedgerTie ==
    /\ row.reserved = SumFunction([p \in Positions |-> Outstanding(p)])
    /\ row.paid = SumFunction([p \in Positions |-> ledger[p].commit])
=============================================================================
