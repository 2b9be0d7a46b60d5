------------------------------- MODULE Wallet -------------------------------
(***************************************************************************)
(* One player's wallet and positions as the database keeps them: the       *)
(* functions of migrations 0123 and 0176, each one transaction under the   *)
(* wallet's or the position's row lock.  The wallet has four buckets.  A   *)
(* trade stakes practice money (a marketer practising), play money (a      *)
(* marketer, or a player in demo mode), or bonus money first and real      *)
(* money for the rest; the row says which, and settlement pays it there.   *)
(*                                                                         *)
(* Abstracted: stakes are all Stake; one active bonus; ledger entries,     *)
(* which repeat these moves; rise/fall and other contracts, whose two      *)
(* open functions move money alike.                                        *)
(***************************************************************************)
EXTENDS Integers, FiniteSets

CONSTANTS
    Positions,     \* bound: the rows there can be
    Stake,
    Payouts,       \* what a trade can pay, 0 for a loss
    Opening,       \* the buckets at the start
    BonusAmount,   \* amount of the active bonus
    Wagering,      \* stakes to be placed before it clears
    Target         \* what a demo top-up fills the bucket to

Buckets == {"real", "bonus", "demo", "practice"}

ASSUME WalletAssumption ==
    /\ IsFiniteSet(Positions)
    /\ Stake \in Nat \ {0} /\ BonusAmount \in Nat /\ Wagering \in Nat /\ Target \in Nat
    /\ Payouts \subseteq Nat /\ Payouts # {}
    /\ Opening \in [Buckets -> Nat]

VARIABLES
    row,           \* positions
    wallet,        \* the four buckets
    bonus,         \* the bonuses row: active, and stakes wagered
    account,       \* account_mode, marketer_practice, and being a marketer
    switch         \* the mode a switch asked for, its check already made

walletVars == <<row, wallet, bonus, account, switch>>

Homes == {"real", "demo", "practice"}
NoRow == [status |-> "none", home |-> "real", payout |-> 0, paid |-> "none"]

Free == {p \in Positions : row[p].status = "none"}
OpenRows == {p \in Positions : row[p].status = "open"}
Least(a, b) == IF a < b THEN a ELSE b

-----------------------------------------------------------------------------
(* fn_marketer_in_practice, fn_account_is_demo: the bucket of a new trade. *)
InPractice == account.marketer /\ account.practice
IsDemo == account.marketer \/ account.mode = "demo"
Home == IF InPractice THEN "practice" ELSE IF IsDemo THEN "demo" ELSE "real"

CanStake ==
    IF Home = "real" THEN wallet["real"] + wallet["bonus"] >= Stake ELSE wallet[Home] >= Stake

(* Bonus money goes first, real money covers the rest.                     *)
Debit ==
    IF Home = "real"
    THEN LET fromBonus == Least(wallet["bonus"], Stake)
         IN wallet' = [wallet EXCEPT !["bonus"] = @ - fromBonus,
                                     !["real"] = @ - (Stake - fromBonus)]
    ELSE wallet' = [wallet EXCEPT ![Home] = @ - Stake]

(* fn_open_position, fn_open_contract.                                     *)
OpenRow(p) ==
    /\ row[p].status = "none" /\ CanStake
    /\ row' = [row EXCEPT ![p] = [status |-> "open", home |-> Home,
                                  payout |-> 0, paid |-> "none"]]
    /\ Debit
    /\ bonus' = IF Home = "real" /\ bonus.active
                THEN [bonus EXCEPT !.wagered = @ + Stake] ELSE bonus

\* Mutant: the mode of the moment decides, not the row.
PayToCurrent(p) == IF row[p].home = "practice" THEN "practice" ELSE IF IsDemo THEN "demo" ELSE "real"

(* The bucket debited at open; or demo, when the owner is a marketer now.  *)
PayTo(p) ==
    IF row[p].home = "practice" THEN "practice"
    ELSE IF row[p].home = "demo" \/ account.marketer THEN "demo"
    ELSE "real"

(* The wagering conversion that ends a settlement in real money.           *)
Clears(b) == b = "real" /\ bonus.active /\ bonus.wagered >= Wagering

\* Mutant: the grant is converted whatever is left of it.
ConvertedInFull(b) == IF Clears(b) THEN BonusAmount ELSE 0

Converted(b) == IF Clears(b) THEN Least(wallet["bonus"], BonusAmount) ELSE 0

\* Mutant: the payout is credited whatever the row's status.
SettleRowAgain(p, v) ==
    /\ row' = [row EXCEPT ![p].status = "settled", ![p].payout = v, ![p].paid = PayTo(p)]
    /\ wallet' = [wallet EXCEPT ![PayTo(p)] = @ + v]
    /\ UNCHANGED bonus

(* fn_settle_position: a row that is settled already is left alone.        *)
SettleRow(p, v) ==
    IF row[p].status # "open" THEN UNCHANGED <<row, wallet, bonus>>
    ELSE LET b == PayTo(p) IN
         /\ row' = [row EXCEPT ![p].status = "settled", ![p].payout = v, ![p].paid = b]
         /\ wallet' = [[wallet EXCEPT ![b] = @ + v]
                          EXCEPT !["bonus"] = @ - Converted(b),
                                 !["real"] = @ + Converted(b)]
         /\ bonus' = [bonus EXCEPT !.active = @ /\ ~Clears(b)]

-----------------------------------------------------------------------------
(* fn_topup_demo_account.                                                  *)
ToppedUp(b) == IF wallet[b] < Target THEN [wallet EXCEPT ![b] = Target] ELSE wallet

TopUp ==
    /\ wallet' = ToppedUp(IF InPractice THEN "practice" ELSE "demo")
    /\ UNCHANGED <<row, bonus, account, switch>>

(* Someone registers a marketer under the player's phone on this brand.    *)
Promote ==
    /\ ~account.marketer /\ account' = [account EXCEPT !.marketer = TRUE]
    /\ UNCHANGED <<row, wallet, bonus, switch>>

Mode == IF account.marketer /\ ~account.practice THEN "real"
        ELSE IF account.marketer THEN "demo" ELSE account.mode

(* setMode looks for open positions first, in a query of its own.          *)
AskSwitch(mode) ==
    /\ switch = "none" /\ OpenRows = {} /\ mode # Mode
    /\ switch' = mode
    /\ UNCHANGED <<row, wallet, bonus, account>>

(* fn_set_marketer_practice looks again and refuses; fn_set_account_mode   *)
(* does not.  A demo account that cannot stake opens funded.               *)
Switch ==
    /\ switch # "none" /\ switch' = "none"
    /\ LET refused == account.marketer /\ OpenRows # {}
           bucket == IF account.marketer THEN "practice" ELSE "demo"
       IN IF refused THEN UNCHANGED <<account, wallet>>
          ELSE /\ account' = IF account.marketer
                             THEN [account EXCEPT !.practice = (switch = "demo")]
                             ELSE [account EXCEPT !.mode = switch]
               /\ wallet' = IF switch = "demo" /\ wallet[bucket] < Stake
                            THEN ToppedUp(bucket) ELSE wallet
    /\ UNCHANGED <<row, bonus>>

WalletInit ==
    /\ row = [p \in Positions |-> NoRow]
    /\ wallet = Opening
    /\ bonus = [active |-> TRUE, wagered |-> 0]
    /\ account \in [mode : {"real"}, practice : BOOLEAN, marketer : BOOLEAN]
    /\ account.practice = account.marketer
    /\ switch = "none"

-----------------------------------------------------------------------------
WalletTypeOK ==
    /\ row \in [Positions -> [status : {"none", "open", "settled"}, home : Homes,
                              payout : Payouts \union {0}, paid : Homes \union {"none"}]]
    /\ wallet \in [Buckets -> Nat]
    /\ bonus \in [active : BOOLEAN, wagered : Nat]
    /\ account \in [mode : {"real", "demo"}, practice : BOOLEAN, marketer : BOOLEAN]
    /\ switch \in {"none", "real", "demo"}

\* 0176: the bucket is "the one debited at open (stored on the row)", however
\* the mode is switched, and raced, while the trade runs.  Only a player who
\* became a marketer is paid in play money what was staked in real money.
PaidWhereStaked ==
    \A p \in Positions : row[p].status = "settled" =>
        \/ row[p].paid = row[p].home
        \/ row[p].home = "real" /\ row[p].paid = "demo" /\ account.marketer

Purse == [b \in {"cash", "demo", "practice"} |->
             IF b = "cash" THEN wallet["real"] + wallet["bonus"] ELSE wallet[b]]
Trade(p) == IF row[p].status # "open" THEN row[p].status
            ELSE IF row[p].home = "real" THEN "cash" ELSE row[p].home

\* The trades of the account keep the promise of module Stakes: no retry,
\* crash, restart or switch makes or loses money, or turns play money to cash.
Promise == INSTANCE Stakes WITH
              Trades <- Positions,
              trade <- [p \in Positions |-> Trade(p)],
              purse <- Purse,
              marketer <- account.marketer
StakesKept == Promise!Spec
=============================================================================
