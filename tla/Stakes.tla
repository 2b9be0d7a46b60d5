------------------------------- MODULE Stakes -------------------------------
(***************************************************************************)
(* What trading promises about one player's money (docs/07, migrations     *)
(* 0123 and 0176).  There are three purses: cash, play money and practice  *)
(* money.  A purse falls only when a stake is taken from it; a stake comes *)
(* back once, as the trade's payout, to the purse it left; and play money  *)
(* may be topped up, cash never.  The one exception the code makes: what a *)
(* marketer staked in cash, before becoming one, comes back as play money. *)
(***************************************************************************)
EXTENDS Naturals

CONSTANTS Trades, Stake, Payouts

VARIABLES
    trade,              \* "none", then the purse staked, then "settled"
    purse,
    marketer

vars == <<trade, purse, marketer>>

Purses == {"cash", "demo", "practice"}

Init ==
    /\ trade = [t \in Trades |-> "none"]
    /\ purse \in [Purses -> Nat]
    /\ marketer \in BOOLEAN

Take(t, b) ==
    /\ trade[t] = "none" /\ purse[b] >= Stake
    /\ trade' = [trade EXCEPT ![t] = b]
    /\ purse' = [purse EXCEPT ![b] = @ - Stake]
    /\ UNCHANGED marketer

Return(t, b, v) ==
    /\ trade[t] = b \/ (trade[t] = "cash" /\ b = "demo" /\ marketer)
    /\ trade' = [trade EXCEPT ![t] = "settled"]
    /\ purse' = [purse EXCEPT ![b] = @ + v]
    /\ UNCHANGED marketer

TopUp(b) ==
    /\ b # "cash"
    /\ purse' \in [Purses -> Nat] /\ purse'[b] >= purse[b]
    /\ \A other \in Purses \ {b} : purse'[other] = purse[other]
    /\ UNCHANGED <<trade, marketer>>

Promote == ~marketer /\ marketer' = TRUE /\ UNCHANGED <<trade, purse>>

Next ==
    \/ \E t \in Trades, b \in Purses : Take(t, b) \/ \E v \in Payouts : Return(t, b, v)
    \/ \E b \in Purses : TopUp(b)
    \/ Promote

Spec == Init /\ [][Next]_vars
=============================================================================
