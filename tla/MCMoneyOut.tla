------------------------------ MODULE MCMoneyOut ------------------------------
(***************************************************************************)
(* The two ways money leaves a brand by an admin's approval: withdrawals   *)
(* and commission payouts.  They share no table, so the run explores each  *)
(* while the other one is untouched.                                       *)
(*                                                                         *)
(* Withdrawals: two players; the first one's two withdrawals exceed her    *)
(* balance together.  Commissions: x recruited o, o recruited m, and m     *)
(* brought the player p; p and m make a deposit each; o asks for a payout  *)
(* twice.  25% of a deposit is 25, so a share of 5 is below the minimum.   *)
(***************************************************************************)
EXTENDS Withdrawals, Commissions

CONSTANTS u1, u2, w1, w2, w3, a1, a2

MCOwner == [w \in Withdrawals |-> IF w = w3 THEN u2 ELSE u1]
MCAmount == [w \in Withdrawals |-> IF w = w1 THEN 2 ELSE 1]
MCOpening == [u \in Users |-> IF u = u1 THEN 2 ELSE 1]

CONSTANTS x, o, m, p, d1, d2, q1, q2

MCReferrer == x :> Nobody @@ o :> x @@ m :> o @@ p :> m
MCStartRole == [u \in Accounts |-> IF u = p THEN "player" ELSE "marketer"]
MCDepositor == d1 :> p @@ d2 :> m
MCRequester == [q \in Requests |-> o]

MoneyInit == Init /\ CommissionInit

MoneyNext ==
    \/ Next /\ CommissionInit /\ UNCHANGED commissionVars
    \/ CommissionNext /\ Init /\ UNCHANGED vars

MoneySpec == MoneyInit /\ [][MoneyNext]_<<vars, commissionVars>> /\ Fairness
=============================================================================
