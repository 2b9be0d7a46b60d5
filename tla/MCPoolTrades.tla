---------------------------- MODULE MCPoolTrades ----------------------------
(* Three trades of two players: one large stake that builds turnover, then *)
(* a small rise/fall trade and a small digit contract it can fund.         *)
EXTENDS PoolTrades

CONSTANTS t1, t2, t3, u1, u2

MCContract ==
    [p \in Positions |->
        CASE p = t1 -> [user |-> u1, stake |-> 3, fixed |-> 0, most |-> 4]
          [] p = t2 -> [user |-> u1, stake |-> 1, fixed |-> 0, most |-> 2]
          [] OTHER  -> [user |-> u2, stake |-> 1, fixed |-> 3, most |-> 3]]
=============================================================================
