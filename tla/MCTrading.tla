------------------------------ MODULE MCTrading ------------------------------
(* A market trade and an order, or an order filled twice.  Half of the     *)
(* bonus purse is an earlier grant's, so that clearing converts some.      *)
EXTENDS Trading

CONSTANTS p1, p2, o1

MCOpening == [real |-> 1, bonus |-> 3, demo |-> 2, practice |-> 2]
=============================================================================
