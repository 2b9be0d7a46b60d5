------------------------------- MODULE Payout -------------------------------
(***************************************************************************)
(* What a withdrawal promises (docs/07, migration 0127): the amount is     *)
(* held when it is asked for; a gateway is told to pay it at most once;    *)
(* the hold ends once, kept for good or returned to the wallet; and money  *)
(* that was returned is never paid.                                        *)
(***************************************************************************)
EXTENDS Naturals

CONSTANT Withdrawals

VARIABLES
    hold,               \* "none", then "held", then "kept" or "returned"
    told,               \* withdrawals a gateway was told to pay
    paid                \* withdrawals a gateway paid

Init ==
    /\ hold = [w \in Withdrawals |-> "none"]
    /\ told = [w \in Withdrawals |-> 0]
    /\ paid = {}

Hold(w) ==
    /\ hold[w] = "none"
    /\ hold' = [hold EXCEPT ![w] = "held"]
    /\ UNCHANGED <<told, paid>>

Tell(w) ==
    /\ hold[w] \in {"held", "kept"} /\ told[w] = 0
    /\ told' = [told EXCEPT ![w] = 1]
    /\ UNCHANGED <<hold, paid>>

Pay(w) ==
    /\ told[w] = 1 /\ hold[w] \in {"held", "kept"}
    /\ paid' = paid \union {w}
    /\ UNCHANGED <<hold, told>>

Keep(w) ==
    /\ hold[w] = "held"
    /\ hold' = [hold EXCEPT ![w] = "kept"]
    /\ UNCHANGED <<told, paid>>

Return(w) ==
    /\ hold[w] = "held" /\ w \notin paid
    /\ hold' = [hold EXCEPT ![w] = "returned"]
    /\ UNCHANGED <<told, paid>>

Next == \E w \in Withdrawals : Hold(w) \/ Tell(w) \/ Pay(w) \/ Keep(w) \/ Return(w)

Spec == Init /\ [][Next]_<<hold, told, paid>>
=============================================================================
