---------------------------- MODULE PaymentCredit ----------------------------
(***************************************************************************)
(* What the deposit rails promise together (migration 0213): money that    *)
(* reached the platform enters a wallet at most once, whichever of         *)
(* fn_complete_deposit and fn_claim_c2b_deposit gets to it, and nothing    *)
(* else enters a wallet.                                                   *)
(***************************************************************************)
EXTENDS Naturals

CONSTANT Codes          \* payments, by their confirmation code

VARIABLES
    paid,               \* payments the gateways took from a customer
    credited            \* how often each payment was credited to a wallet

Init == paid = {} /\ credited = [k \in Codes |-> 0]

Pay(k) == paid' = paid \union {k} /\ UNCHANGED credited

Credit(k) ==
    /\ k \in paid /\ credited[k] = 0
    /\ credited' = [credited EXCEPT ![k] = 1]
    /\ UNCHANGED paid

Next == \E k \in Codes : Pay(k) \/ Credit(k)

Spec == Init /\ [][Next]_<<paid, credited>>
=============================================================================
