------------------------------ MODULE MCDeposits ------------------------------
(* One deposit per rail and one payment typed by hand on each account.     *)
EXTENDS Deposits

CONSTANTS daraja, payhero, lipwa, typed, confirmed

MCRail ==
    [k \in Codes |-> CASE k \in {daraja, confirmed} -> "mpesa"
                       [] k \in {payhero, typed}    -> "payhero"
                       [] OTHER                     -> "lipwa"]
=============================================================================
