----------------------------- MODULE Withdrawals -----------------------------
(***************************************************************************)
(* M-PESA withdrawals: a request holds the amount and leaves a pending     *)
(* row; the dashboard, a bulk run, the Telegram bot and the e-mail link    *)
(* approve or reject it; an approval dispatches the payout through Daraja  *)
(* or PayHero; the gateway's result, or an admin by hand, ends the row.    *)
(* One action is one database call or one gateway call.                    *)
(*                                                                         *)
(* Every surface runs the same approveWithdrawal, so an approver is any    *)
(* of them.  Abstracted: minimum amounts, the kill switch and the payout   *)
(* phone (a refusal there is a withdrawal never asked for), who owns the   *)
(* payout account, receipts and audit rows, and the internal rail, whose   *)
(* rows are settled where they are created since migration 0109.           *)
(***************************************************************************)
EXTENDS Integers, FiniteSets, Functions

CONSTANTS
    Users,
    Withdrawals,   \* requests players make, each once
    Owner,         \* whose withdrawal it is
    Amount,
    Opening,       \* real_balance of each player at the start
    Approvers,     \* approveWithdrawal calls that may run at the same time
    MaxFaults      \* bound: calls cut short and results lost

ASSUME WithdrawalsAssumption ==
    /\ IsFiniteSet(Withdrawals)
    /\ Owner \in [Withdrawals -> Users]
    /\ Amount \in [Withdrawals -> Nat \ {0}]
    /\ Opening \in [Users -> Nat]
    /\ MaxFaults \in Nat

VARIABLES
    tx,            \* status of each withdrawal's row; "none" before it exists
    balance,       \* wallets.real_balance
    approver,      \* where each approval call is, and on which row
    payout,        \* the gateway's record of the payout
    told,          \* how often a gateway was told to pay
    result,        \* the gateway's result: none yet, due, read, or missed
    faults

vars == <<tx, balance, approver, payout, told, result, faults>>

Final == {"success", "failed", "reversed"}
Returned == {"failed", "reversed"}
Idle == [at |-> "idle"]
Busy == [at : {"checked", "approved"}, row : Withdrawals]

-----------------------------------------------------------------------------
\* Mutant: the balance is not compared with the amount.
RequestOverdrawn(w) ==
    /\ tx[w] = "none"
    /\ balance' = [balance EXCEPT ![Owner[w]] = @ - Amount[w]]
    /\ tx' = [tx EXCEPT ![w] = "pending"]
    /\ UNCHANGED <<approver, payout, told, result, faults>>

(* requestWithdrawal, fn_create_withdrawal: under the wallet's row lock,   *)
(* debit the amount and insert the pending row.                            *)
Request(w) ==
    /\ tx[w] = "none" /\ balance[Owner[w]] >= Amount[w]
    /\ balance' = [balance EXCEPT ![Owner[w]] = @ - Amount[w]]
    /\ tx' = [tx EXCEPT ![w] = "pending"]
    /\ UNCHANGED <<approver, payout, told, result, faults>>

(* approveWithdrawal first reads who owns the payout account and, whatever *)
(* the row's status, chooses the rail or refuses and ends.                 *)
Check(a, w) ==
    /\ approver[a] = Idle /\ tx[w] # "none"
    /\ approver' = [approver EXCEPT ![a] = [at |-> "checked", row |-> w]]
    /\ UNCHANGED <<tx, balance, payout, told, result, faults>>

(* fn_approve_withdrawal: only a pending row becomes processing; any other *)
(* answer ends the call.                                                   *)
Approve(a) ==
    /\ approver[a].at = "checked"
    /\ LET w == approver[a].row IN
         \/ /\ tx[w] = "pending"
            /\ tx' = [tx EXCEPT ![w] = "processing"]
            /\ approver' = [approver EXCEPT ![a].at = "approved"]
         \/ /\ tx[w] # "pending"
            /\ approver' = [approver EXCEPT ![a] = Idle]
            /\ UNCHANGED tx
    /\ UNCHANGED <<balance, payout, told, result, faults>>

(* b2cPayment or withdraw.  Accepted, with or without a reply, or refused: *)
(* the row stays processing, and nothing sends the payout again.           *)
Dispatch(a) ==
    /\ approver[a].at = "approved"
    /\ LET w == approver[a].row IN
         \/ /\ payout' = [payout EXCEPT ![w] = "queued"]
            /\ told' = [told EXCEPT ![w] = @ + 1]
         \/ /\ payout' = [payout EXCEPT ![w] = "refused"]
            /\ UNCHANGED told
    /\ approver' = [approver EXCEPT ![a] = Idle]
    /\ UNCHANGED <<tx, balance, result, faults>>

(* The call ends early: the process dies, or a query or stamp throws after *)
(* it took effect.  A row it had approved is never dispatched.             *)
Drop(a) ==
    /\ approver[a] # Idle
    /\ faults < MaxFaults /\ faults' = faults + 1
    /\ payout' = IF approver[a].at = "approved"
                 THEN [payout EXCEPT ![approver[a].row] = "refused"] ELSE payout
    /\ approver' = [approver EXCEPT ![a] = Idle]
    /\ UNCHANGED <<tx, balance, told, result>>

-----------------------------------------------------------------------------
(* The hold goes back to the wallet, with its withdrawal_reversal entry.   *)
Refund(w) == balance' = [balance EXCEPT ![Owner[w]] = @ + Amount[w]]

\* Mutant: a row that is being paid can still be rejected.
RejectProcessing(w) ==
    /\ tx[w] \in {"pending", "processing"}
    /\ tx' = [tx EXCEPT ![w] = "reversed"]
    /\ Refund(w)
    /\ UNCHANGED <<approver, payout, told, result, faults>>

(* fn_reject_withdrawal, from any surface.                                 *)
Reject(w) ==
    /\ tx[w] = "pending"
    /\ tx' = [tx EXCEPT ![w] = "reversed"]
    /\ Refund(w)
    /\ UNCHANGED <<approver, payout, told, result, faults>>

(* fn_admin_mark_withdrawal_paid: a paid row is left alone, a returned one *)
(* raises WITHDRAWAL_ALREADY_REVERSED.                                     *)
MarkPaid(w) ==
    /\ tx[w] \in {"pending", "processing"}
    /\ tx' = [tx EXCEPT ![w] = "success"]
    /\ UNCHANGED <<balance, approver, payout, told, result, faults>>

-----------------------------------------------------------------------------
(* The gateway pays, or fails for good; either way it owes us a result.    *)
Settle(w) ==
    /\ payout[w] = "queued"
    /\ \E outcome \in {"paid", "failed"} : payout' = [payout EXCEPT ![w] = outcome]
    /\ result' = [result EXCEPT ![w] = "due"]
    /\ UNCHANGED <<tx, balance, approver, told, faults>>

\* Mutant: a failed payout is refunded whatever the status of the row is.
CompleteAgain(w) ==
    IF payout[w] = "paid" /\ tx[w] \notin Final
    THEN tx' = [tx EXCEPT ![w] = "success"] /\ UNCHANGED balance
    ELSE IF payout[w] = "failed"
    THEN tx' = [tx EXCEPT ![w] = "failed"] /\ Refund(w)
    ELSE UNCHANGED <<tx, balance>>

(* fn_complete_withdrawal with the gateway's outcome: a row that has ended *)
(* is left alone.                                                          *)
Complete(w) ==
    IF tx[w] \in Final THEN UNCHANGED <<tx, balance>>
    ELSE IF payout[w] = "paid"
    THEN tx' = [tx EXCEPT ![w] = "success"] /\ UNCHANGED balance
    ELSE tx' = [tx EXCEPT ![w] = "failed"] /\ Refund(w)

\* Mutant: a result is taken for a row that is still pending only.
ResultPending(w) ==
    /\ result[w] # "none" /\ result' = [result EXCEPT ![w] = "read"]
    /\ IF tx[w] = "pending" THEN Complete(w) ELSE UNCHANGED <<tx, balance>>
    /\ UNCHANGED <<approver, payout, told, faults>>

(* handleB2cResult, handlePayHeroWithdrawResult: the gateway may repeat    *)
(* its result at any time.  PayHero's is only a cue to ask for the status. *)
Result(w) ==
    /\ result[w] # "none" /\ result' = [result EXCEPT ![w] = "read"]
    /\ Complete(w)
    /\ UNCHANGED <<approver, payout, told, faults>>

(* The result is lost on its way; or PayHero's status cannot be read just  *)
(* then, which counts as still processing: the route answers ok, nothing   *)
(* asks again.                                                             *)
MissResult(w) ==
    /\ result[w] = "due"
    /\ faults < MaxFaults /\ faults' = faults + 1
    /\ result' = [result EXCEPT ![w] = "missed"]
    /\ UNCHANGED <<tx, balance, approver, payout, told>>

-----------------------------------------------------------------------------
Init ==
    /\ tx = [w \in Withdrawals |-> "none"]
    /\ balance = Opening
    /\ approver = [a \in Approvers |-> Idle]
    /\ payout = [w \in Withdrawals |-> "none"]
    /\ told = [w \in Withdrawals |-> 0]
    /\ result = [w \in Withdrawals |-> "none"]
    /\ faults = 0

Next ==
    \/ \E w \in Withdrawals : \/ Request(w) \/ Reject(w) \/ MarkPaid(w)
                              \/ Settle(w) \/ Result(w) \/ MissResult(w)
    \/ \E a \in Approvers : \/ Approve(a) \/ Dispatch(a) \/ Drop(a)
                            \/ \E w \in Withdrawals : Check(a, w)

Spec == Init /\ [][Next]_vars

(* A call that started goes on; a gateway that took a payout ends it and   *)
(* delivers its result.  Nobody has to approve, reject or mark anything.   *)
Fairness ==
    /\ \A a \in Approvers : WF_vars(Approve(a)) /\ WF_vars(Dispatch(a))
    /\ \A w \in Withdrawals : WF_vars(Settle(w)) /\ WF_vars(result[w] = "due" /\ Result(w))

FairSpec == Spec /\ Fairness

-----------------------------------------------------------------------------
(* Properties.                                                             *)

\* Types of the rows, the approval calls and the gateway's records.
TypeOK ==
    /\ tx \in [Withdrawals -> {"none", "pending", "processing"} \union Final]
    /\ balance \in [Users -> Nat]
    /\ approver \in [Approvers -> {Idle} \union Busy]
    /\ payout \in [Withdrawals -> {"none", "refused", "queued", "paid", "failed"}]
    /\ told \in [Withdrawals -> Nat]
    /\ result \in [Withdrawals -> {"none", "due", "read", "missed"}]
    /\ faults \in 0..MaxFaults

Held(u) == {w \in Withdrawals : Owner[w] = u /\ tx[w] \notin {"none"} \union Returned}

\* docs/07: a request holds the funds and a failed or reversed one gives them
\* back, once: the wallet always lacks exactly the withdrawals not returned.
WalletTie ==
    \A u \in Users : balance[u] + SumFunctionOnSet(Amount, Held(u)) = Opening[u]

\* 0127, docs/07: whichever surfaces approve, reject or mark a withdrawal, and
\* whatever results come late or twice, it is dispatched at most once, its hold
\* ends once, and an amount that was returned is never paid by the gateway.
Hold(w) == IF tx[w] = "none" THEN "none"
           ELSE IF tx[w] = "success" THEN "kept"
           ELSE IF tx[w] \in Returned THEN "returned" ELSE "held"
Promise == INSTANCE Payout WITH
              hold <- [w \in Withdrawals |-> Hold(w)],
              paid <- {w \in Withdrawals : payout[w] = "paid"}
PayoutKept == Promise!Spec

\* An approved withdrawal ends by itself: it is stuck in processing, for an
\* admin to mark, only when its dispatch was refused or its result missed.
ProcessingEnds ==
    \A w \in Withdrawals :
        tx[w] = "processing" ~> tx[w] \in Final \/ payout[w] = "refused" \/ result[w] = "missed"
=============================================================================
