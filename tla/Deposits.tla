------------------------------- MODULE Deposits -------------------------------
(***************************************************************************)
(* Deposits: PaymentService creates the transaction row, then calls the    *)
(* gateway, then attaches the gateway's id to the row; callbacks and the   *)
(* periodic sweeps settle rows by that id; the PayHero ledger sweep        *)
(* credits what it can match and stores the rest for a manual claim.  One  *)
(* action is one database call or one gateway call, with the code that     *)
(* follows its reply.                                                      *)
(*                                                                         *)
(* A status query and the fn_complete_deposit that follows it are one      *)
(* action: a gateway's final answer never changes in between.              *)
(* Abstracted: amounts, phones, the deposit gate (a refusal there is a     *)
(* deposit never created), the provider_callback diagnostics, commissions. *)
(***************************************************************************)
EXTENDS Integers, FiniteSets

CONSTANTS
    Requests,      \* deposits players initiate; each is paid at most once
    Paybills,      \* payments players type into M-PESA by hand
    Rail,          \* "mpesa" (Daraja), "payhero" or "lipwa" (hosted checkout)
    Limit,         \* rows a status sweep lists (25 in the code)
    MaxFaults      \* bound: lost replies, thrown calls and process deaths

Codes == Requests \union Paybills

ASSUME DepositsAssumption ==
    /\ IsFiniteSet(Requests) /\ Requests \intersect Paybills = {}
    /\ Rail \in [Codes -> {"mpesa", "payhero", "lipwa"}]
    /\ \A k \in Paybills : Rail[k] # "lipwa"
    /\ Limit \in Nat /\ MaxFaults \in Nat

VARIABLES
    tx,        \* transactions: status, and whether checkout_request_id is set
    born,      \* created_at of each deposit, as its rank in its provider; 0 before creation
    initiate,  \* where the initiate handler of each deposit is
    gateway,   \* the gateways' own record of each payment
    c2b,       \* c2b_payments: stored, then claimed
    sweep,     \* the PayHero ledger sweep: rows left, references it resolved
    credits,   \* wallet credits in ledger_entries, per payment
    faults

vars == <<tx, born, initiate, gateway, c2b, sweep, credits, faults>>

NoTx == [status |-> "none", checkout |-> FALSE]
Final == {"success", "failed"}
Idle == [todo |-> {}, owned |-> {}]

(* The provider column: a hosted checkout is a payhero transaction.        *)
Provider(d) == IF Rail[d] = "mpesa" THEN "mpesa" ELSE "payhero"
OnPayHero == {k \in Codes : Rail[k] # "mpesa"}

-----------------------------------------------------------------------------
(* fn_create_deposit, fn_create_deposit_provider.                          *)
Create(d) ==
    /\ initiate[d] = "idle"
    /\ tx' = [tx EXCEPT ![d].status = "pending"]
    /\ born' = [born EXCEPT ![d] =
                   1 + Cardinality({e \in Requests : Provider(e) = Provider(d) /\ born[e] > 0})]
    /\ initiate' = [initiate EXCEPT ![d] = "created"]
    /\ UNCHANGED <<gateway, c2b, sweep, credits, faults>>

(* stkPush / initiateStk: the prompt goes out and the handler learns it,   *)
(* or the gateway refuses, or the reply is lost and the handler takes the  *)
(* error for a refusal (withAbandonOnReject).  lipwaLink only builds a URL. *)
Send(d) ==
    /\ initiate[d] = "created"
    /\ \/ /\ initiate' = [initiate EXCEPT ![d] = "accepted"]
          /\ gateway' = IF Rail[d] = "lipwa" THEN gateway
                        ELSE [gateway EXCEPT ![d] = "prompted"]
          /\ UNCHANGED faults
       \/ /\ Rail[d] # "lipwa"
          /\ initiate' = [initiate EXCEPT ![d] = "refused"]
          /\ UNCHANGED <<gateway, faults>>
       \/ /\ Rail[d] # "lipwa" /\ faults < MaxFaults /\ faults' = faults + 1
          /\ initiate' = [initiate EXCEPT ![d] = "refused"]
          /\ gateway' = [gateway EXCEPT ![d] = "prompted"]
    /\ UNCHANGED <<tx, born, c2b, sweep, credits>>

(* fn_attach_stk, then the reply to the player, who only now has the       *)
(* hosted page.                                                            *)
Attach(d) ==
    /\ initiate[d] = "accepted"
    /\ tx' = IF tx[d].status = "pending"
             THEN [tx EXCEPT ![d] = [status |-> "processing", checkout |-> TRUE]]
             ELSE tx
    /\ initiate' = [initiate EXCEPT ![d] = "done"]
    /\ gateway' = IF Rail[d] = "lipwa" THEN [gateway EXCEPT ![d] = "prompted"] ELSE gateway
    /\ UNCHANGED <<born, c2b, sweep, credits, faults>>

\* Mutant: the clean-up looks for a row that did reach the gateway.
AbandonAttached(d) ==
    /\ initiate[d] = "refused"
    /\ tx' = IF tx[d].status \in {"pending", "processing"} /\ tx[d].checkout
             THEN [tx EXCEPT ![d].status = "failed"]
             ELSE tx
    /\ initiate' = [initiate EXCEPT ![d] = "done"]
    /\ UNCHANGED <<born, gateway, c2b, sweep, credits, faults>>

(* fn_abandon_deposit: fail the row, unless it has a checkout id.  (Its    *)
(* third guard, no ledger entry of this row, holds of every unsettled row.) *)
Abandon(d) ==
    /\ initiate[d] = "refused"
    /\ tx' = IF tx[d].status \in {"pending", "processing"} /\ ~tx[d].checkout
             THEN [tx EXCEPT ![d].status = "failed"]
             ELSE tx
    /\ initiate' = [initiate EXCEPT ![d] = "done"]
    /\ UNCHANGED <<born, gateway, c2b, sweep, credits, faults>>

(* The handler ends early: the process dies, or stamp, attachStk or the    *)
(* swallowed abandonDeposit throws.                                        *)
Drop(d) ==
    /\ faults < MaxFaults /\ faults' = faults + 1
    /\ initiate[d] \in {"created", "accepted", "refused"}
    /\ initiate' = [initiate EXCEPT ![d] = "done"]
    /\ UNCHANGED <<tx, born, gateway, c2b, sweep, credits>>

-----------------------------------------------------------------------------
(* The customer answers the prompt, or pays by hand; final either way.     *)
Pay(k) ==
    /\ gateway[k] = IF k \in Requests THEN "prompted" ELSE "none"
    /\ gateway' = [gateway EXCEPT ![k] = "paid"]
    /\ UNCHANGED <<tx, born, initiate, c2b, sweep, credits, faults>>

Decline(d) ==
    /\ gateway[d] = "prompted" /\ Rail[d] # "lipwa"
    /\ gateway' = [gateway EXCEPT ![d] = "declined"]
    /\ UNCHANGED <<tx, born, initiate, c2b, sweep, credits, faults>>

-----------------------------------------------------------------------------
\* Mutant: a result is applied whatever the row's status is.
CompleteAgain(d) ==
    IF gateway[d] = "paid"
    THEN /\ tx' = [tx EXCEPT ![d].status = "success"]
         /\ credits' = [credits EXCEPT ![d] = @ + 1]
    ELSE tx' = [tx EXCEPT ![d].status = "failed"] /\ UNCHANGED credits

(* fn_complete_deposit with the gateway's final answer: once, and only an  *)
(* unsettled row.                                                          *)
CompleteDeposit(d) ==
    IF tx[d].status \in Final THEN UNCHANGED <<tx, credits>>
    ELSE IF gateway[d] = "paid"
    THEN /\ tx' = [tx EXCEPT ![d].status = "success"]
         /\ credits' = [credits EXCEPT ![d] = @ + 1]
    ELSE tx' = [tx EXCEPT ![d].status = "failed"] /\ UNCHANGED credits

Answered(d) == gateway[d] \in {"paid", "declined"}

(* handleStkCallback: any number of times; TX_NOT_FOUND without the id.    *)
Callback(d) ==
    /\ Rail[d] = "mpesa" /\ Answered(d) /\ tx[d].checkout
    /\ CompleteDeposit(d)
    /\ UNCHANGED <<born, initiate, gateway, c2b, sweep, faults>>

(* listUnsettledDeposits: the oldest rows of one provider that have an id. *)
Unsettled(provider) ==
    {d \in Requests : /\ Provider(d) = provider /\ tx[d].checkout
                      /\ tx[d].status \in {"pending", "processing"}}

\* Mutant: the sweep lists pending rows only; an attached row is processing.
ListedPending(provider) == {d \in Unsettled(provider) : tx[d].status = "pending"}

Listed(provider) ==
    {d \in Unsettled(provider) :
        Cardinality({e \in Unsettled(provider) : born[e] < born[d]}) < Limit}

(* reconcileDeposits and reconcilePayHeroDeposits (which a PayHero         *)
(* callback runs too) on one listed row.  The status query does not know a *)
(* hosted checkout, so that row stays listed.                              *)
Sweep(d) ==
    /\ d \in Listed(Provider(d)) /\ Rail[d] # "lipwa" /\ Answered(d)
    /\ CompleteDeposit(d)
    /\ UNCHANGED <<born, initiate, gateway, c2b, sweep, faults>>

-----------------------------------------------------------------------------
(* reconcilePayHeroLedger: list the account's payments, resolve in one     *)
(* query which references are ours, then take the rows one by one.         *)
\* Mutant: the payments of every channel of the account are taken.
InAnyChannel == {k \in Codes : gateway[k] = "paid"}

InLedger == {k \in OnPayHero : gateway[k] = "paid"}

\* Mutant: no reference is resolved, so every payment is stored.
LedgerSweepUnresolved ==
    /\ sweep.todo = {} /\ InLedger # {}
    /\ sweep' = [todo |-> InLedger, owned |-> {}]
    /\ UNCHANGED <<tx, born, initiate, gateway, c2b, credits, faults>>

LedgerSweep ==
    /\ sweep.todo = {} /\ InLedger # {}
    /\ sweep' = [todo |-> InLedger, owned |-> {d \in InLedger \intersect Requests : tx[d].checkout}]
    /\ UNCHANGED <<tx, born, initiate, gateway, c2b, credits, faults>>

(* fn_ingest_c2b: on conflict do nothing.                                  *)
Ingest(k) == c2b' = [c2b EXCEPT ![k] = IF @ = "none" THEN "stored" ELSE @]

(* A resolved row settles its deposit and is never stored as well; any     *)
(* other is stored under its reference.                                    *)
LedgerRow(k) ==
    /\ k \in sweep.todo
    /\ sweep' = [sweep EXCEPT !.todo = @ \ {k}]
    /\ \/ k \in sweep.owned /\ CompleteDeposit(k) /\ UNCHANGED c2b
       \/ k \notin sweep.owned /\ Ingest(k) /\ UNCHANGED <<tx, credits>>
    /\ UNCHANGED <<born, initiate, gateway, faults>>

(* Rows whose call throws are counted and left; a death loses them all.    *)
LoseRows ==
    /\ faults < MaxFaults /\ faults' = faults + 1
    /\ \E left \in SUBSET sweep.todo \ {sweep.todo} : sweep' = [sweep EXCEPT !.todo = left]
    /\ UNCHANGED <<tx, born, initiate, gateway, c2b, credits>>

(* The C2B confirmation route: Safaricom repeats it until it is accepted.  *)
Confirm(k) ==
    /\ k \in Paybills /\ Rail[k] = "mpesa" /\ gateway[k] = "paid"
    /\ Ingest(k)
    /\ UNCHANGED <<tx, born, initiate, gateway, sweep, credits, faults>>

-----------------------------------------------------------------------------
\* Mutant: only a deposit that already succeeded refuses the claim.
RefusedIfSettled(k) == k \in Requests /\ tx[k].status = "success"

(* The 0213 guard: the stored reference is a deposit that has not failed.  *)
(* (Its second guard, the code is the receipt of a successful deposit,     *)
(* adds nothing here: a deposit's payment is stored with its reference.)   *)
Refused(k) == k \in Requests /\ tx[k].status # "failed"

Claimable(k) == c2b[k] = "stored" /\ ~Refused(k)

(* fn_claim_c2b_deposit, by whichever player has the code; a claimed code  *)
(* is refused or answered with the first claim.                            *)
Claim(k) ==
    /\ Claimable(k)
    /\ c2b' = [c2b EXCEPT ![k] = "claimed"]
    /\ credits' = [credits EXCEPT ![k] = @ + 1]
    /\ UNCHANGED <<tx, born, initiate, gateway, sweep, faults>>

-----------------------------------------------------------------------------
Init ==
    /\ tx = [d \in Requests |-> NoTx]
    /\ born = [d \in Requests |-> 0]
    /\ initiate = [d \in Requests |-> "idle"]
    /\ gateway = [k \in Codes |-> "none"]
    /\ c2b = [k \in Codes |-> "none"]
    /\ sweep = Idle
    /\ credits = [k \in Codes |-> 0]
    /\ faults = 0

Handle(d) == Send(d) \/ Attach(d) \/ Abandon(d)

Next ==
    \/ \E d \in Requests : \/ Create(d) \/ Handle(d) \/ Drop(d)
                           \/ Decline(d) \/ Callback(d) \/ Sweep(d)
    \/ \E k \in Codes : Pay(k) \/ LedgerRow(k) \/ Confirm(k) \/ Claim(k)
    \/ LedgerSweep
    \/ LoseRows

Spec == Init /\ [][Next]_vars

(* Handlers go on until they end; the timers of server.ts run every sweep  *)
(* again and again; Safaricom repeats a confirmation.  Callbacks may never *)
(* come, players may never pay or claim.                                   *)
FairSpec ==
    /\ Spec
    /\ \A d \in Requests : WF_vars(Handle(d)) /\ WF_vars(Sweep(d))
    /\ WF_vars(LedgerSweep)
    /\ \A k \in Codes : WF_vars(LedgerRow(k)) /\ WF_vars(Confirm(k))

-----------------------------------------------------------------------------
(* Properties.                                                             *)

\* Types of the rows, the handlers and the ledger sweep.
TypeOK ==
    /\ tx \in [Requests -> [status : {"none", "pending", "processing"} \union Final,
                            checkout : BOOLEAN]]
    /\ born \in [Requests -> Nat]
    /\ initiate \in [Requests -> {"idle", "created", "accepted", "refused", "done"}]
    /\ gateway \in [Codes -> {"none", "prompted", "paid", "declined"}]
    /\ c2b \in [Codes -> {"none", "stored", "claimed"}]
    /\ sweep \in [todo : SUBSET OnPayHero, owned : SUBSET (Requests \intersect OnPayHero)]
    /\ credits \in [Codes -> Nat]
    /\ faults \in 0..MaxFaults

\* 0213: however callbacks, sweeps, the ledger and claims overlap, a payment is
\* credited at most once, and only after the gateway took the money.
Books == INSTANCE PaymentCredit WITH
            paid <- {k \in Codes : gateway[k] = "paid"}, credited <- credits
CreditsOnce == Books!Spec

\* A payment that was claimed by hand leaves its deposit failed for good: it
\* can never settle as that deposit afterwards (0213, why any status refuses).
ClaimedNeverSettles ==
    \A d \in Requests : c2b[d] = "claimed" => tx[d].status = "failed"

\* A deposit never stays pending: it is attached or abandoned (0174), unless
\* its handler was cut short.
InitiationEnds ==
    \A d \in Requests : tx[d].status = "pending" ~> tx[d].status # "pending" \/ faults > 0

\* Once attached, a deposit reaches the outcome the gateway decided without any
\* callback and whatever is lost on the way (reconcileDeposits and the others).
OutcomeReachesDeposit ==
    \A d \in Requests : tx[d].checkout /\ Answered(d) ~> tx[d].status \in Final

\* Money a customer paid is credited, or can be claimed by code, in the end,
\* unless a call or a process was lost.
PaidReachesPlayer ==
    \A k \in Codes : gateway[k] = "paid" ~> credits[k] = 1 \/ Claimable(k) \/ faults > 0

-----------------------------------------------------------------------------
(* What the repository says and the code does not do.                      *)

\* reconcilePayHeroLedger: a payment is either credited to its own transaction
\* or made claimable, so nothing is stranded, even when a handler dies.
NothingStranded ==
    \A k \in OnPayHero : gateway[k] = "paid" ~> credits[k] = 1 \/ Claimable(k)
=============================================================================
