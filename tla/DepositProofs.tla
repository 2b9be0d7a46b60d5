---------------------------- MODULE DepositProofs ----------------------------
(***************************************************************************)
(* Proofs about Deposits for every set of deposits and payments: a payment *)
(* is credited at most once, and a claimed one never settles.              *)
(*                                                                         *)
(* CreditOf says which row accounts for a payment's credit; it is what     *)
(* makes both claims inductive.                                            *)
(***************************************************************************)
EXTENDS Deposits, FiniteSetTheorems, TLAPS

RowTypes ==
    /\ tx \in [Requests -> [status : {"none", "pending", "processing"} \union Final,
                            checkout : BOOLEAN]]
    /\ initiate \in [Requests -> {"idle", "created", "accepted", "refused", "done"}]
    /\ gateway \in [Codes -> {"none", "prompted", "paid", "declined"}]
    /\ c2b \in [Codes -> {"none", "stored", "claimed"}]
    /\ credits \in [Codes -> Nat]
    /\ sweep \in [todo : SUBSET OnPayHero, owned : SUBSET (Requests \intersect OnPayHero)]

Settled(k) == k \in Requests /\ tx[k].status = "success"

\* A credit is its settled deposit's or its claim's, never both.
CreditOf(k) ==
    /\ credits[k] = IF Settled(k) \/ c2b[k] = "claimed" THEN 1 ELSE 0
    /\ k \in Requests /\ c2b[k] = "claimed" => tx[k].status = "failed"
    /\ credits[k] > 0 => gateway[k] = "paid"
    /\ c2b[k] # "none" => gateway[k] = "paid"

\* The handler has not reached the gateway yet, so nobody can have paid.
Unsent(d) ==
    /\ initiate[d] = "idle" => tx[d].status = "none"
    /\ initiate[d] \in {"idle", "created"} => gateway[d] = "none"
    /\ initiate[d] = "accepted" /\ Rail[d] = "lipwa" => gateway[d] = "none"

IInv ==
    /\ RowTypes
    /\ \A k \in Codes : CreditOf(k)
    /\ \A d \in Requests : Unsent(d)
    /\ sweep.todo \subseteq {k \in Codes : gateway[k] = "paid"}
    /\ \A d \in sweep.owned : tx[d].status # "none"
    /\ \A d \in Requests : tx[d].checkout => tx[d].status # "none"

Paid == {k \in Codes : gateway[k] = "paid"}

\* What a step may do to the books: credit one paid payment that has no credit.
Credited(k) ==
    /\ k \in Codes /\ gateway[k] = "paid" /\ credits[k] = 0
    /\ credits' = [credits EXCEPT ![k] = 1]

-----------------------------------------------------------------------------
\* fn_complete_deposit on an answered row keeps the accounts, and credits at
\* most that row's payment.
LEMMA CompleteSafe ==
    ASSUME IInv, NEW d \in Requests, Answered(d), tx[d].status # "none",
           CompleteDeposit(d), UNCHANGED <<initiate, gateway, c2b>>
    PROVE  /\ tx' \in [Requests -> [status : {"none", "pending", "processing"} \union Final,
                                    checkout : BOOLEAN]]
           /\ credits' \in [Codes -> Nat]
           /\ \A k \in Codes : CreditOf(k)'
           /\ \A e \in Requests : /\ Unsent(e)'
                                  /\ tx[e].status # "none" => tx'[e].status # "none"
                                  /\ tx'[e].checkout = tx[e].checkout
           /\ UNCHANGED credits \/ Credited(d)
<1> USE DEF IInv, RowTypes, Final, Codes
<1>1. CASE tx[d].status \in Final
  <2>1. UNCHANGED <<tx, credits>>
    BY <1>1 DEF CompleteDeposit
  <2> QED  BY <2>1 DEF CreditOf, Settled, Unsent
<1>2. CASE tx[d].status \notin Final /\ gateway[d] = "paid"
  <2>1. credits[d] = 0 /\ c2b[d] # "claimed"
    BY <1>2 DEF CreditOf, Settled
  <2>2. /\ tx' = [tx EXCEPT ![d].status = "success"]
        /\ credits' = [credits EXCEPT ![d] = 1]
    BY <1>2, <2>1 DEF CompleteDeposit
  <2>3. Credited(d)
    BY <1>2, <2>1, <2>2 DEF Credited
  <2>4. \A k \in Codes : CreditOf(k)'
    BY <1>2, <2>1, <2>2 DEF CreditOf, Settled
  <2>5. \A e \in Requests : /\ Unsent(e)'
                            /\ tx[e].status # "none" => tx'[e].status # "none"
                            /\ tx'[e].checkout = tx[e].checkout
    BY <2>2 DEF Unsent
  <2> QED  BY <2>2, <2>3, <2>4, <2>5
<1>3. CASE tx[d].status \notin Final /\ gateway[d] # "paid"
  <2>1. tx' = [tx EXCEPT ![d].status = "failed"] /\ UNCHANGED credits
    BY <1>3 DEF CompleteDeposit
  <2>2. \A k \in Codes : CreditOf(k)'
    BY <1>3, <2>1 DEF CreditOf, Settled
  <2>3. \A e \in Requests : /\ Unsent(e)'
                            /\ tx[e].status # "none" => tx'[e].status # "none"
                            /\ tx'[e].checkout = tx[e].checkout
    BY <2>1 DEF Unsent
  <2> QED  BY <2>1, <2>2, <2>3
<1> QED  BY <1>1, <1>2, <1>3

\* The initiate handler moves no credit and opens no way around one.
LEMMA HandlerSafe ==
    ASSUME IInv, NEW d \in Requests, Create(d) \/ Handle(d) \/ Drop(d)
    PROVE  IInv' /\ UNCHANGED credits /\ Paid' = Paid
<1> USE DEF IInv, RowTypes, Final, Codes, Paid
<1>1. CASE Create(d)
  <2>1. tx[d].status = "none" /\ c2b[d] # "claimed"
    BY <1>1 DEF Create, Unsent, CreditOf
  <2>2. \A k \in Codes : CreditOf(k)'
    BY <1>1, <2>1 DEF Create, CreditOf, Settled
  <2> QED  BY <1>1, <2>1, <2>2 DEF Create, Unsent
<1>2. CASE Send(d)
  <2>1. gateway[d] = "none" /\ c2b[d] = "none" /\ credits[d] = 0
    BY <1>2 DEF Send, Unsent, CreditOf
  <2>2. \A k \in Codes : gateway'[k] = "paid" <=> gateway[k] = "paid"
    BY <1>2, <2>1 DEF Send
  <2>3. \A k \in Codes : CreditOf(k)'
    BY <1>2, <2>2 DEF Send, CreditOf, Settled
  <2>4. RowTypes' /\ \A e \in Requests : Unsent(e)'
    BY <1>2 DEF Send, Unsent
  <2> QED  BY <1>2, <2>2, <2>3, <2>4 DEF Send
<1>3. CASE Attach(d)
  <2>1. \A k \in Codes : gateway'[k] = "paid" <=> gateway[k] = "paid"
    BY <1>3 DEF Attach, Unsent
  <2>2. \A k \in Codes : CreditOf(k)'
    BY <1>3, <2>1 DEF Attach, CreditOf, Settled
  <2>3. RowTypes'
    <3>1. tx' \in [Requests -> [status : {"none", "pending", "processing"} \union Final,
                               checkout : BOOLEAN]]
      BY <1>3 DEF Attach
    <3> QED  BY <1>3, <3>1 DEF Attach
  <2>4. \A e \in Requests : /\ Unsent(e)'
                            /\ tx[e].status # "none" => tx'[e].status # "none"
                            /\ tx'[e].checkout => tx'[e].status # "none"
    BY <1>3 DEF Attach, Unsent
  <2> QED  BY <1>3, <2>1, <2>2, <2>3, <2>4 DEF Attach
<1>4. CASE Abandon(d)
  <2>1. \A k \in Codes : CreditOf(k)'
    BY <1>4 DEF Abandon, CreditOf, Settled
  <2>2. RowTypes'
    BY <1>4 DEF Abandon
  <2>3. \A e \in Requests : /\ Unsent(e)'
                            /\ tx[e].status # "none" => tx'[e].status # "none"
                            /\ tx'[e].checkout => tx'[e].status # "none"
    BY <1>4 DEF Abandon, Unsent
  <2> QED  BY <1>4, <2>1, <2>2, <2>3 DEF Abandon
<1>5. CASE Drop(d)
  BY <1>5 DEF Drop, CreditOf, Settled, Unsent
<1> QED  BY <1>1, <1>2, <1>3, <1>4, <1>5 DEF Handle

\* The customer's answer credits nothing by itself.
LEMMA CustomerSafe ==
    ASSUME IInv,
           \/ \E k \in Codes : Pay(k)
           \/ \E d \in Requests : Decline(d)
    PROVE  /\ IInv' /\ UNCHANGED credits
           /\ Paid' = Paid \/ \E k \in Codes : Paid' = Paid \union {k}
<1> USE DEF IInv, RowTypes, Final, Codes, Paid
<1>1. ASSUME NEW k \in Codes, Pay(k)
      PROVE  IInv' /\ UNCHANGED credits /\ Paid' = Paid \union {k}
  <2>1. \A j \in Codes : gateway[j] = "paid" => gateway'[j] = "paid"
    BY <1>1 DEF Pay
  <2>2. \A j \in Codes : CreditOf(j)'
    BY <1>1, <2>1 DEF Pay, CreditOf, Settled
  <2>3. \A d \in Requests : Unsent(d)'
    BY <1>1 DEF Pay, Unsent
  <2> QED  BY <1>1, <2>1, <2>2, <2>3 DEF Pay
<1>2. ASSUME NEW d \in Requests, Decline(d)
      PROVE  IInv' /\ UNCHANGED credits /\ Paid' = Paid
  <2>1. \A j \in Codes : gateway[j] = "paid" <=> gateway'[j] = "paid"
    BY <1>2 DEF Decline
  <2>2. \A j \in Codes : CreditOf(j)'
    BY <1>2, <2>1 DEF Decline, CreditOf, Settled
  <2>3. \A e \in Requests : Unsent(e)'
    BY <1>2 DEF Decline, Unsent
  <2> QED  BY <1>2, <2>1, <2>2, <2>3 DEF Decline
<1> QED  BY <1>1, <1>2

\* A callback or a status sweep settles one row.
LEMMA SettleSafe ==
    ASSUME IInv, NEW d \in Requests, Callback(d) \/ Sweep(d)
    PROVE  IInv' /\ Paid' = Paid /\ (UNCHANGED credits \/ Credited(d))
<1>1. /\ Answered(d) /\ tx[d].status # "none" /\ CompleteDeposit(d)
      /\ UNCHANGED <<initiate, gateway, c2b, sweep>>
  BY DEF Callback, Sweep, Listed, Unsettled, IInv
<1> QED  BY <1>1, CompleteSafe DEF IInv, RowTypes, Paid

\* A row of the ledger sweep settles its deposit or is stored, never both.
LEMMA LedgerSafe ==
    ASSUME IInv, NEW k \in Codes, LedgerRow(k)
    PROVE  IInv' /\ Paid' = Paid /\ (UNCHANGED credits \/ Credited(k))
<1>0. /\ k \in sweep.todo /\ gateway[k] = "paid"
      /\ sweep' = [sweep EXCEPT !.todo = @ \ {k}]
      /\ UNCHANGED <<initiate, gateway>>
  BY DEF LedgerRow, IInv
<1>1. /\ sweep' \in [todo : SUBSET OnPayHero, owned : SUBSET (Requests \intersect OnPayHero)]
      /\ sweep'.owned = sweep.owned /\ sweep'.todo \subseteq sweep.todo
  BY <1>0 DEF IInv, RowTypes
<1>2. CASE k \in sweep.owned
  <2>1. /\ k \in Requests /\ Answered(k) /\ tx[k].status # "none"
        /\ CompleteDeposit(k) /\ UNCHANGED c2b
    BY <1>0, <1>2 DEF LedgerRow, Answered, IInv, RowTypes
  <2> QED  BY <1>0, <1>1, <2>1, CompleteSafe DEF IInv, RowTypes, Paid
<1>3. CASE k \notin sweep.owned
  <2>1. UNCHANGED <<tx, credits>> /\ Ingest(k)
    BY <1>3 DEF LedgerRow
  <2>2. \A j \in Codes : CreditOf(j)'
    BY <1>0, <2>1 DEF Ingest, CreditOf, Settled, IInv, RowTypes
  <2> QED  BY <1>0, <1>1, <2>1, <2>2 DEF IInv, RowTypes, Paid, Unsent, Ingest
<1> QED  BY <1>2, <1>3

\* The sweep's listing and its losses touch no row.
LEMMA SweepSafe ==
    ASSUME IInv, LedgerSweep \/ LoseRows
    PROVE  IInv' /\ UNCHANGED credits /\ Paid' = Paid
<1> USE DEF IInv, RowTypes, Codes, Paid
<1>1. CASE LedgerSweep
  <2>1. /\ sweep' \in [todo : SUBSET OnPayHero, owned : SUBSET (Requests \intersect OnPayHero)]
        /\ sweep'.todo \subseteq Paid /\ \A d \in sweep'.owned : tx[d].status # "none"
    BY <1>1 DEF LedgerSweep, InLedger, OnPayHero
  <2> QED  BY <1>1, <2>1 DEF LedgerSweep, CreditOf, Settled, Unsent
<1>2. CASE LoseRows
  <2>1. /\ sweep' \in [todo : SUBSET OnPayHero, owned : SUBSET (Requests \intersect OnPayHero)]
        /\ sweep'.todo \subseteq sweep.todo /\ sweep'.owned = sweep.owned
    BY <1>2 DEF LoseRows
  <2> QED  BY <1>2, <2>1 DEF LoseRows, CreditOf, Settled, Unsent
<1> QED  BY <1>1, <1>2

\* A confirmation stores a paid payment; a claim credits one no deposit has.
LEMMA ManualSafe ==
    ASSUME IInv, NEW k \in Codes, Confirm(k) \/ Claim(k)
    PROVE  IInv' /\ Paid' = Paid /\ (UNCHANGED credits \/ Credited(k))
<1> USE DEF IInv, RowTypes, Codes, Paid
<1>1. CASE Confirm(k)
  <2>1. \A j \in Codes : CreditOf(j)'
    BY <1>1 DEF Confirm, Ingest, CreditOf, Settled
  <2> QED  BY <1>1, <2>1 DEF Confirm, Ingest, Unsent
<1>2. CASE Claim(k)
  <2>1. /\ gateway[k] = "paid" /\ credits[k] = 0
        /\ k \in Requests => tx[k].status = "failed"
    BY <1>2 DEF Claim, Claimable, Refused, CreditOf, Settled
  <2>2. Credited(k)
    BY <1>2, <2>1 DEF Claim, Credited
  <2>3. \A j \in Codes : CreditOf(j)'
    BY <1>2, <2>1, <2>2 DEF Claim, Credited, CreditOf, Settled
  <2>4. RowTypes'
    BY <1>2, <2>2 DEF Claim, Credited
  <2> QED  BY <1>2, <2>2, <2>3, <2>4 DEF Claim, Unsent
<1> QED  BY <1>1, <1>2

-----------------------------------------------------------------------------
\* Before anybody asks for a deposit nothing is paid, stored or credited.
LEMMA InitInv == Init => IInv
BY DEF Init, IInv, RowTypes, CreditOf, Settled, Unsent, NoTx, Idle, Final, Codes

\* Every step keeps the accounts, and is a step of the abstract books.
LEMMA StepInv ==
    ASSUME IInv, [Next]_vars
    PROVE  IInv' /\ [Books!Next]_<<Paid, credits>>
<1>1. ASSUME NEW k \in Codes, Paid' = Paid, UNCHANGED credits \/ Credited(k)
      PROVE  [Books!Next]_<<Paid, credits>>
  BY <1>1 DEF Books!Next, Books!Credit, Credited, Paid
<1>2. CASE \E d \in Requests : Create(d) \/ Handle(d) \/ Drop(d)
  BY <1>2, HandlerSafe
<1>3. CASE \/ \E k \in Codes : Pay(k)
           \/ \E d \in Requests : Decline(d)
  BY <1>3, CustomerSafe DEF Books!Next, Books!Pay, Paid
<1>4. CASE \E d \in Requests : Callback(d) \/ Sweep(d)
  BY <1>1, <1>4, SettleSafe DEF Codes
<1>5. CASE \E k \in Codes : LedgerRow(k)
  BY <1>1, <1>5, LedgerSafe
<1>6. CASE \E k \in Codes : Confirm(k) \/ Claim(k)
  BY <1>1, <1>6, ManualSafe
<1>7. CASE LedgerSweep \/ LoseRows
  BY <1>7, SweepSafe
<1>8. CASE UNCHANGED vars
  BY <1>8 DEF vars, IInv, RowTypes, CreditOf, Settled, Unsent, Paid
<1> QED  BY <1>2, <1>3, <1>4, <1>5, <1>6, <1>7, <1>8 DEF Next

\* Every credit has exactly one row that accounts for it, at all times.
THEOREM Inductive == Spec => []IInv
<1>1. IInv /\ [Next]_vars => IInv'
  BY StepInv
<1> QED  BY InitInv, <1>1, PTL DEF Spec

\* created_at ranks and the fault count keep their types.
Counts == born \in [Requests -> Nat] /\ faults \in 0..MaxFaults

LEMMA CountsKept ==
    ASSUME Counts, [Next]_vars
    PROVE  Counts'
<1> USE DepositsAssumption DEF Counts
<1>1. ASSUME NEW d \in Requests, Create(d)
      PROVE  Counts'
  <2> DEFINE older == {e \in Requests : Provider(e) = Provider(d) /\ born[e] > 0}
  <2>1. Cardinality(older) \in Nat
    BY FS_Subset, FS_CardinalityType
  <2>2. born' = [born EXCEPT ![d] = 1 + Cardinality(older)] /\ faults' = faults
    BY <1>1 DEF Create
  <2> HIDE DEF older
  <2> QED  BY <2>1, <2>2
<1>2. ASSUME NEW d \in Requests, Send(d) \/ Drop(d)
      PROVE  Counts'
  BY <1>2 DEF Send, Drop
<1>3. ASSUME NEW d \in Requests, Attach(d) \/ Abandon(d) \/ Decline(d) \/ Callback(d) \/ Sweep(d)
      PROVE  Counts'
  BY <1>3 DEF Attach, Abandon, Decline, Callback, Sweep
<1>4. ASSUME NEW k \in Codes, Pay(k) \/ LedgerRow(k) \/ Confirm(k) \/ Claim(k)
      PROVE  Counts'
  BY <1>4 DEF Pay, LedgerRow, Confirm, Claim
<1>5. CASE LedgerSweep \/ LoseRows \/ UNCHANGED vars
  BY <1>5 DEF LedgerSweep, LoseRows, vars
<1> QED  BY <1>1, <1>2, <1>3, <1>4, <1>5 DEF Next, Handle

\* Types of the rows, the handlers and the ledger sweep.
THEOREM DepositTypes == Spec => []TypeOK
<1>1. Init => Counts
  BY DepositsAssumption DEF Init, Counts
<1>2. IInv /\ Counts => TypeOK
  BY DEF IInv, RowTypes, Counts, TypeOK
<1>3. Counts /\ [Next]_vars => Counts'
  BY CountsKept
<1> QED  BY <1>1, <1>2, <1>3, Inductive, PTL DEF Spec

\* 0213's second thought: once claimed by hand, a payment's deposit stays failed.
THEOREM ClaimsNeverSettle == Spec => []ClaimedNeverSettles
<1>1. IInv => ClaimedNeverSettles
  BY DEF IInv, CreditOf, ClaimedNeverSettles, Codes
<1> QED  BY <1>1, Inductive, PTL

\* 0213's invariant: callbacks, sweeps, the ledger and claims, lost and repeated
\* in any order, credit a payment at most once and only after it was paid.
THEOREM DepositsCreditOnce == Spec => CreditsOnce
<1>1. Init => Books!Init
  BY DEF Init, Books!Init, Codes
<1>2. IInv /\ [Next]_vars => [Books!Next]_<<{k \in Codes : gateway[k] = "paid"}, credits>>
  BY StepInv DEF Paid
<1> QED  BY <1>1, <1>2, Inductive, PTL DEF Spec, CreditsOnce, Books!Spec
=============================================================================
