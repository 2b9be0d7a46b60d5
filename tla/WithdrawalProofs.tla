--------------------------- MODULE WithdrawalProofs ---------------------------
(***************************************************************************)
(* Proofs about Withdrawals for every set of players, withdrawals and      *)
(* approval calls: the rows keep their types, no wallet goes below zero,   *)
(* and the rails keep the promise of module Payout.                        *)
(*                                                                         *)
(* OneDispatch says who may still tell a gateway to pay a row: the one     *)
(* call that turned it from pending to processing, and only until it does. *)
(***************************************************************************)
EXTENDS Withdrawals, SumProofs

\* What the row's status and the gateway's record say of each other.
Accounted(w) ==
    /\ told[w] = IF payout[w] \in {"queued", "paid", "failed"} THEN 1 ELSE 0
    /\ tx[w] \in {"none", "pending", "reversed"} => payout[w] = "none"
    /\ tx[w] = "failed" => payout[w] = "failed"
    /\ result[w] # "none" => payout[w] \in {"paid", "failed"}

Approved(a) == approver[a].at = "approved"

\* A call about to dispatch a row is the only one, and nobody told a gateway yet.
OneDispatch ==
    \A a \in Approvers : Approved(a) =>
        /\ payout[approver[a].row] = "none"
        /\ tx[approver[a].row] \in {"processing", "success"}
        /\ \A b \in Approvers \ {a} : Approved(b) => approver[b].row # approver[a].row

IInv == TypeOK /\ (\A w \in Withdrawals : Accounted(w)) /\ OneDispatch

Holds == [w \in Withdrawals |-> Hold(w)]
Paid == {w \in Withdrawals : payout[w] = "paid"}

-----------------------------------------------------------------------------
\* A busy call names a row and is before the approval or after it.
LEMMA BusyRow ==
    ASSUME TypeOK, NEW a \in Approvers, approver[a] # Idle
    PROVE  approver[a] \in Busy
BY DEF TypeOK

\* Asking for a withdrawal holds it; rejecting or marking it ends the hold.
LEMMA RowSafe ==
    ASSUME WithdrawalsAssumption, IInv, NEW w \in Withdrawals,
           Request(w) \/ Reject(w) \/ MarkPaid(w)
    PROVE  IInv' /\ Promise!Next
<1> USE DEF IInv, Promise!Next
<1>0. Owner[w] \in Users /\ Amount[w] \in Nat
  BY DEF WithdrawalsAssumption
<1>1. CASE Request(w)
  <2>1. TypeOK'
    BY <1>0, <1>1 DEF Request, TypeOK
  <2>2. (\A v \in Withdrawals : Accounted(v))' /\ OneDispatch'
    BY <1>1, BusyRow DEF Request, Accounted, OneDispatch, Approved, TypeOK, Busy, Idle
  <2>3. Promise!Hold(w)
    BY <1>1 DEF Request, Promise!Hold, Hold, Returned, TypeOK
  <2> QED  BY <2>1, <2>2, <2>3
<1>2. CASE Reject(w)
  <2>1. TypeOK'
    BY <1>0, <1>2 DEF Reject, Refund, TypeOK, Final
  <2>2. (\A v \in Withdrawals : Accounted(v))' /\ OneDispatch'
    BY <1>2, BusyRow DEF Reject, Accounted, OneDispatch, Approved, TypeOK, Busy, Idle
  <2>3. Promise!Return(w)
    BY <1>2 DEF Reject, Promise!Return, Hold, Returned, TypeOK, Accounted
  <2> QED  BY <2>1, <2>2, <2>3
<1>3. CASE MarkPaid(w)
  <2>1. TypeOK'
    BY <1>3 DEF MarkPaid, TypeOK, Final
  <2>2. (\A v \in Withdrawals : Accounted(v))' /\ OneDispatch'
    BY <1>3, BusyRow DEF MarkPaid, Accounted, OneDispatch, Approved, TypeOK, Busy, Idle
  <2>3. Promise!Keep(w)
    BY <1>3 DEF MarkPaid, Promise!Keep, Hold, Returned, TypeOK
  <2> QED  BY <2>1, <2>2, <2>3
<1> QED  BY <1>1, <1>2, <1>3

\* An approval call moves no money; only its dispatch tells a gateway to pay.
LEMMA ApproverSafe ==
    ASSUME IInv, NEW a \in Approvers,
           \/ Approve(a) \/ Dispatch(a) \/ Drop(a)
           \/ \E w \in Withdrawals : Check(a, w)
    PROVE  IInv' /\ (Promise!Next \/ UNCHANGED <<Holds, told, Paid>>)
<1> USE DEF IInv, Promise!Next, Holds, Paid
<1>1. CASE \E w \in Withdrawals : Check(a, w)
  <2>1. PICK w \in Withdrawals : Check(a, w)
    BY <1>1
  <2>2. TypeOK'
    BY <2>1 DEF Check, TypeOK, Busy
  <2>3. (\A v \in Withdrawals : Accounted(v))' /\ OneDispatch'
    BY <2>1, BusyRow DEF Check, Accounted, OneDispatch, Approved, TypeOK, Busy
  <2> QED  BY <2>1, <2>2, <2>3 DEF Check, Hold, Returned
<1>2. CASE Approve(a)
  <2> DEFINE w == approver[a].row
  <2>0. approver[a] \in Busy /\ w \in Withdrawals
    BY <1>2, BusyRow DEF Approve, Idle, Busy
  <2>1. CASE tx[w] = "pending"
    <3>1. /\ tx' = [tx EXCEPT ![w] = "processing"]
          /\ approver' = [approver EXCEPT ![a].at = "approved"]
          /\ UNCHANGED <<balance, payout, told, result, faults>>
      BY <1>2, <2>1 DEF Approve
    <3>2. TypeOK'
      BY <2>0, <3>1 DEF TypeOK, Busy
    <3>3. (\A v \in Withdrawals : Accounted(v))'
      BY <2>0, <2>1, <3>1 DEF Accounted, TypeOK
    <3>4. \A b \in Approvers : Approved(b) => approver[b].row # w
      BY <2>1 DEF OneDispatch
    <3>5. /\ approver'[a].row = w /\ payout'[w] = "none" /\ tx'[w] = "processing"
          /\ \A b \in Approvers \ {a} : approver'[b] = approver[b]
      BY <2>0, <2>1, <3>1 DEF TypeOK, Accounted, Busy
    <3>6. OneDispatch'
      BY <2>0, <3>1, <3>4, <3>5 DEF OneDispatch, Approved, TypeOK
    <3>7. Holds' = Holds
      BY <2>0, <2>1, <3>1 DEF Hold, Returned, TypeOK
    <3> QED  BY <3>1, <3>2, <3>3, <3>6, <3>7
  <2>2. CASE tx[w] # "pending"
    <3>1. approver' = [approver EXCEPT ![a] = Idle]
          /\ UNCHANGED <<tx, balance, payout, told, result, faults>>
      BY <1>2, <2>2 DEF Approve
    <3>2. TypeOK'
      BY <3>1 DEF TypeOK
    <3>3. (\A v \in Withdrawals : Accounted(v))' /\ OneDispatch'
      BY <3>1 DEF Accounted, OneDispatch, Approved, TypeOK, Idle
    <3> QED  BY <3>1, <3>2, <3>3 DEF Hold, Returned
  <2> QED  BY <2>1, <2>2
<1>3. CASE Dispatch(a)
  <2> DEFINE w == approver[a].row
  <2>0. /\ approver[a] \in Busy /\ w \in Withdrawals
        /\ payout[w] = "none" /\ told[w] = 0 /\ tx[w] \in {"processing", "success"}
    BY <1>3, BusyRow DEF Dispatch, Idle, Busy, OneDispatch, Approved, Accounted
  <2>1. /\ approver' = [approver EXCEPT ![a] = Idle]
        /\ UNCHANGED <<tx, balance, result, faults>>
        /\ \/ payout' = [payout EXCEPT ![w] = "queued"] /\ told' = [told EXCEPT ![w] = 1]
           \/ payout' = [payout EXCEPT ![w] = "refused"] /\ UNCHANGED told
    BY <1>3, <2>0 DEF Dispatch, TypeOK
  <2>2. TypeOK'
    BY <2>0, <2>1 DEF TypeOK
  <2>3. (\A v \in Withdrawals : Accounted(v))'
    BY <2>0, <2>1 DEF Accounted, TypeOK
  <2>4. \A b \in Approvers \ {a} : Approved(b) => approver[b].row # w /\ approver[b].row \in Withdrawals
    BY <1>3, BusyRow DEF Dispatch, OneDispatch, Approved, Busy, Idle
  <2>5. OneDispatch'
    <3>1. ~Approved(a)' /\ \A b \in Approvers \ {a} : approver'[b] = approver[b]
      BY <2>1 DEF Approved, TypeOK, Idle
    <3>2. \A b \in Approvers \ {a} : Approved(b) => payout'[approver[b].row] = payout[approver[b].row]
      BY <2>1, <2>4 DEF TypeOK
    <3> QED  BY <2>1, <3>1, <3>2 DEF OneDispatch, Approved
  <2>6. Promise!Tell(w) \/ UNCHANGED <<Holds, told, Paid>>
    BY <2>0, <2>1 DEF Promise!Tell, Hold, Returned, TypeOK
  <2> QED  BY <2>0, <2>2, <2>3, <2>5, <2>6
<1>4. CASE Drop(a)
  <2> DEFINE w == approver[a].row
  <2>0. approver[a] \in Busy /\ w \in Withdrawals
    BY <1>4, BusyRow DEF Drop, Busy
  <2>1. /\ approver' = [approver EXCEPT ![a] = Idle]
        /\ UNCHANGED <<tx, balance, told, result>> /\ faults' \in 0..MaxFaults
    BY <1>4, WithdrawalsAssumption DEF Drop, TypeOK, WithdrawalsAssumption
  <2>2. CASE Approved(a)
    <3>1. payout' = [payout EXCEPT ![w] = "refused"]
      BY <1>4, <2>2 DEF Drop, Approved
    <3>2. payout[w] = "none" /\ tx[w] \in {"processing", "success"}
      BY <2>2 DEF OneDispatch
    <3>3. TypeOK'
      BY <2>0, <2>1, <3>1 DEF TypeOK
    <3>4. (\A v \in Withdrawals : Accounted(v))'
      BY <2>0, <2>1, <3>1, <3>2 DEF Accounted, TypeOK
    <3>5. ~Approved(a)' /\ \A b \in Approvers \ {a} : approver'[b] = approver[b]
      BY <2>1 DEF Approved, TypeOK, Idle
    <3>6. \A b \in Approvers \ {a} : Approved(b) => payout'[approver[b].row] = payout[approver[b].row]
      BY <2>2, <3>1 DEF OneDispatch, TypeOK
    <3>7. OneDispatch'
      BY <2>1, <3>5, <3>6 DEF OneDispatch, Approved
    <3> QED  BY <2>0, <2>1, <3>1, <3>2, <3>3, <3>4, <3>7 DEF Hold, Returned, TypeOK
  <2>3. CASE ~Approved(a)
    <3>1. UNCHANGED payout
      BY <1>4, <2>3 DEF Drop, Approved
    <3>2. TypeOK'
      BY <2>1, <3>1 DEF TypeOK
    <3>3. (\A v \in Withdrawals : Accounted(v))' /\ OneDispatch'
      BY <2>1, <3>1 DEF Accounted, OneDispatch, Approved, TypeOK, Idle
    <3> QED  BY <2>1, <3>1, <3>2, <3>3 DEF Hold, Returned
  <2> QED  BY <2>2, <2>3
<1> QED  BY <1>1, <1>2, <1>3, <1>4

\* The gateway pays only what it was told to; its result ends a hold once.
LEMMA GatewaySafe ==
    ASSUME WithdrawalsAssumption, IInv, NEW w \in Withdrawals,
           Settle(w) \/ Result(w) \/ MissResult(w)
    PROVE  IInv' /\ (Promise!Next \/ UNCHANGED <<Holds, told, Paid>>)
<1> USE DEF IInv, Promise!Next, Holds, Paid
<1>0. Owner[w] \in Users /\ Amount[w] \in Nat
  BY DEF WithdrawalsAssumption
<1>1. CASE Settle(w)
  <2>1. PICK outcome \in {"paid", "failed"} : payout' = [payout EXCEPT ![w] = outcome]
    BY <1>1 DEF Settle
  <2>2. /\ payout[w] = "queued" /\ told[w] = 1 /\ tx[w] \in {"processing", "success"}
        /\ result' = [result EXCEPT ![w] = "due"]
        /\ UNCHANGED <<tx, balance, approver, told, faults>>
    BY <1>1 DEF Settle, Accounted, TypeOK, Final
  <2>3. TypeOK'
    BY <2>1, <2>2 DEF TypeOK
  <2>4. (\A v \in Withdrawals : Accounted(v))'
    BY <2>1, <2>2 DEF Accounted, TypeOK
  <2>5. \A a \in Approvers : Approved(a) => approver[a].row # w
    BY <2>2 DEF OneDispatch
  <2>6. \A a \in Approvers : Approved(a) => payout'[approver[a].row] = payout[approver[a].row]
    BY <2>1, <2>5 DEF TypeOK
  <2>7. OneDispatch'
    BY <2>2, <2>6 DEF OneDispatch, Approved
  <2>8. Promise!Pay(w) \/ UNCHANGED <<Holds, told, Paid>>
    <3>1. CASE outcome = "paid"
      BY <2>1, <2>2, <3>1 DEF Promise!Pay, Hold, Returned, TypeOK
    <3>2. CASE outcome = "failed"
      BY <2>1, <2>2, <3>2 DEF Hold, Returned, TypeOK
    <3> QED  BY <2>1, <3>1, <3>2
  <2> QED  BY <2>3, <2>4, <2>7, <2>8
<1>2. CASE Result(w)
  <2>1. /\ payout[w] \in {"paid", "failed"} /\ Complete(w)
        /\ result' = [result EXCEPT ![w] = "read"]
        /\ UNCHANGED <<approver, payout, told, faults>>
    BY <1>2 DEF Result, Accounted
  <2>2. CASE tx[w] \in Final
    <3>1. UNCHANGED <<tx, balance>>
      BY <2>1, <2>2 DEF Complete
    <3>2. TypeOK' /\ (\A v \in Withdrawals : Accounted(v))'
      BY <2>1, <3>1 DEF TypeOK, Accounted
    <3> QED  BY <2>1, <3>1, <3>2 DEF OneDispatch, Approved, Hold
  <2>3. CASE tx[w] \notin Final
    <3>1. tx[w] = "processing"
      BY <2>1, <2>3 DEF Accounted, TypeOK
    <3>2. tx' = [tx EXCEPT ![w] = IF payout[w] = "paid" THEN "success" ELSE "failed"]
          /\ balance' \in [Users -> Nat]
      BY <1>0, <2>1, <2>3 DEF Complete, Refund, TypeOK
    <3>3. TypeOK'
      BY <2>1, <3>2 DEF TypeOK, Final
    <3>4. (\A v \in Withdrawals : Accounted(v))'
      BY <2>1, <3>1, <3>2 DEF Accounted, TypeOK
    <3>5. \A a \in Approvers : Approved(a) => approver[a].row # w
      BY <2>1 DEF OneDispatch
    <3>6. OneDispatch'
      BY <2>1, <3>2, <3>5 DEF OneDispatch, Approved, TypeOK
    <3>7. Promise!Keep(w) \/ Promise!Return(w)
      <4>1. CASE payout[w] = "paid"
        BY <2>1, <3>1, <3>2, <4>1 DEF Promise!Keep, Hold, Returned, TypeOK
      <4>2. CASE payout[w] = "failed"
        BY <2>1, <3>1, <3>2, <4>2 DEF Promise!Return, Hold, Returned, TypeOK
      <4> QED  BY <2>1, <4>1, <4>2
    <3> QED  BY <3>3, <3>4, <3>6, <3>7
  <2> QED  BY <2>2, <2>3
<1>3. CASE MissResult(w)
  <2>1. TypeOK' /\ (\A v \in Withdrawals : Accounted(v))'
    BY <1>3, WithdrawalsAssumption DEF MissResult, TypeOK, Accounted, WithdrawalsAssumption
  <2> QED  BY <1>3, <2>1 DEF MissResult, OneDispatch, Approved, Hold, Returned
<1> QED  BY <1>1, <1>2, <1>3

-----------------------------------------------------------------------------
\* Before anybody asks, nothing is held, told or paid.
LEMMA InitInv == WithdrawalsAssumption /\ Init => IInv
BY DEF WithdrawalsAssumption, Init, IInv, TypeOK, Accounted, OneDispatch, Approved, Idle

\* Every step keeps the invariant, and is a step of the promise or a stutter.
LEMMA StepInv ==
    ASSUME WithdrawalsAssumption, IInv, [Next]_vars
    PROVE  IInv' /\ [Promise!Next]_<<Holds, told, Paid>>
<1>1. CASE \E w \in Withdrawals : Request(w) \/ Reject(w) \/ MarkPaid(w)
  BY <1>1, RowSafe
<1>2. CASE \E a \in Approvers : \/ Approve(a) \/ Dispatch(a) \/ Drop(a)
                                \/ \E w \in Withdrawals : Check(a, w)
  BY <1>2, ApproverSafe
<1>3. CASE \E w \in Withdrawals : Settle(w) \/ Result(w) \/ MissResult(w)
  BY <1>3, GatewaySafe
<1>4. CASE UNCHANGED vars
  BY <1>4 DEF vars, IInv, TypeOK, Accounted, OneDispatch, Approved, Holds, Hold, Returned, Paid
<1> QED  BY <1>1, <1>2, <1>3, <1>4 DEF Next

\* The row, the gateway and the call that is about to dispatch always agree.
THEOREM Inductive == Spec => []IInv
<1>1. IInv /\ [Next]_vars => IInv'
  BY StepInv, WithdrawalsAssumption
<1> QED  BY InitInv, WithdrawalsAssumption, <1>1, PTL DEF Spec

\* Rows, calls and records keep their types, and no balance goes below zero,
\* however many withdrawals compete for it.
THEOREM WithdrawalTypes == Spec => []TypeOK
<1>1. IInv => TypeOK
  BY DEF IInv
<1> QED  BY <1>1, Inductive, PTL

\* 0127, docs/07: however approvals, rejections, hand-marked payments and late
\* or repeated results overlap, a withdrawal is dispatched at most once, its hold
\* ends at most once, and an amount that was returned is never paid.
THEOREM WithdrawalsKeepPromise == Spec => PayoutKept
<1>1. Init => Promise!Init
  BY DEF Init, Promise!Init, Hold, Returned
<1>2. IInv /\ [Next]_vars =>
        [Promise!Next]_<<[w \in Withdrawals |-> Hold(w)], told,
                         {w \in Withdrawals : payout[w] = "paid"}>>
  BY StepInv, WithdrawalsAssumption DEF Holds, Paid
<1> QED  BY <1>1, <1>2, Inductive, PTL DEF Spec, PayoutKept, Promise!Spec

-----------------------------------------------------------------------------
(* The wallet tie.  What a player's withdrawals hold is a sum; a step      *)
(* adds one of them to it, takes one out, or leaves it alone.              *)

\* The statuses of a row whose amount the wallet lacks.
Holding == {"pending", "processing", "success"}

LEMMA HeldFinite ==
    ASSUME WithdrawalsAssumption, NEW u
    PROVE  IsFiniteSet(Held(u)) /\ \A w \in Held(u) : Amount[w] \in Int
BY FS_Subset DEF WithdrawalsAssumption, Held

\* A row that starts to hold its amount takes it from its owner's wallet.
LEMMA HoldTie ==
    ASSUME WithdrawalsAssumption, TypeOK, TypeOK', WalletTie, NEW w \in Withdrawals,
           tx[w] \notin Holding, NEW status \in Holding,
           tx' = [tx EXCEPT ![w] = status],
           balance' = [balance EXCEPT ![Owner[w]] = @ - Amount[w]]
    PROVE  WalletTie'
<1> SUFFICES ASSUME NEW u \in Users
             PROVE  balance'[u] + SumFunctionOnSet(Amount, Held(u)') = Opening[u]
  BY DEF WalletTie
<1>0. /\ Owner[w] \in Users /\ Amount[w] \in Int /\ balance[u] \in Int /\ Opening[u] \in Int
      /\ balance[u] + SumFunctionOnSet(Amount, Held(u)) = Opening[u]
      /\ SumFunctionOnSet(Amount, Held(u)) \in Int
  BY HeldFinite, SumInt DEF WithdrawalsAssumption, TypeOK, WalletTie
<1>1. /\ Held(u) = {v \in Withdrawals : Owner[v] = u /\ tx[v] \in Holding}
      /\ Held(u)' = {v \in Withdrawals : Owner[v] = u /\ tx'[v] \in Holding}
  BY DEF TypeOK, Held, Holding, Returned, Final
<1>2. CASE u = Owner[w]
  <2>1. w \notin Held(u) /\ Held(u)' = Held(u) \union {w}
    BY <1>1, <1>2 DEF TypeOK
  <2>2. SumFunctionOnSet(Amount, Held(u)') = Amount[w] + SumFunctionOnSet(Amount, Held(u))
    BY <1>0, <2>1, HeldFinite, SumAdd
  <2>3. balance'[u] = balance[u] - Amount[w]
    BY <1>2 DEF TypeOK
  <2> QED  BY <1>0, <2>2, <2>3
<1>3. CASE u # Owner[w]
  <2>1. Held(u)' = Held(u) /\ balance'[u] = balance[u]
    BY <1>1, <1>3 DEF TypeOK
  <2> QED  BY <1>0, <2>1
<1> QED  BY <1>2, <1>3

\* A row that gives its amount back returns it to its owner's wallet.
LEMMA ReturnTie ==
    ASSUME WithdrawalsAssumption, TypeOK, TypeOK', WalletTie, NEW w \in Withdrawals,
           tx[w] \in Holding, NEW status \in Returned,
           tx' = [tx EXCEPT ![w] = status], Refund(w)
    PROVE  WalletTie'
<1> SUFFICES ASSUME NEW u \in Users
             PROVE  balance'[u] + SumFunctionOnSet(Amount, Held(u)') = Opening[u]
  BY DEF WalletTie
<1>0. /\ Owner[w] \in Users /\ Amount[w] \in Int /\ balance[u] \in Int /\ Opening[u] \in Int
      /\ balance[u] + SumFunctionOnSet(Amount, Held(u)) = Opening[u]
  BY DEF WithdrawalsAssumption, TypeOK, WalletTie
<1>1. /\ Held(u) = {v \in Withdrawals : Owner[v] = u /\ tx[v] \in Holding}
      /\ Held(u)' = {v \in Withdrawals : Owner[v] = u /\ tx'[v] \in Holding}
  BY DEF TypeOK, Held, Holding, Returned, Final
<1>2. CASE u = Owner[w]
  <2>1. w \in Held(u) /\ Held(u)' = Held(u) \ {w}
    BY <1>1, <1>2 DEF TypeOK, Holding, Returned
  <2>2. SumFunctionOnSet(Amount, Held(u)) = Amount[w] + SumFunctionOnSet(Amount, Held(u)')
    BY <2>1, HeldFinite, SumRemove
  <2>3. SumFunctionOnSet(Amount, Held(u)') \in Int
    <3>1. IsFiniteSet(Held(u) \ {w}) /\ \A v \in Held(u) \ {w} : Amount[v] \in Int
      BY HeldFinite, FS_Subset
    <3> QED  BY <2>1, <3>1, SumInt
  <2>4. balance'[u] = balance[u] + Amount[w]
    BY <1>2 DEF TypeOK, Refund
  <2> QED  BY <1>0, <2>2, <2>3, <2>4
<1>3. CASE u # Owner[w]
  <2>1. Held(u)' = Held(u) /\ balance'[u] = balance[u]
    BY <1>1, <1>3 DEF TypeOK, Refund
  <2> QED  BY <1>0, <2>1
<1> QED  BY <1>2, <1>3

\* A step that moves no balance and no row in or out of Holding keeps the tie.
LEMMA StillTie ==
    ASSUME TypeOK, TypeOK', WalletTie, UNCHANGED balance,
           \A w \in Withdrawals : tx'[w] \in Holding <=> tx[w] \in Holding
    PROVE  WalletTie'
<1>1. \A u : Held(u)' = Held(u)
  BY DEF TypeOK, Held, Holding, Returned, Final
<1> QED  BY <1>1 DEF WalletTie

\* Every step keeps the tie: a result finds a row that has not ended held.
LEMMA StepTie ==
    ASSUME WithdrawalsAssumption, IInv, WalletTie, Next
    PROVE  WalletTie'
<1>0. TypeOK /\ TypeOK'
  BY StepInv DEF IInv
<1>1. ASSUME NEW w \in Withdrawals, Request(w)
      PROVE  WalletTie'
  BY <1>0, <1>1, HoldTie DEF Request, Holding
<1>2. ASSUME NEW w \in Withdrawals, Reject(w)
      PROVE  WalletTie'
  BY <1>0, <1>2, ReturnTie DEF Reject, Holding, Returned
<1>3. ASSUME NEW w \in Withdrawals, MarkPaid(w)
      PROVE  WalletTie'
  BY <1>0, <1>3, StillTie DEF MarkPaid, Holding, TypeOK
<1>4. ASSUME NEW w \in Withdrawals, Result(w)
      PROVE  WalletTie'
  <2>1. payout[w] \in {"paid", "failed"} /\ Complete(w)
    BY <1>4 DEF Result, IInv, Accounted
  <2>2. CASE tx[w] \in Final
    BY <1>0, <2>1, <2>2, StillTie DEF Complete
  <2>3. CASE tx[w] \notin Final
    <3>1. tx[w] = "processing"
      BY <2>1, <2>3 DEF IInv, Accounted, TypeOK
    <3>2. CASE payout[w] = "paid"
      BY <1>0, <2>1, <2>3, <3>1, <3>2, StillTie DEF Complete, Holding, TypeOK
    <3>3. CASE payout[w] = "failed"
      BY <1>0, <2>1, <2>3, <3>1, <3>3, ReturnTie DEF Complete, Holding, Returned
    <3> QED  BY <2>1, <3>2, <3>3
  <2> QED  BY <2>2, <2>3
<1>5. ASSUME NEW w \in Withdrawals, Settle(w) \/ MissResult(w)
      PROVE  WalletTie'
  BY <1>0, <1>5, StillTie DEF Settle, MissResult
<1>6. ASSUME NEW a \in Approvers, Approve(a)
      PROVE  WalletTie'
  <2>1. approver[a].row \in Withdrawals
    BY <1>0, <1>6, BusyRow DEF Approve, Idle, Busy
  <2> QED  BY <1>0, <1>6, <2>1, StillTie DEF Approve, Holding, TypeOK
<1>7. ASSUME NEW a \in Approvers,
             Dispatch(a) \/ Drop(a) \/ \E w \in Withdrawals : Check(a, w)
      PROVE  WalletTie'
  BY <1>0, <1>7, StillTie DEF Dispatch, Drop, Check
<1> QED  BY <1>1, <1>2, <1>3, <1>4, <1>5, <1>6, <1>7 DEF Next

\* docs/07: a request holds the funds and a failed or reversed one gives them
\* back exactly once: whatever overlaps, a wallet lacks the withdrawals that
\* were not returned, to the cent.
THEOREM WalletTied == Spec => []WalletTie
<1>1. Init => WalletTie
  <2> SUFFICES ASSUME Init, NEW u \in Users
               PROVE  balance[u] + SumFunctionOnSet(Amount, Held(u)) = Opening[u]
    BY DEF WalletTie
  <2>1. Held(u) = {}
    BY DEF Init, Held
  <2> QED  BY <2>1, SumEmpty, WithdrawalsAssumption DEF Init, WithdrawalsAssumption
<1>2. IInv /\ WalletTie /\ [Next]_vars => WalletTie'
  <2>1. CASE UNCHANGED vars
    BY <2>1 DEF vars, WalletTie, Held
  <2> QED  BY <2>1, StepTie, WithdrawalsAssumption
<1> QED  BY <1>1, <1>2, Inductive, PTL DEF Spec
=============================================================================
