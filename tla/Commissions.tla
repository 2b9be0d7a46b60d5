----------------------------- MODULE Commissions -----------------------------
(***************************************************************************)
(* Deposit commissions of one brand: every deposit that succeeds pays 25%  *)
(* up the brand's marketer hierarchy, and 5% at once to a player who       *)
(* brought the depositor; a marketer asks for what she has earned, and an  *)
(* admin approves it, pays it by hand or rejects it.  Meanwhile admins     *)
(* change roles, choose the brand's default marketer and log expenses.     *)
(*                                                                         *)
(* One action is one statement of a database function where another call   *)
(* may come in between, else the whole function.  fn_pay_referral_...      *)
(* runs inside the settling deposit and is one action: it reads each role  *)
(* once here.  Abstracted: other brands, rounding (a deposit is 100, so a  *)
(* rate is an amount), the wallet that receives the 5%, notes and audit    *)
(* rows, and the request for an advance, whose approval logs an expense.   *)
(***************************************************************************)
EXTENDS Integers, FiniteSets, Functions, SequencesExt

CONSTANTS
    Accounts,
    Nobody,
    Referrer,      \* referred_by of each account, or Nobody
    StartRole,     \* role of each account at the start
    Deposits,
    Depositor,
    Requests,      \* calls of fn_request_commission_payout
    Requester,
    MinPayout,     \* fn_commission_min_cents
    ExpenseSize,   \* what an admin logs at a time
    MaxExpenses,   \* bound: expenses logged
    MaxChanges     \* bound: changes of roles and of the default marketer

(* fn_register_user sets referred_by, once, to an account that exists.     *)
SignedUpInOrder ==
    \E place \in [Accounts -> 1..Cardinality(Accounts)] :
        \A u \in Accounts : Referrer[u] # Nobody => place[Referrer[u]] < place[u]

ASSUME CommissionsAssumption ==
    /\ IsFiniteSet(Accounts) /\ Nobody \notin Accounts
    /\ Referrer \in [Accounts -> Accounts \union {Nobody}]
    /\ SignedUpInOrder
    /\ StartRole \in [Accounts -> {"player", "marketer", "admin"}]
    /\ Depositor \in [Deposits -> Accounts]
    /\ IsFiniteSet(Requests) /\ Requester \in [Requests -> Accounts]
    /\ MinPayout \in Nat \ {0}
    /\ ExpenseSize \in Nat /\ MaxExpenses \in Nat /\ MaxChanges \in Nat

VARIABLES
    role,          \* profiles.role
    owner,         \* sites.owner_user_id, the default marketer
    assigning,     \* accounts an admin was allowed to make the default
    settled,       \* deposits that succeeded
    rows,          \* deposit_commissions
    request,       \* each payout call, then its commission_payouts row
    raced,         \* accounts two of whose payout calls overlapped
    expenses,      \* what marketer_expenses adds up to, per account
    changes

commissionVars == <<role, owner, assigning, settled, rows, request, raced, expenses, changes>>

Open == {"requested", "approved"}
Calling == {"checked", "counted"}

-----------------------------------------------------------------------------
(* Bounded, and only while a deposit is to come: nothing else reads them.  *)
Change == changes < MaxChanges /\ settled # Deposits /\ changes' = changes + 1

(* fn_admin_set_user_role: the default marketer stays one (0124, 0156).    *)
SetRole(u) ==
    /\ Change
    /\ \E r \in {"player", "marketer", "admin"} \ {role[u]} :
         /\ r # "marketer" => owner # u
         /\ role' = [role EXCEPT ![u] = r]
    /\ UNCHANGED <<owner, assigning, settled, rows, request, raced, expenses>>

(* fn_admin_set_site_owner reads the marketer's role, without a lock ...   *)
AllowOwner(u) ==
    /\ Change
    /\ role[u] = "marketer" /\ u \notin assigning
    /\ assigning' = assigning \union {u}
    /\ UNCHANGED <<role, owner, settled, rows, request, raced, expenses>>

(* ... and makes her the default later; or an admin clears the default.    *)
AssignOwner(u) ==
    /\ u \in assigning /\ settled # Deposits /\ assigning' = assigning \ {u}
    /\ owner' = u
    /\ UNCHANGED <<role, settled, rows, request, raced, expenses, changes>>

ClearOwner ==
    /\ owner # Nobody /\ owner' = Nobody
    /\ Change
    /\ UNCHANGED <<role, assigning, settled, rows, request, raced, expenses>>

-----------------------------------------------------------------------------
(* The marketers above a depositor, nearest first, up to the first account *)
(* that is none.                                                           *)
Recruiters(d) ==
    LET up[u \in Accounts \union {Nobody}] ==
            IF u \in Accounts \ {Depositor[d]} /\ role[u] = "marketer"
            THEN <<u>> \o up[Referrer[u]] ELSE <<>>
    IN  up[Referrer[Depositor[d]]]

\* Mutant: a chain of recruiters is left as it is (0081).
UnrootedChain(d) ==
    IF owner \in Accounts \ {Depositor[d]} /\ role[owner] = "marketer" /\ Recruiters(d) = <<>>
    THEN <<owner>> ELSE Recruiters(d)

(* The default marketer is made the root, unless she is the depositor.     *)
Chain(d) ==
    IF /\ owner \in Accounts \ {Depositor[d]} /\ role[owner] = "marketer"
       /\ Recruiters(d) = <<>> \/ Last(Recruiters(d)) # owner
    THEN Append(Recruiters(d), owner) ELSE Recruiters(d)

(* fn_marketer_tier_rate, by position from the top of the chain.           *)
Tier(p) == CASE p = 1 -> 25 [] p = 2 -> 20 [] OTHER -> 17

\* Mutant: every upline gets a whole tier.
WholeTier(p, n) == Tier(p)

(* The lowest of n marketers earns her tier, each one above the difference. *)
Rate(p, n) == IF p = n THEN Tier(p) ELSE Tier(p) - Tier(p + 1)

(* Row i of the loop over the chain, from the bottom; none for a zero rate. *)
Row(d, chain, i) ==
    LET n == Len(chain) IN
    [deposit |-> d, to |-> chain[i], position |-> n - i + 1, rate |-> Rate(n - i + 1, n)]

Written(chain) == {i \in 1..Len(chain) : Rate(Len(chain) - i + 1, Len(chain)) > 0}

(* A second row for the same deposit and marketer is skipped.              *)
MarketerRows(d, chain) ==
    {Row(d, chain, i) : i \in {j \in Written(chain) :
        \A k \in Written(chain) : k < j => chain[k] # chain[j]}}

(* The 5% of a player who brought the depositor, paid there and then.      *)
PerkRows(d) ==
    {[deposit |-> d, to |-> u, position |-> 0, rate |-> 5] :
        u \in {v \in Accounts \ {Depositor[d]} : v = Referrer[Depositor[d]] /\ role[v] = "player"}}

(* fn_complete_deposit or a pay-bill claim ends in                         *)
(* fn_pay_referral_commissions, in the same transaction.                   *)
SettleDeposit(d) ==
    /\ d \notin settled /\ settled' = settled \union {d}
    /\ rows' = rows \union PerkRows(d) \union MarketerRows(d, Chain(d))
    /\ UNCHANGED <<role, owner, assigning, request, raced, expenses, changes>>

-----------------------------------------------------------------------------
Mine(u, stages) == {q \in Requests : Requester[q] = u /\ request[q].at \in stages}
Asked(u, stages) == SumFunctionOnSet([q \in Requests |-> request[q].amount], Mine(u, stages))
Rates(S) == SumFunction([r \in S |-> r.rate])
Earned(u) == Rates({r \in rows : r.to = u /\ r.position > 0})

\* Mutant: what was paid is not subtracted.
AvailableIgnoringPaid(u) == Earned(u) - Asked(u, Open) - expenses[u]

(* available_cents of fn_commission_balance, before it is floored at 0.    *)
Available(u) == Earned(u) - Asked(u, Open \union {"paid"}) - expenses[u]

(* fn_request_commission_payout looks for an open payout of hers ...       *)
CheckOpen(q) ==
    /\ request[q].at = "idle"
    /\ LET u == Requester[q] IN
         /\ request' = [request EXCEPT ![q].at = IF Mine(u, Open) = {} THEN "checked" ELSE "refused"]
         /\ raced' = IF Mine(u, Calling) = {} THEN raced ELSE raced \union {u}
    /\ UNCHANGED <<role, owner, assigning, settled, rows, expenses, changes>>

\* Mutant: the minimum is not looked at.
CountAnything(q) ==
    /\ request[q].at = "checked"
    /\ request' = [request EXCEPT ![q] = [at |-> "counted", amount |-> Available(Requester[q])]]
    /\ UNCHANGED <<role, owner, assigning, settled, rows, raced, expenses, changes>>

(* ... then reads her balance, in a statement of its own ...               *)
Count(q) ==
    /\ request[q].at = "checked"
    /\ LET balance == Available(Requester[q]) IN
         request' = [request EXCEPT ![q] = IF balance >= MinPayout
                                           THEN [at |-> "counted", amount |-> balance]
                                           ELSE [@ EXCEPT !.at = "refused"]]
    /\ UNCHANGED <<role, owner, assigning, settled, rows, raced, expenses, changes>>

Decide(q, from, to) ==
    /\ request[q].at \in from
    /\ request' = [request EXCEPT ![q].at = to]
    /\ UNCHANGED <<role, owner, assigning, settled, rows, raced, expenses, changes>>

(* ... and commits a row for all of it.                                    *)
Insert(q) == Decide(q, {"counted"}, "requested")

(* fn_approve_, fn_mark_..._paid, fn_reject_commission_payout.             *)
ApprovePayout(q) == Decide(q, {"requested"}, "approved")
MarkPayoutPaid(q) == Decide(q, Open, "paid")
RejectPayout(q) == Decide(q, Open, "rejected")

(* fn_admin_add_marketer_expense, or an advance that is approved.  The     *)
(* expenses of those who never ask for a payout matter to nobody.          *)
LogExpense(u) ==
    /\ SumFunction(expenses) < ExpenseSize * MaxExpenses
    /\ expenses' = [expenses EXCEPT ![u] = @ + ExpenseSize]
    /\ UNCHANGED <<role, owner, assigning, settled, rows, request, raced, changes>>

-----------------------------------------------------------------------------
CommissionInit ==
    /\ role = StartRole
    /\ owner = Nobody
    /\ assigning = {}
    /\ settled = {}
    /\ rows = {}
    /\ request = [q \in Requests |-> [at |-> "idle", amount |-> 0]]
    /\ raced = {}
    /\ expenses = [u \in Accounts |-> 0]
    /\ changes = 0

CommissionNext ==
    \/ \E u \in Accounts : SetRole(u) \/ AllowOwner(u) \/ AssignOwner(u)
    \/ ClearOwner
    \/ \E d \in Deposits : SettleDeposit(d)
    \/ \E q \in Requests : \/ LogExpense(Requester[q])
                           \/ CheckOpen(q) \/ Count(q) \/ Insert(q)
                           \/ ApprovePayout(q) \/ MarkPayoutPaid(q) \/ RejectPayout(q)

CommissionSpec == CommissionInit /\ [][CommissionNext]_commissionVars

-----------------------------------------------------------------------------
(* Properties.                                                             *)

\* The walk up from a depositor ends, and never comes past her.
RecruitersKnown == \A d \in Deposits : Recruiters(d) \in Seq(Accounts \ {Depositor[d]})

\* Types of the rows; a payout row always asks for money (its table's check).
CommissionTypes ==
    /\ role \in [Accounts -> {"player", "marketer", "admin"}]
    /\ owner \in Accounts \union {Nobody}
    /\ assigning \subseteq Accounts /\ settled \subseteq Deposits /\ raced \subseteq Accounts
    /\ \A r \in rows : r.deposit \in settled /\ r.to \in Accounts /\ r.position \in Nat
    /\ \A q \in Requests :
         IF request[q].at \in {"idle", "checked", "refused"} THEN request[q].amount = 0
         ELSE request[q].at \in Open \union {"counted", "paid", "rejected"} /\ request[q].amount > 0
    /\ expenses \in [Accounts -> Nat]
    /\ changes \in 0..MaxChanges
    /\ RecruitersKnown

MarketersOf(d) == {r \in rows : r.deposit = d /\ r.position > 0}

\* 0103: however long the chain, the marketers of a deposit earn 25% together,
\* provided the top of the chain got its row (a default marketer who recruited
\* the depositor and was recruited herself has one row already, and loses it).
FullShare ==
    \A d \in settled :
        (\E r \in MarketersOf(d) : r.position = 1)
            => Rates(MarketersOf(d)) = 25

\* A deposit that settles pays the default marketer, and never its depositor.
PaysDefault ==
    \A d \in settled' \ settled :
        /\ owner \in Accounts \ {Depositor[d]} /\ role[owner] = "marketer"
             => \E r \in rows' : r.deposit = d /\ r.to = owner /\ r.position > 0
        /\ \A r \in rows' : r.deposit = d => r.to # Depositor[d]

\* 0103, docs/09: the default marketer earns on every deposit of the brand but
\* her own, whoever recruited the depositor and whoever changed role before;
\* and nobody earns on a deposit of her own.
DefaultEarns == [][PaysDefault]_commissionVars

\* 0079: payouts asked for, approved or paid never exceed what was earned, and
\* only one is open, for a marketer whose payout calls did not overlap.  (The
\* guard against a double request holds no lock: overlapping calls defeat it.)
NeverOverdrawn ==
    \A u \in Accounts \ raced :
        /\ Asked(u, Open \union {"paid"}) <= Earned(u)
        /\ Cardinality(Mine(u, Open)) <= 1
=============================================================================
