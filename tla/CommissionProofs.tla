--------------------------- MODULE CommissionProofs ---------------------------
(***************************************************************************)
(* Proofs about Commissions, for any referral graph, any number of         *)
(* deposits and payout calls, and any history of roles and defaults: how   *)
(* the tiers share a deposit, that the walk up from a depositor ends and   *)
(* climbs, and the invariant under which nobody asks for more than she     *)
(* earned.                                                                 *)
(***************************************************************************)
EXTENDS Commissions, SequenceTheorems, SumProofs

\* Who earns in a chain of n marketers, by position from the top: the nearest
\* recruiter, and the two at the top.
LEMMA EarningPositions ==
    ASSUME NEW n \in Nat \ {0}, NEW p \in 1..n
    PROVE  /\ Rate(p, n) \in Nat
           /\ Rate(p, n) > 0 <=> p \in {1, 2, n}
BY DEF Rate, Tier

\* 0103: the tiers telescope: 25, or 20 and 5, or 17, 3 and 5, and nothing for
\* anyone in between, however deep the hierarchy of marketers is.
THEOREM RatesTelescope ==
    ASSUME NEW n \in Nat \ {0}
    PROVE  /\ Rate(1, n) + (IF n > 1 THEN Rate(2, n) ELSE 0) + (IF n > 2 THEN Rate(n, n) ELSE 0) = 25
           /\ \A p \in 3..(n - 1) : Rate(p, n) = 0
BY DEF Rate, Tier

\* 0103: whoever ends the chain, the default marketer in every chain fn_pay_...
\* roots, has a row: her own place at the top, or an earlier one of hers.
THEOREM RootEarns ==
    ASSUME NEW S, NEW chain \in Seq(S), Len(chain) > 0, NEW d
    PROVE  \E r \in MarketerRows(d, chain) :
              r.deposit = d /\ r.to = chain[Len(chain)] /\ r.position > 0
<1> DEFINE n == Len(chain)
           root == chain[n]
           First(i) == /\ i \in Written(chain) /\ chain[i] = root
                       /\ \A k \in Written(chain) : k < i => chain[k] # chain[i]
<1>1. n \in Nat \ {0}
  OBVIOUS
<1>2. \A i \in 1..n : i \in Written(chain) <=> i \in {1, n - 1, n}
  <2>1. SUFFICES ASSUME NEW i \in 1..n
                 PROVE  Rate(n - i + 1, n) > 0 <=> i \in {1, n - 1, n}
    BY DEF Written
  <2>2. n - i + 1 \in 1..n
    BY <1>1
  <2> QED  BY <1>1, <2>2, EarningPositions
<1>3. Written(chain) \subseteq {1, n - 1, n} \intersect 1..n /\ n \in Written(chain) /\ 1 \in Written(chain)
  BY <1>1, <1>2 DEF Written
<1>4. \E i \in 1..n : First(i)
  <2>1. CASE chain[1] = root
    BY <1>1, <1>3, <2>1
  <2>2. CASE chain[1] # root /\ n > 2 /\ chain[n - 1] = root
    <3>1. n - 1 \in Written(chain)
      BY <1>1, <1>2, <2>2
    <3> QED  BY <1>1, <1>3, <2>2, <3>1
  <2>3. CASE chain[1] # root /\ ~(n > 2 /\ chain[n - 1] = root)
    BY <1>1, <1>3, <2>3
  <2> QED  BY <2>1, <2>2, <2>3
<1>5. PICK i \in 1..n : First(i)
  BY <1>4
<1>6. Row(d, chain, i) \in MarketerRows(d, chain)
  BY <1>5 DEF MarketerRows
<1>7. /\ Row(d, chain, i).deposit = d /\ Row(d, chain, i).to = root
      /\ Row(d, chain, i).position > 0
  BY <1>1, <1>5 DEF Row
<1> QED  BY <1>6, <1>7

-----------------------------------------------------------------------------
(* The walk up.  It is a function that calls itself for the referrer; as   *)
(* accounts sign up in order, there is one, and it never comes back.       *)

InOrder(place) ==
    /\ place \in [Accounts -> 1..Cardinality(Accounts)]
    /\ \A u \in Accounts : Referrer[u] # Nobody => place[Referrer[u]] < place[u]

IsWalk(up, d, S) ==
    up = [u \in S |-> IF u \in Accounts \ {Depositor[d]} /\ role[u] = "marketer"
                      THEN <<u>> \o up[Referrer[u]] ELSE <<>>]

\* Of any accounts, one was referred by none of the others.
LEMMA EarliestOf ==
    ASSUME CommissionsAssumption, NEW R \in SUBSET Accounts, R # {}
    PROVE  \E u \in R : Referrer[u] \notin R
<1>1. PICK place : InOrder(place)
  BY DEF CommissionsAssumption, SignedUpInOrder, InOrder
<1> DEFINE Places == {place[u] : u \in R}
<1>2. Places \in SUBSET Nat /\ Places # {}
  BY <1>1, FS_CardinalityType DEF InOrder, CommissionsAssumption
<1>3. PICK n \in Places : \A k \in Places : n <= k
  <2> HIDE DEF Places
  <2> QED  BY <1>2, LeastNatural
<1>4. PICK u \in R : place[u] = n
  OBVIOUS
<1>5. ASSUME Referrer[u] \in R
      PROVE  FALSE
  <2>1. Referrer[u] # Nobody /\ place[Referrer[u]] \in Places
    BY <1>5 DEF CommissionsAssumption
  <2>2. n <= place[Referrer[u]] /\ n \in Nat /\ place[Referrer[u]] \in Nat
    <3> HIDE DEF Places
    <3> QED  BY <1>2, <1>3, <2>1
  <2>3. place[Referrer[u]] < n
    BY <1>1, <1>4, <2>1 DEF InOrder
  <2> QED  BY <2>2, <2>3
<1> QED  BY <1>5

\* The walk exists: it is defined for ever more accounts, each after its referrer.
LEMMA WalkExists ==
    ASSUME CommissionsAssumption, NEW d
    PROVE  \E up : IsWalk(up, d, Accounts \union {Nobody})
<1> DEFINE Known(R) == (Accounts \union {Nobody}) \ R
           Todo == {R \in SUBSET Accounts : /\ \A u \in Accounts \ R : Referrer[u] \notin R
                                            /\ \E up : IsWalk(up, d, Known(R))}
<1>0. /\ Nobody \notin Accounts /\ IsFiniteSet(Accounts)
      /\ \A u \in Accounts : Referrer[u] \in Accounts \union {Nobody}
  BY DEF CommissionsAssumption
<1>1. Accounts \in Todo
  <2>1. IsWalk([u \in Known(Accounts) |-> <<>>], d, Known(Accounts))
    BY <1>0 DEF IsWalk
  <2> QED  BY <2>1
<1>2. PICK R \in Todo : \A T \in Todo : T \subseteq R => T = R
  <2>1. Todo \in SUBSET (SUBSET Accounts) /\ Todo # {}
    BY <1>1
  <2> HIDE DEF Todo
  <2> QED  BY <1>0, <2>1, SmallestSubset
<1>3. /\ R \in SUBSET Accounts
      /\ \A u \in Accounts \ R : Referrer[u] \notin R
  OBVIOUS
<1>4. PICK up : IsWalk(up, d, Known(R))
  OBVIOUS
<1>5. ASSUME R # {}
      PROVE  FALSE
  <2>1. PICK u \in R : Referrer[u] \notin R
    BY <1>3, <1>5, EarliestOf
  <2> DEFINE T == R \ {u}
             more == [v \in Known(T) |->
                        IF v \in Accounts \ {Depositor[d]} /\ role[v] = "marketer"
                        THEN <<v>> \o up[Referrer[v]] ELSE <<>>]
  <2>2. ASSUME NEW v \in Known(R)
        PROVE  v \in Known(T) /\ more[v] = up[v]
    BY <1>4 DEF IsWalk
  <2>3. ASSUME NEW v \in Known(T), v \in Accounts
        PROVE  Referrer[v] \in Known(R)
    <3>1. v = u \/ v \notin R
      BY <2>3
    <3>2. Referrer[v] \notin R
      BY <1>3, <2>1, <2>3, <3>1
    <3> QED  BY <1>0, <2>3, <3>2
  <2>4. ASSUME NEW v \in Known(T), v \in Accounts
        PROVE  more[Referrer[v]] = up[Referrer[v]]
    BY <2>2, <2>3, <2>4
  <2>5. IsWalk(more, d, Known(T))
    <3>1. more = [v \in Known(T) |->
                    IF v \in Accounts \ {Depositor[d]} /\ role[v] = "marketer"
                    THEN <<v>> \o more[Referrer[v]] ELSE <<>>]
      BY <2>4
    <3> QED  BY <3>1 DEF IsWalk
  <2>6. T \in Todo
    <3>1. \A v \in Accounts \ T : Referrer[v] \notin T
      BY <1>3, <2>1
    <3> QED  BY <1>3, <2>5, <3>1
  <2> QED  BY <1>2, <2>1, <2>6
<1>6. Known(R) = Accounts \union {Nobody}
  BY <1>5
<1> QED  BY <1>4, <1>6

-----------------------------------------------------------------------------
\* A chain climbs when each of its marketers signed up before the one below.
Climbs(chain, place) == \A i, j \in 1..Len(chain) : i < j => place[chain[j]] < place[chain[i]]

\* What the walk finds from u: marketers other than the depositor, climbing,
\* none of whom signed up after u.
Found(chain, u, d, place) ==
    /\ chain \in Seq(Accounts \ {Depositor[d]})
    /\ Climbs(chain, place)
    /\ \A i \in 1..Len(chain) : u \in Accounts /\ place[chain[i]] <= place[u]

\* One more marketer below a chain that climbs.
LEMMA FoundBelow ==
    ASSUME CommissionsAssumption, NEW place, InOrder(place), NEW d,
           NEW u \in Accounts \ {Depositor[d]}, NEW chain, Found(chain, Referrer[u], d, place)
    PROVE  Found(<<u>> \o chain, u, d, place)
<1> DEFINE S == Accounts \ {Depositor[d]}
           n == Len(chain)
           longer == <<u>> \o chain
<1>1. chain \in Seq(S) /\ <<u>> \in Seq(S) /\ Len(<<u>>) = 1 /\ <<u>>[1] = u /\ n \in Nat
  BY DEF Found
<1>2. longer \in Seq(S) /\ Len(longer) = 1 + n
  BY <1>1, ConcatProperties
<1>3. /\ longer[1] = u
      /\ \A i \in 2..(1 + n) : i - 1 \in 1..n /\ longer[i] = chain[i - 1]
  <2>1. \A i \in 1..(1 + n) : longer[i] = IF i <= 1 THEN <<u>>[i] ELSE chain[i - 1]
    BY <1>1, ConcatProperties
  <2> HIDE DEF longer, n
  <2> QED  BY <1>1, <2>1
<1>4. \A v \in Accounts : place[v] \in Nat
  BY FS_CardinalityType DEF InOrder, CommissionsAssumption
<1> HIDE DEF longer, n
<1>5. ASSUME NEW i \in 1..n
      PROVE  /\ chain[i] \in Accounts /\ place[chain[i]] < place[u]
  <2>1. chain[i] \in Accounts
    BY <1>1 DEF n
  <2>2. /\ Referrer[u] \in Accounts /\ place[chain[i]] <= place[Referrer[u]]
    BY DEF Found, n
  <2>3. place[Referrer[u]] < place[u]
    BY <2>2 DEF InOrder, CommissionsAssumption
  <2> QED  BY <1>4, <2>1, <2>2, <2>3
<1>6. \A i \in 1..(1 + n) : place[longer[i]] <= place[u]
  <2> SUFFICES ASSUME NEW i \in 1..(1 + n) PROVE place[longer[i]] <= place[u]
    OBVIOUS
  <2>1. CASE i = 1
    BY <1>3, <1>4, <2>1
  <2>2. CASE i # 1
    <3>1. i \in 2..(1 + n)
      BY <1>1, <2>2
    <3>2. i - 1 \in 1..n /\ longer[i] = chain[i - 1]
      BY <1>3, <3>1
    <3> QED  BY <1>4, <1>5, <3>2
  <2> QED  BY <2>1, <2>2
<1>7. ASSUME NEW i \in 1..(1 + n), NEW j \in 1..(1 + n), i < j
      PROVE  place[longer[j]] < place[longer[i]]
  <2>1. j \in 2..(1 + n)
    BY <1>1, <1>7
  <2>2. j - 1 \in 1..n /\ longer[j] = chain[j - 1]
    BY <1>3, <2>1
  <2>3. CASE i = 1
    BY <1>3, <1>5, <2>2, <2>3
  <2>4. CASE i # 1
    <3>1. i \in 2..(1 + n)
      BY <1>1, <2>4
    <3>2. i - 1 \in 1..n /\ longer[i] = chain[i - 1] /\ i - 1 < j - 1
      BY <1>3, <1>7, <3>1
    <3> QED  BY <2>2, <3>2 DEF Found, Climbs, n
  <2> QED  BY <2>3, <2>4
<1> QED  BY <1>2, <1>6, <1>7 DEF Found, Climbs, longer

\* Whoever signed up, and whatever roles they have by now, the walk up from a
\* depositor ends, climbs, and comes past nobody twice and never past herself.
THEOREM WalkClimbs ==
    ASSUME CommissionsAssumption, NEW place, InOrder(place), NEW d \in Deposits
    PROVE  Found(Recruiters(d), Referrer[Depositor[d]], d, place)
<1> DEFINE D == Accounts \union {Nobody}
           up == CHOOSE g : IsWalk(g, d, D)
<1>0. /\ Nobody \notin Accounts /\ Depositor[d] \in Accounts
      /\ \A u \in Accounts : Referrer[u] \in D
  BY DEF CommissionsAssumption
<1>1. IsWalk(up, d, D)
  BY WalkExists
<1>2. Recruiters(d) = up[Referrer[Depositor[d]]]
  BY DEF Recruiters, IsWalk
<1> HIDE DEF up
<1>3. ASSUME NEW u \in D
      PROVE  /\ u \in Accounts \ {Depositor[d]} /\ role[u] = "marketer"
                  => up[u] = <<u>> \o up[Referrer[u]]
             /\ ~(u \in Accounts \ {Depositor[d]} /\ role[u] = "marketer") => up[u] = <<>>
  BY <1>1 DEF IsWalk
<1>4. \A u : Found(<<>>, u, d, place)
  BY DEF Found, Climbs
<1> DEFINE Bad == {u \in Accounts : ~ Found(up[u], u, d, place)}
<1>5. Bad = {}
  <2>1. SUFFICES ASSUME Bad # {} PROVE FALSE
    OBVIOUS
  <2>2. PICK u \in Bad : Referrer[u] \notin Bad
    <3>1. Bad \in SUBSET Accounts
      OBVIOUS
    <3> HIDE DEF Bad
    <3> QED  BY <2>1, <3>1, EarliestOf
  <2>3. u \in Accounts /\ u \in D /\ ~ Found(up[u], u, d, place) /\ Referrer[u] \in D
    BY <1>0
  <2>4. Found(up[Referrer[u]], Referrer[u], d, place)
    <3>1. CASE Referrer[u] \in Accounts
      BY <2>2, <3>1
    <3>2. CASE Referrer[u] = Nobody
      BY <1>0, <1>3, <1>4, <3>2
    <3> QED  BY <2>3, <3>1, <3>2
  <2>5. CASE u \in Accounts \ {Depositor[d]} /\ role[u] = "marketer"
    <3>1. up[u] = <<u>> \o up[Referrer[u]]
      BY <2>3, <1>3, <2>5
    <3>2. Found(<<u>> \o up[Referrer[u]], u, d, place)
      BY <2>4, <2>5, FoundBelow
    <3> QED  BY <2>3, <3>1, <3>2
  <2>6. CASE ~(u \in Accounts \ {Depositor[d]} /\ role[u] = "marketer")
    <3>1. up[u] = <<>>
      BY <2>3, <1>3, <2>6
    <3> QED  BY <1>4, <2>3, <3>1
  <2> QED  BY <2>5, <2>6
<1>6. CASE Referrer[Depositor[d]] \in Accounts
  BY <1>2, <1>5, <1>6
<1>7. CASE Referrer[Depositor[d]] = Nobody
  BY <1>0, <1>2, <1>3, <1>4, <1>7
<1> QED  BY <1>0, <1>6, <1>7

\* The chain a deposit pays: accounts other than its depositor, and nobody
\* twice below its top.
LEMMA ChainKnown ==
    ASSUME CommissionsAssumption, NEW d \in Deposits
    PROVE  /\ Recruiters(d) \in Seq(Accounts \ {Depositor[d]})
           /\ Chain(d) \in Seq(Accounts \ {Depositor[d]})
           /\ \A i, j \in 1..(Len(Chain(d)) - 1) : i < j => Chain(d)[i] # Chain(d)[j]
<1> DEFINE up == Recruiters(d)
           S == Accounts \ {Depositor[d]}
<1>1. PICK place : InOrder(place)
  BY DEF CommissionsAssumption, SignedUpInOrder, InOrder
<1>2. up \in Seq(S) /\ Climbs(up, place)
  BY <1>1, WalkClimbs DEF Found
<1>3. ASSUME NEW i \in 1..Len(up), NEW j \in 1..Len(up), i < j
      PROVE  up[i] # up[j]
  <2>1. up[i] \in Accounts /\ up[j] \in Accounts
    BY <1>2
  <2>2. place[up[i]] \in Nat /\ place[up[j]] \in Nat
    BY <1>1, <2>1, FS_CardinalityType DEF InOrder, CommissionsAssumption
  <2>3. place[up[j]] < place[up[i]]
    BY <1>2, <1>3 DEF Climbs
  <2> QED  BY <2>2, <2>3
<1>4. Chain(d) = up \/ (owner \in S /\ Chain(d) = Append(up, owner))
  BY DEF Chain
<1> HIDE DEF up
<1>5. CASE Chain(d) = up
  BY <1>2, <1>3, <1>5 DEF up
<1>6. CASE owner \in S /\ Chain(d) = Append(up, owner)
  <2>1. Len(Chain(d)) - 1 = Len(up) /\ \A i \in 1..Len(up) : Chain(d)[i] = up[i]
    BY <1>2, <1>6
  <2>2. Chain(d) \in Seq(S)
    BY <1>2, <1>6
  <2> QED  BY <1>2, <1>3, <2>1, <2>2 DEF up
<1> QED  BY <1>4, <1>5, <1>6

\* The default marketer, if she may earn, ends the chain she roots.
LEMMA ChainRooted ==
    ASSUME CommissionsAssumption, NEW d \in Deposits,
           owner \in Accounts \ {Depositor[d]}, role[owner] = "marketer"
    PROVE  Len(Chain(d)) > 0 /\ Chain(d)[Len(Chain(d))] = owner
<1> DEFINE up == Recruiters(d)
<1>1. up \in Seq(Accounts \ {Depositor[d]})
  BY ChainKnown
<1> HIDE DEF up
<1>2. CASE up = <<>> \/ up[Len(up)] # owner
  <2>1. Chain(d) = Append(up, owner)
    BY <1>2 DEF Chain, Last, up
  <2> QED  BY <1>1, <2>1
<1>3. CASE up # <<>> /\ up[Len(up)] = owner
  <2>1. Chain(d) = up
    BY <1>3 DEF Chain, Last, up
  <2> QED  BY <1>1, <1>3, <2>1
<1> QED  BY <1>2, <1>3

\* The rows a deposit adds are its own, a positive rate for an account that is
\* not its depositor's; and there are finitely many of them.
LEMMA NewRows ==
    ASSUME CommissionsAssumption, NEW d \in Deposits
    PROVE  /\ \A r \in PerkRows(d) : r.deposit = d /\ r.position = 0 /\ r.rate = 5
                                     /\ r.to \in Accounts \ {Depositor[d]}
           /\ \A r \in MarketerRows(d, Chain(d)) :
                  r.deposit = d /\ r.position \in Nat \ {0} /\ r.rate \in Nat
                  /\ r.to \in Accounts \ {Depositor[d]}
           /\ IsFiniteSet(PerkRows(d)) /\ IsFiniteSet(MarketerRows(d, Chain(d)))
<1>1. \A r \in PerkRows(d) : r.deposit = d /\ r.position = 0 /\ r.rate = 5
                             /\ r.to \in Accounts \ {Depositor[d]}
  BY DEF PerkRows
<1> DEFINE S == Accounts \ {Depositor[d]}
           chain == Chain(d)
           n == Len(chain)
<1>2. chain \in Seq(S) /\ n \in Nat
  BY ChainKnown
<1> HIDE DEF S, chain, n
<1>3. ASSUME NEW r \in MarketerRows(d, chain)
      PROVE  r.deposit = d /\ r.position \in Nat \ {0} /\ r.rate \in Nat /\ r.to \in S
  <2>1. PICK i \in 1..n : r = Row(d, chain, i)
    BY DEF MarketerRows, Written, n
  <2>2. r.deposit = d /\ r.position = n - i + 1 /\ r.rate = Rate(n - i + 1, n) /\ r.to = chain[i]
    BY <2>1 DEF Row, n
  <2>3. chain[i] \in S
    BY <1>2 DEF n
  <2>4. n - i + 1 \in 1..n /\ n \in Nat \ {0}
    BY <1>2
  <2>5. Rate(n - i + 1, n) \in Nat
    BY <2>4, EarningPositions
  <2> QED  BY <2>2, <2>3, <2>4, <2>5
<1>4. IsFiniteSet(PerkRows(d))
  <2>1. PerkRows(d) \subseteq {[deposit |-> d, to |-> Referrer[Depositor[d]], position |-> 0, rate |-> 5]}
    BY DEF PerkRows
  <2> QED  BY <2>1, FS_Singleton, FS_Subset
<1>5. IsFiniteSet(MarketerRows(d, chain))
  <2>1. MarketerRows(d, chain) \subseteq {Row(d, chain, i) : i \in 1..n}
    BY DEF MarketerRows, Written, n
  <2> DEFINE row == [i \in 1..n |-> Row(d, chain, i)]
  <2>2. row \in Surjection(1..n, {Row(d, chain, i) : i \in 1..n})
    BY DEF Surjection
  <2>3. IsFiniteSet(1..n)
    BY <1>2, FS_Interval
  <2>4. IsFiniteSet({Row(d, chain, i) : i \in 1..n})
    BY <2>2, <2>3, FS_Surjection
  <2> QED  BY <2>1, <2>4, FS_Subset
<1> QED  BY <1>1, <1>3, <1>4, <1>5 DEF S, chain

-----------------------------------------------------------------------------
(* What rows add up to.                                                    *)

LEMMA RatesNat ==
    ASSUME NEW S, IsFiniteSet(S), \A s \in S : s.rate \in Nat
    PROVE  Rates(S) \in Nat
<1> DEFINE f == [s \in S |-> s.rate]
<1>1. \A s \in S : f[s] \in Nat
  OBVIOUS
<1>2. Rates(S) = SumFunctionOnSet(f, S)
  BY DEF Rates, SumFunction
<1> HIDE DEF f
<1> QED  BY <1>1, <1>2, SumNat

\* One more row.
LEMMA RatesAdd ==
    ASSUME NEW S, IsFiniteSet(S), \A s \in S : s.rate \in Nat,
           NEW r, r \notin S, r.rate \in Nat
    PROVE  Rates(S \union {r}) = r.rate + Rates(S)
<1> DEFINE f == [s \in S \union {r} |-> s.rate]
           g == [s \in S |-> s.rate]
<1>1. /\ \A s \in S \union {r} : f[s] \in Int
      /\ \A s \in S : f[s] = g[s] /\ f[s] \in Int
      /\ f[r] = r.rate
  OBVIOUS
<1>2. Rates(S \union {r}) = SumFunctionOnSet(f, S \union {r}) /\ Rates(S) = SumFunctionOnSet(g, S)
  BY DEF Rates, SumFunction
<1> HIDE DEF f, g
<1>3. SumFunctionOnSet(f, S \union {r}) = f[r] + SumFunctionOnSet(f, S)
  BY ONLY <1>1, IsFiniteSet(S), r \notin S, SumAdd
<1>4. SumFunctionOnSet(f, S) = SumFunctionOnSet(g, S)
  BY ONLY <1>1, IsFiniteSet(S), SumAgree
<1> QED  BY <1>1, <1>2, <1>3, <1>4

\* More rows add up to no less.
LEMMA RatesSubset ==
    ASSUME NEW S, IsFiniteSet(S), \A s \in S : s.rate \in Nat, NEW R \in SUBSET S
    PROVE  Rates(R) <= Rates(S)
<1> DEFINE f == [s \in S |-> s.rate]
           g == [s \in R |-> s.rate]
<1>1. /\ \A s \in S : f[s] \in Nat
      /\ \A s \in R : f[s] = g[s] /\ f[s] \in Int
  OBVIOUS
<1>2. Rates(S) = SumFunctionOnSet(f, S) /\ Rates(R) = SumFunctionOnSet(g, R)
  BY DEF Rates, SumFunction
<1> HIDE DEF f, g
<1>3. SumFunctionOnSet(f, R) <= SumFunctionOnSet(f, S)
  BY ONLY <1>1, IsFiniteSet(S), R \in SUBSET S, SumSubset
<1>4. SumFunctionOnSet(f, R) = SumFunctionOnSet(g, R)
  <2>1. IsFiniteSet(R)
    BY FS_Subset
  <2> QED  BY ONLY <1>1, <2>1, SumAgree
<1> QED  BY <1>2, <1>3, <1>4

LEMMA RatesEmpty == Rates({}) = 0
<1>1. Rates({}) = SumFunctionOnSet([s \in {} |-> s.rate], {})
  BY DEF Rates, SumFunction
<1> QED  BY <1>1, SumEmpty

\* 0103: if the top of a chain gets its row, the rows come to 25, as long as
\* nobody else is in the chain twice.
THEOREM ChainEarnsAll ==
    ASSUME NEW S, NEW chain \in Seq(S), NEW d,
           \A i, j \in 1..(Len(chain) - 1) : i < j => chain[i] # chain[j],
           \E r \in MarketerRows(d, chain) : r.position = 1
    PROVE  Rates(MarketerRows(d, chain)) = 25
<1> DEFINE n == Len(chain)
           Kept == {i \in Written(chain) : \A k \in Written(chain) : k < i => chain[k] # chain[i]}
           row == [i \in 1..n |-> Row(d, chain, i)]
<1>1. n \in Nat
  OBVIOUS
<1>2. MarketerRows(d, chain) = {row[i] : i \in Kept} /\ Kept \in SUBSET (1..n)
  BY DEF MarketerRows, Written
<1>3. \A i \in 1..n : row[i].position = n - i + 1 /\ row[i].rate = Rate(n - i + 1, n)
  BY DEF Row
<1>4. n \in Nat \ {0} /\ n \in Kept
  <2>1. PICK i \in Kept : row[i].position = 1
    BY <1>2
  <2>2. i \in 1..n /\ n - i + 1 = 1
    BY <1>2, <1>3, <2>1
  <2>3. i = n
    BY <1>1, <2>2
  <2> QED  BY <1>1, <2>2, <2>3
<1>5. \A i \in 1..n : i \in Written(chain) <=> i \in {1, n - 1, n}
  <2>1. SUFFICES ASSUME NEW i \in 1..n
                 PROVE  Rate(n - i + 1, n) > 0 <=> i \in {1, n - 1, n}
    BY DEF Written
  <2>2. n - i + 1 \in 1..n
    BY <1>1
  <2> QED  BY <1>4, <2>2, EarningPositions
<1>6. Written(chain) = {1, n - 1, n} \intersect 1..n
  <2>1. Written(chain) \subseteq 1..n
    BY DEF Written
  <2>2. {1, n - 1, n} \intersect 1..n \subseteq Written(chain)
    BY <1>5
  <2> QED  BY <1>5, <2>1, <2>2
<1>7. Kept = Written(chain)
  <2>1. SUFFICES ASSUME NEW i \in Written(chain), NEW k \in Written(chain), k < i
                 PROVE  chain[k] # chain[i]
    OBVIOUS
  <2>2. CASE i = n
    BY <1>4, <2>1, <2>2
  <2>3. CASE i # n
    <3>1. i \in 1..(n - 1) /\ k \in 1..(n - 1)
      BY <1>1, <1>6, <2>1, <2>3
    <3> QED  BY <2>1, <3>1
  <2> QED  BY <2>2, <2>3
<1> HIDE DEF Kept, row
<1>8. MarketerRows(d, chain) = {row[i] : i \in {1, n - 1, n} \intersect 1..n}
  BY <1>2, <1>6, <1>7
<1> DEFINE top == row[n]
           second == row[n - 1]
           low == row[1]
<1>9. top.position = 1 /\ top.rate = Rate(1, n)
  BY <1>3, <1>4
<1> HIDE DEF n
<1>10. CASE n = 1
  <2>1. MarketerRows(d, chain) = {} \union {top}
    BY <1>8, <1>10
  <2>2. Rates({} \union {top}) = top.rate + Rates({})
    <3>1. top.rate \in Nat
      BY <1>9, <1>10 DEF Rate, Tier
    <3> HIDE DEF top
    <3> QED  BY <3>1, RatesAdd, FS_EmptySet
  <2> QED  BY <1>9, <1>10, <2>1, <2>2, RatesEmpty DEF Rate, Tier
<1>11. CASE n > 1
  <2>1. second.position = 2 /\ second.rate = Rate(2, n) /\ low.position = n /\ low.rate = Rate(n, n)
    BY <1>3, <1>4, <1>11
  <2>2. Rate(1, n) = 5 /\ Rate(2, n) = (IF n = 2 THEN 20 ELSE 3) /\ (n > 2 => Rate(n, n) = 17)
    BY <1>4, <1>11 DEF Rate, Tier
  <2> DEFINE Two == {} \union {top} \union {second}
  <2>3. top # second
    BY <1>9, <2>1
  <2>4. Rates(Two) = Rate(1, n) + Rate(2, n) /\ IsFiniteSet(Two)
    <3>1. top.rate \in Nat /\ second.rate \in Nat
      BY <1>9, <2>1, <2>2
    <3> HIDE DEF top, second
    <3>2. Rates({} \union {top}) = top.rate + Rates({})
      BY <3>1, RatesAdd, FS_EmptySet
    <3>3. IsFiniteSet({} \union {top})
      BY FS_AddElement, FS_EmptySet
    <3>4. Rates(Two) = second.rate + Rates({} \union {top})
      BY ONLY <2>3, <3>1, <3>3, RatesAdd
    <3>5. IsFiniteSet(Two)
      BY <3>3, FS_AddElement
    <3> QED  BY <1>9, <2>1, <2>2, <3>2, <3>4, <3>5, RatesEmpty
  <2>5. CASE n = 2
    <3>1. MarketerRows(d, chain) = Two
      BY <1>8, <2>5
    <3> QED  BY <2>2, <2>4, <2>5, <3>1
  <2>6. CASE n > 2
    <3>1. MarketerRows(d, chain) = Two \union {low}
      <4>1. {1, n - 1, n} \intersect 1..n = {1, n - 1, n}
        BY <1>4, <2>6
      <4> QED  BY <1>8, <4>1
    <3>2. low \notin Two /\ low.rate \in Nat /\ \A s \in Two : s.rate \in Nat
      BY <1>9, <2>1, <2>2, <2>6
    <3>3. Rates(Two \union {low}) = low.rate + Rates(Two)
      <4> HIDE DEF Two, low
      <4> QED  BY <2>4, <3>2, RatesAdd
    <3> QED  BY <2>1, <2>2, <2>4, <2>6, <3>1, <3>3
  <2> QED  BY <1>11, <1>4, <2>5, <2>6
<1> QED  BY <1>4, <1>10, <1>11

-----------------------------------------------------------------------------
(* The invariant: types, the shares of every settled deposit, and for each *)
(* marketer whose payout calls did not overlap, one call or row in hand at *)
(* a time and all she has asked for, or is about to, within her earnings.  *)

Roles == {"player", "marketer", "admin"}
Stages == {"idle", "checked", "refused", "counted", "paid", "rejected"} \union Open

AdminTypes ==
    /\ role \in [Accounts -> Roles]
    /\ owner \in Accounts \union {Nobody}
    /\ assigning \subseteq Accounts
    /\ expenses \in [Accounts -> Nat]
    /\ changes \in 0..MaxChanges

RowTypes ==
    /\ settled \subseteq Deposits
    /\ IsFiniteSet(rows)
    /\ \A r \in rows : /\ r.deposit \in settled /\ r.to \in Accounts
                       /\ r.position \in Nat /\ r.rate \in Nat

RequestTypes ==
    /\ raced \subseteq Accounts
    /\ request \in [Requests -> [at : Stages, amount : Nat]]
    /\ \A q \in Requests : request[q].amount = 0 <=> request[q].at \in {"idle", "checked", "refused"}

OneAtATime ==
    \A u \in Accounts \ raced : \A q, r \in Mine(u, Calling \union Open) : q = r

AskedFor == {"counted", "paid"} \union Open

Covered == \A u \in Accounts \ raced : Asked(u, AskedFor) <= Earned(u)

Inv == AdminTypes /\ RowTypes /\ RequestTypes /\ FullShare /\ OneAtATime /\ Covered

LEMMA InitInv == ASSUME CommissionsAssumption, CommissionInit PROVE Inv
<1>1. AdminTypes
  BY DEF CommissionsAssumption, CommissionInit, AdminTypes, Roles
<1>2. RowTypes /\ FullShare
  BY FS_EmptySet DEF CommissionInit, RowTypes, FullShare
<1>3. RequestTypes
  BY DEF CommissionInit, RequestTypes, Stages
<1>4. \A u \in Accounts : Mine(u, Calling \union Open) = {} /\ Mine(u, AskedFor) = {} /\ Earned(u) = Rates({})
  <2>1. rows = {} /\ \A q \in Requests : request[q].at = "idle"
    BY DEF CommissionInit
  <2> QED  BY <2>1 DEF Mine, Earned, AskedFor, Calling, Open
<1>5. OneAtATime
  BY <1>4 DEF OneAtATime
<1>6. Covered
  <2> SUFFICES ASSUME NEW u \in Accounts
               PROVE  Asked(u, AskedFor) <= Earned(u)
    BY DEF Covered
  <2> DEFINE f == [q \in Requests |-> request[q].amount]
  <2>1. Asked(u, AskedFor) = SumFunctionOnSet(f, {}) /\ Earned(u) = 0
    BY <1>4, RatesEmpty DEF Asked
  <2> HIDE DEF f
  <2> QED  BY <2>1, SumEmpty
<1> QED  BY <1>1, <1>2, <1>3, <1>5, <1>6 DEF Inv

-----------------------------------------------------------------------------
(* The steps that touch roles, the default marketer or expenses only, ...  *)

Administer ==
    \/ \E u \in Accounts : SetRole(u) \/ AllowOwner(u) \/ AssignOwner(u)
    \/ ClearOwner
    \/ \E q \in Requests : LogExpense(Requester[q])

PayoutStep(q) ==
    \/ CheckOpen(q) \/ Count(q) \/ Insert(q)
    \/ ApprovePayout(q) \/ MarkPayoutPaid(q) \/ RejectPayout(q)

LEMMA StepKinds ==
    ASSUME [CommissionNext]_commissionVars
    PROVE  \/ Administer
           \/ \E d \in Deposits : SettleDeposit(d)
           \/ \E q \in Requests : PayoutStep(q)
           \/ UNCHANGED commissionVars
BY DEF CommissionNext, Administer, PayoutStep

\* What a sum of requests says once neither the rows nor the requests change.
LEMMA SameRows ==
    ASSUME UNCHANGED <<settled, rows>>, RowTypes, FullShare
    PROVE  RowTypes' /\ FullShare' /\ \A u : Earned(u)' = Earned(u)
BY DEF RowTypes, FullShare, MarketersOf, Earned

LEMMA SameRequests ==
    ASSUME UNCHANGED <<request, raced>>, RequestTypes, OneAtATime
    PROVE  /\ RequestTypes' /\ OneAtATime'
           /\ \A u : Mine(u, Open)' = Mine(u, Open)
           /\ \A u : Asked(u, AskedFor)' = Asked(u, AskedFor)
BY DEF RequestTypes, OneAtATime, Mine, Asked

LEMMA AdministerInv ==
    ASSUME CommissionsAssumption, Inv, Administer \/ UNCHANGED commissionVars
    PROVE  Inv'
<1>1. UNCHANGED <<settled, rows, request, raced>>
  BY DEF Administer, SetRole, AllowOwner, AssignOwner, ClearOwner, LogExpense, commissionVars
<1>2. AdminTypes'
  <2> USE DEF Inv, AdminTypes, CommissionsAssumption
  <2>1. ASSUME NEW u \in Accounts, SetRole(u)
        PROVE  AdminTypes'
    BY <2>1 DEF SetRole, Change, Roles
  <2>2. ASSUME NEW u \in Accounts, AllowOwner(u)
        PROVE  AdminTypes'
    BY <2>2 DEF AllowOwner, Change
  <2>3. ASSUME NEW u \in Accounts, AssignOwner(u)
        PROVE  AdminTypes'
    BY <2>3 DEF AssignOwner
  <2>4. CASE ClearOwner
    BY <2>4 DEF ClearOwner, Change
  <2>5. ASSUME NEW q \in Requests, LogExpense(Requester[q])
        PROVE  AdminTypes'
    BY <2>5 DEF LogExpense
  <2>6. CASE UNCHANGED commissionVars
    BY <2>6 DEF commissionVars
  <2> QED  BY <2>1, <2>2, <2>3, <2>4, <2>5, <2>6 DEF Administer
<1>3. /\ RowTypes' /\ FullShare' /\ RequestTypes' /\ OneAtATime'
      /\ \A u : Earned(u)' = Earned(u) /\ Asked(u, AskedFor)' = Asked(u, AskedFor)
  BY <1>1, SameRows, SameRequests DEF Inv
<1>4. Covered'
  BY <1>1, <1>3 DEF Inv, Covered
<1> QED  BY <1>2, <1>3, <1>4 DEF Inv

-----------------------------------------------------------------------------
(* ... the settling deposit, ...                                           *)

LEMMA SettleInv ==
    ASSUME CommissionsAssumption, Inv, NEW d \in Deposits, SettleDeposit(d)
    PROVE  Inv'
<1> DEFINE added == PerkRows(d) \union MarketerRows(d, Chain(d))
<1>1. /\ d \notin settled /\ settled' = settled \union {d}
      /\ rows' = rows \union added
      /\ UNCHANGED <<role, owner, assigning, request, raced, expenses, changes>>
  BY DEF SettleDeposit
<1>2. /\ IsFiniteSet(added)
      /\ \A r \in added : /\ r.deposit = d /\ r.to \in Accounts
                          /\ r.position \in Nat /\ r.rate \in Nat
      /\ \A r \in added : r.position > 0 <=> r \in MarketerRows(d, Chain(d))
  <2> DEFINE perk == PerkRows(d)
             mine == MarketerRows(d, Chain(d))
  <2>1. /\ \A r \in perk : r.deposit = d /\ r.position = 0 /\ r.rate = 5 /\ r.to \in Accounts
        /\ \A r \in mine : r.deposit = d /\ r.position \in Nat \ {0} /\ r.rate \in Nat /\ r.to \in Accounts
        /\ IsFiniteSet(perk) /\ IsFiniteSet(mine)
    BY NewRows
  <2> HIDE DEF perk, mine
  <2>2. IsFiniteSet(perk \union mine)
    BY <2>1, FS_Union
  <2>3. /\ \A r \in perk \union mine : /\ r.deposit = d /\ r.to \in Accounts
                                        /\ r.position \in Nat /\ r.rate \in Nat
        /\ \A r \in perk \union mine : r.position > 0 <=> r \in mine
    BY <2>1
  <2> QED  BY <2>2, <2>3 DEF perk, mine
<1> HIDE DEF added
<1>3. RowTypes
  BY DEF Inv
<1>4. RowTypes'
  BY <1>1, <1>2, <1>3, FS_Union DEF RowTypes
<1>5. FullShare'
  <2>1. SUFFICES ASSUME NEW e \in settled', \E r \in MarketersOf(e)' : r.position = 1
                 PROVE  Rates(MarketersOf(e)') = 25
    BY DEF FullShare, Rates
  <2>2. CASE e # d
    <3>1. MarketersOf(e)' = MarketersOf(e) /\ e \in settled
      BY <1>1, <1>2, <2>2 DEF MarketersOf
    <3> QED  BY <2>1, <3>1 DEF Inv, FullShare
  <2>3. CASE e = d
    <3>1. MarketersOf(e)' = MarketerRows(d, Chain(d))
      BY <1>1, <1>2, <1>3, <2>3 DEF MarketersOf, RowTypes, added
    <3> DEFINE chain == Chain(d)
               S == Accounts \ {Depositor[d]}
    <3>2. \E r \in MarketerRows(d, chain) : r.position = 1
      BY <2>1, <3>1
    <3>3. chain \in Seq(S) /\ \A i, j \in 1..(Len(chain) - 1) : i < j => chain[i] # chain[j]
      BY ChainKnown
    <3> HIDE DEF chain, S
    <3>4. Rates(MarketerRows(d, chain)) = 25
      BY <3>2, <3>3, ChainEarnsAll
    <3> QED  BY <3>1, <3>4 DEF chain
  <2> QED  BY <2>2, <2>3
<1>6. \A u \in Accounts : Earned(u) <= Earned(u)' /\ Earned(u) \in Nat /\ Earned(u)' \in Nat
  <2> SUFFICES ASSUME NEW u \in Accounts
               PROVE  Earned(u) <= Earned(u)' /\ Earned(u) \in Nat /\ Earned(u)' \in Nat
    OBVIOUS
  <2> DEFINE Of(S) == {r \in S : r.to = u /\ r.position > 0}
  <2>1. /\ IsFiniteSet(rows) /\ IsFiniteSet(rows')
        /\ \A r \in rows : r.rate \in Nat
        /\ \A r \in rows' : r.rate \in Nat
    BY <1>3, <1>4 DEF RowTypes
  <2>2. /\ Of(rows) \subseteq Of(rows')
        /\ \A r \in Of(rows) : r.rate \in Nat
        /\ \A r \in Of(rows') : r.rate \in Nat
    BY <1>1, <2>1
  <2>3. IsFiniteSet(Of(rows)) /\ IsFiniteSet(Of(rows'))
    <3>1. Of(rows) \subseteq rows /\ Of(rows') \subseteq rows'
      OBVIOUS
    <3> HIDE DEF Of
    <3> QED  BY <2>1, <3>1, FS_Subset
  <2>4. Earned(u) = Rates(Of(rows)) /\ Earned(u)' = Rates(Of(rows'))
    BY DEF Earned, Rates
  <2> HIDE DEF Of
  <2> QED  BY <2>2, <2>3, <2>4, RatesNat, RatesSubset
<1>7. AdminTypes' /\ RequestTypes' /\ OneAtATime'
  BY <1>1, SameRequests DEF Inv, AdminTypes
<1>8. Covered'
  <2>1. SUFFICES ASSUME NEW u \in Accounts \ raced
                 PROVE  Asked(u, AskedFor)' <= Earned(u)'
    BY <1>1 DEF Covered
  <2>2. Asked(u, AskedFor)' = Asked(u, AskedFor) /\ Asked(u, AskedFor) \in Nat
    <3>1. IsFiniteSet(Mine(u, AskedFor))
      BY FS_Subset DEF CommissionsAssumption, Mine
    <3>2. \A q \in Mine(u, AskedFor) : [r \in Requests |-> request[r].amount][q] \in Nat
      BY DEF Inv, RequestTypes, Mine
    <3> QED  BY <1>1, <3>1, <3>2, SumNat, SameRequests DEF Inv, Asked
  <2>3. Asked(u, AskedFor) <= Earned(u)
    BY DEF Inv, Covered
  <2> QED  BY <1>6, <2>2, <2>3
<1> QED  BY <1>4, <1>5, <1>7, <1>8 DEF Inv

-----------------------------------------------------------------------------
(* ... and the payout calls and their rows.                                *)

LEMMA EarnedNat ==
    ASSUME RowTypes, NEW u
    PROVE  Earned(u) \in Nat
<1> DEFINE S == {r \in rows : r.to = u /\ r.position > 0}
<1>1. IsFiniteSet(S)
  BY FS_Subset DEF RowTypes
<1>2. \A r \in S : r.rate \in Nat
  BY DEF RowTypes
<1>3. Earned(u) = Rates(S)
  BY DEF Earned
<1> HIDE DEF S
<1> QED  BY <1>1, <1>2, <1>3, RatesNat

LEMMA AskedNat ==
    ASSUME CommissionsAssumption, RequestTypes, NEW u, NEW stages
    PROVE  Asked(u, stages) \in Nat
<1> DEFINE f == [q \in Requests |-> request[q].amount]
<1>1. IsFiniteSet(Mine(u, stages))
  BY FS_Subset DEF CommissionsAssumption, Mine
<1>2. \A q \in Mine(u, stages) : f[q] \in Nat
  BY DEF RequestTypes, Mine
<1>3. Asked(u, stages) = SumFunctionOnSet(f, Mine(u, stages))
  BY DEF Asked
<1> HIDE DEF f
<1> QED  BY <1>1, <1>2, <1>3, SumNat

LEMMA AskedNatNext ==
    ASSUME CommissionsAssumption, RequestTypes', NEW u
    PROVE  Asked(u, AskedFor)' \in Nat
<1> DEFINE f == [q \in Requests |-> request'[q].amount]
           M == Mine(u, AskedFor)'
<1>1. IsFiniteSet(M)
  BY FS_Subset DEF CommissionsAssumption, Mine
<1>2. \A q \in M : f[q] \in Nat
  BY DEF RequestTypes, Mine
<1>3. Asked(u, AskedFor)' = SumFunctionOnSet(f, M)
  BY DEF Asked
<1> HIDE DEF f, M
<1> QED  BY <1>1, <1>2, <1>3, SumNat

\* Nobody asks for more by calls and rows whose amounts stay the same.
LEMMA AskedNoMore ==
    ASSUME CommissionsAssumption, RequestTypes, RequestTypes', NEW u,
           Mine(u, AskedFor)' \subseteq Mine(u, AskedFor),
           \A q \in Mine(u, AskedFor)' : request'[q].amount = request[q].amount
    PROVE  Asked(u, AskedFor)' <= Asked(u, AskedFor)
<1> DEFINE f == [q \in Requests |-> request[q].amount]
           g == [q \in Requests |-> request'[q].amount]
           M == Mine(u, AskedFor)
           N == Mine(u, AskedFor)'
<1>1. M \subseteq Requests /\ N \subseteq M
  BY DEF Mine
<1>2. /\ \A q \in M : f[q] \in Nat
      /\ \A q \in N : g[q] = f[q] /\ g[q] \in Int
  BY <1>1 DEF RequestTypes
<1>3. IsFiniteSet(M) /\ IsFiniteSet(N)
  BY <1>1, FS_Subset DEF CommissionsAssumption
<1>4. Asked(u, AskedFor) = SumFunctionOnSet(f, M) /\ Asked(u, AskedFor)' = SumFunctionOnSet(g, N)
  BY DEF Asked
<1> HIDE DEF f, g, M, N
<1>5. SumFunctionOnSet(g, N) = SumFunctionOnSet(f, N)
  BY ONLY <1>2, <1>3, SumAgree
<1>6. SumFunctionOnSet(f, N) <= SumFunctionOnSet(f, M)
  BY ONLY <1>1, <1>2, <1>3, SumSubset
<1> QED  BY <1>4, <1>5, <1>6

\* A step that leaves every amount alone and adds nothing asked for keeps
\* everyone covered.
LEMMA StillCovered ==
    ASSUME CommissionsAssumption, Inv, RequestTypes', UNCHANGED rows, raced \subseteq raced',
           \A q \in Requests : request'[q].amount = request[q].amount,
           \A q \in Requests : request'[q].at \in AskedFor => request[q].at \in AskedFor
    PROVE  Covered'
<1>1. SUFFICES ASSUME NEW u \in Accounts \ raced
               PROVE  Asked(u, AskedFor)' <= Earned(u)'
  BY DEF Covered
<1>2. Asked(u, AskedFor)' <= Asked(u, AskedFor)
  <2>1. Mine(u, AskedFor)' \subseteq Mine(u, AskedFor) /\ Mine(u, AskedFor) \subseteq Requests
    BY DEF Mine
  <2>2. RequestTypes
    BY DEF Inv
  <2> QED  BY <2>1, <2>2, AskedNoMore
<1>3. Asked(u, AskedFor) <= Earned(u) /\ Earned(u)' = Earned(u)
  BY DEF Inv, Covered, Earned
<1>4. Asked(u, AskedFor) \in Nat /\ Asked(u, AskedFor)' \in Nat /\ Earned(u) \in Nat
  <2>1. RequestTypes /\ RowTypes
    BY DEF Inv
  <2>2. Asked(u, AskedFor) \in Nat
    BY <2>1, AskedNat
  <2>3. Asked(u, AskedFor)' \in Nat
    BY AskedNatNext
  <2> QED  BY <2>1, <2>2, <2>3, EarnedNat
<1> QED  BY <1>2, <1>3, <1>4

\* Two calls that do not overlap: the second finds the first one's row, or
\* nothing in hand.
LEMMA CheckInv ==
    ASSUME CommissionsAssumption, Inv, NEW q \in Requests, CheckOpen(q)
    PROVE  RequestTypes' /\ OneAtATime' /\ Covered'
<1> DEFINE u == Requester[q]
           next == IF Mine(u, Open) = {} THEN "checked" ELSE "refused"
<1>1. /\ request[q].at = "idle" /\ u \in Accounts
      /\ request' = [request EXCEPT ![q].at = next]
      /\ raced' = IF Mine(u, Calling) = {} THEN raced ELSE raced \union {u}
      /\ UNCHANGED rows
  BY DEF CheckOpen, CommissionsAssumption
<1>2. RequestTypes /\ OneAtATime
  BY DEF Inv
<1>3. RequestTypes'
  BY <1>1, <1>2 DEF RequestTypes, Stages
<1>4. \A r \in Requests : /\ request'[r].amount = request[r].amount
                          /\ r # q => request'[r].at = request[r].at
  BY <1>1, <1>2 DEF RequestTypes
<1>5. request'[q].at = next
  BY <1>1, <1>2 DEF RequestTypes
<1>6. OneAtATime'
  <2>1. SUFFICES ASSUME NEW v \in Accounts \ raced',
                        NEW r \in Mine(v, Calling \union Open)', NEW s \in Mine(v, Calling \union Open)'
                 PROVE  r = s
    BY DEF OneAtATime
  <2>2. v \notin raced
    BY <1>1
  <2>3. CASE r # q /\ s # q
    <3>1. r \in Mine(v, Calling \union Open) /\ s \in Mine(v, Calling \union Open)
      BY <1>4, <2>3 DEF Mine
    <3> QED  BY <1>2, <2>2, <3>1 DEF OneAtATime
  <2>4. ASSUME NEW t \in Mine(v, Calling \union Open)', t # q, q \in Mine(v, Calling \union Open)'
        PROVE  FALSE
    <3>1. v = u /\ t \in Mine(u, Calling \union Open)
      BY <1>4, <2>4 DEF Mine
    <3>2. next = "checked"
      BY <1>5, <2>4 DEF Mine, Calling, Open
    <3>3. Mine(u, Open) = {} /\ Mine(u, Calling) = {}
      BY <1>1, <3>1, <3>2
    <3> QED  BY <3>1, <3>3 DEF Mine
  <2> QED  BY <2>3, <2>4
<1>7. Covered'
  <2>1. \A r \in Requests : request'[r].at \in AskedFor => request[r].at \in AskedFor
    BY <1>4, <1>5 DEF AskedFor, Open
  <2>2. raced \subseteq raced'
    BY <1>1
  <2> QED  BY <1>1, <1>3, <1>4, <2>1, <2>2, StillCovered
<1> QED  BY <1>3, <1>6, <1>7

\* A call or a row in hand moves on; nobody takes another one in hand.
LEMMA MovesOn ==
    ASSUME Inv, NEW q \in Requests, UNCHANGED raced, request[q].at \in Calling \union Open,
           \A r \in Requests \ {q} : request'[r].at = request[r].at
    PROVE  OneAtATime'
<1>1. \A u : Mine(u, Calling \union Open)' \subseteq Mine(u, Calling \union Open)
  BY DEF Mine
<1> QED  BY <1>1 DEF Inv, OneAtATime

\* What is counted is what is left of her earnings: nothing else is in hand.
LEMMA CountInv ==
    ASSUME CommissionsAssumption, Inv, NEW q \in Requests, Count(q)
    PROVE  RequestTypes' /\ OneAtATime' /\ Covered'
<1> DEFINE u == Requester[q]
           balance == Available(u)
<1>1. /\ request[q].at = "checked" /\ u \in Accounts
      /\ UNCHANGED <<rows, raced>>
      /\ request' = [request EXCEPT ![q] = IF balance >= MinPayout
                                           THEN [at |-> "counted", amount |-> balance]
                                           ELSE [@ EXCEPT !.at = "refused"]]
  BY DEF Count, CommissionsAssumption
<1>2. RequestTypes /\ OneAtATime /\ Covered /\ RowTypes
  BY DEF Inv
<1>3. Earned(u) \in Nat /\ expenses[u] \in Nat /\ MinPayout \in Nat \ {0}
  BY <1>1, <1>2, EarnedNat DEF Inv, AdminTypes, CommissionsAssumption
<1>4. /\ \A v, stages : Asked(v, stages) \in Nat
      /\ balance = Earned(u) - Asked(u, Open \union {"paid"}) - expenses[u]
  BY <1>2, AskedNat DEF Available
<1>5. balance \in Int
  BY <1>3, <1>4
<1> HIDE DEF balance
<1>6. \A r \in Requests \ {q} : request'[r] = request[r]
  BY <1>1, <1>2 DEF RequestTypes
<1>7. OneAtATime'
  BY <1>1, <1>6, MovesOn DEF Calling
<1>8. CASE balance < MinPayout
  <2>1. request'[q].at = "refused" /\ request'[q].amount = request[q].amount
        /\ request'[q] \in [at : Stages, amount : Nat]
    BY <1>1, <1>2, <1>3, <1>5, <1>8 DEF RequestTypes, Stages
  <2>2. RequestTypes'
    BY <1>1, <1>2, <1>6, <2>1 DEF RequestTypes
  <2>3. Covered'
    <3>1. /\ \A r \in Requests : request'[r].amount = request[r].amount
          /\ \A r \in Requests : request'[r].at \in AskedFor => request[r].at \in AskedFor
      BY <1>6, <2>1 DEF AskedFor, Open
    <3> QED  BY <1>1, <2>2, <3>1, StillCovered
  <2> QED  BY <1>7, <2>2, <2>3
<1>9. CASE balance >= MinPayout
  <2>1. request'[q] = [at |-> "counted", amount |-> balance] /\ balance \in Nat \ {0}
    BY <1>1, <1>2, <1>3, <1>5, <1>9 DEF RequestTypes
  <2>2. RequestTypes'
    BY <1>1, <1>2, <1>6, <2>1 DEF RequestTypes, Stages
  <2>3. Covered'
    <3>1. SUFFICES ASSUME NEW v \in Accounts \ raced
                   PROVE  Asked(v, AskedFor)' <= Earned(v)
      BY <1>1 DEF Covered, Earned
    <3>2. Asked(v, AskedFor) <= Earned(v) /\ Earned(v) \in Nat /\ Asked(v, AskedFor)' \in Nat
      <4>1. Asked(v, AskedFor)' \in Nat
        BY <2>2, AskedNatNext
      <4> QED  BY <1>2, <4>1, EarnedNat DEF Covered
    <3>3. CASE v # u
      <4>1. /\ Mine(v, AskedFor)' \subseteq Mine(v, AskedFor)
            /\ \A r \in Mine(v, AskedFor)' : request'[r].amount = request[r].amount
        BY <1>6, <3>3 DEF Mine
      <4>2. Asked(v, AskedFor)' <= Asked(v, AskedFor)
        BY <1>2, <2>2, <4>1, AskedNoMore
      <4> QED  BY <1>4, <3>2, <4>2
    <3>4. CASE v = u
      <4> DEFINE M == Mine(u, Open \union {"paid"})
                 f == [r \in Requests |-> request[r].amount]
                 g == [r \in Requests |-> request'[r].amount]
      <4>1. q \in Mine(u, Calling \union Open) /\ q \notin M
        BY <1>1 DEF Mine, Calling, Open
      <4>2. Mine(u, AskedFor)' = M \union {q}
        <5>1. ASSUME NEW r \in Requests, r # q, Requester[r] = u, request[r].at = "counted"
              PROVE  FALSE
          <6>1. r \in Mine(u, Calling \union Open)
            BY <5>1 DEF Mine, Calling
          <6> QED  BY <1>2, <3>4, <4>1, <5>1, <6>1 DEF OneAtATime
        <5> QED  BY <1>6, <2>1, <4>1, <5>1 DEF Mine, AskedFor
      <4>3. M \subseteq Requests /\ IsFiniteSet(M)
        <5>1. M \subseteq Requests
          BY DEF Mine
        <5> QED  BY <5>1, FS_Subset DEF CommissionsAssumption
      <4>4. /\ \A r \in M \union {q} : g[r] \in Int
            /\ \A r \in M : g[r] = f[r]
            /\ g[q] = balance
        <5>1. \A r \in M : r \in Requests \ {q}
          BY <4>1, <4>3
        <5>2. \A r \in M : g[r] = f[r] /\ g[r] \in Nat
          BY <1>2, <1>6, <5>1 DEF RequestTypes
        <5>3. g[q] = balance
          BY <2>1
        <5> HIDE DEF M, f, g
        <5> QED  BY <2>1, <5>2, <5>3
      <4>5. /\ Asked(u, AskedFor)' = SumFunctionOnSet(g, M \union {q})
            /\ Asked(u, Open \union {"paid"}) = SumFunctionOnSet(f, M)
        BY <4>2 DEF Asked
      <4> HIDE DEF M, f, g
      <4>6. SumFunctionOnSet(g, M \union {q}) = balance + SumFunctionOnSet(g, M)
        <5>1. SumFunctionOnSet(g, M \union {q}) = g[q] + SumFunctionOnSet(g, M)
          BY ONLY <4>1, <4>3, <4>4, SumAdd
        <5> QED  BY <4>4, <5>1
      <4>7. SumFunctionOnSet(g, M) = SumFunctionOnSet(f, M)
        BY ONLY <4>3, <4>4, SumAgree
      <4>8. Asked(u, AskedFor)' = Earned(u) - expenses[u]
        BY <1>3, <1>4, <4>5, <4>6, <4>7
      <4> QED  BY <1>3, <3>4, <4>8
    <3> QED  BY <3>3, <3>4
  <2> QED  BY <1>7, <2>2, <2>3
<1> QED  BY <1>3, <1>5, <1>8, <1>9

LEMMA DecideInv ==
    ASSUME CommissionsAssumption, Inv, NEW q \in Requests, NEW from, NEW to, Decide(q, from, to),
           from \subseteq {"counted"} \union Open, to \in {"paid", "rejected"} \union Open
    PROVE  RequestTypes' /\ OneAtATime' /\ Covered'
<1>1. /\ request[q].at \in from /\ request' = [request EXCEPT ![q].at = to]
      /\ UNCHANGED <<rows, raced>>
  BY DEF Decide
<1>2. RequestTypes
  BY DEF Inv
<1>3. RequestTypes'
  BY <1>1, <1>2 DEF RequestTypes, Stages, Open
<1>4. \A r \in Requests : /\ request'[r].amount = request[r].amount
                          /\ r # q => request'[r].at = request[r].at
  BY <1>1, <1>2 DEF RequestTypes
<1>5. OneAtATime'
  BY <1>1, <1>4, MovesOn DEF Calling
<1>6. \A r \in Requests : request'[r].at \in AskedFor => request[r].at \in AskedFor
  BY <1>1, <1>4 DEF AskedFor
<1> QED  BY <1>1, <1>3, <1>4, <1>5, <1>6, StillCovered

LEMMA PayoutInv ==
    ASSUME CommissionsAssumption, Inv, NEW q \in Requests, PayoutStep(q)
    PROVE  Inv'
<1>1. UNCHANGED <<role, owner, assigning, settled, rows, expenses, changes>>
  BY DEF PayoutStep, CheckOpen, Count, Insert, ApprovePayout, MarkPayoutPaid, RejectPayout, Decide
<1>2. AdminTypes' /\ RowTypes' /\ FullShare'
  BY <1>1, SameRows DEF Inv, AdminTypes
<1>3. CASE CheckOpen(q)
  BY <1>2, <1>3, CheckInv DEF Inv
<1>4. CASE Count(q)
  BY <1>2, <1>4, CountInv DEF Inv
<1>5. CASE Insert(q)
  BY <1>2, <1>5, DecideInv DEF Inv, Insert, Open
<1>6. CASE ApprovePayout(q)
  BY <1>2, <1>6, DecideInv DEF Inv, ApprovePayout, Open
<1>7. CASE MarkPayoutPaid(q)
  BY <1>2, <1>7, DecideInv DEF Inv, MarkPayoutPaid, Open
<1>8. CASE RejectPayout(q)
  BY <1>2, <1>8, DecideInv DEF Inv, RejectPayout, Open
<1> QED  BY <1>3, <1>4, <1>5, <1>6, <1>7, <1>8 DEF PayoutStep

-----------------------------------------------------------------------------
LEMMA StepInv ==
    ASSUME CommissionsAssumption, Inv, [CommissionNext]_commissionVars
    PROVE  Inv'
<1>1. CASE Administer \/ UNCHANGED commissionVars
  BY <1>1, AdministerInv
<1>2. ASSUME NEW d \in Deposits, SettleDeposit(d)
      PROVE  Inv'
  BY <1>2, SettleInv
<1>3. ASSUME NEW q \in Requests, PayoutStep(q)
      PROVE  Inv'
  BY <1>3, PayoutInv
<1> QED  BY <1>1, <1>2, <1>3, StepKinds

\* The invariant holds whatever the accounts, deposits and payout calls are.
THEOREM AlwaysInv == CommissionSpec => []Inv
<1>1. CommissionInit => Inv
  BY InitInv, CommissionsAssumption
<1>2. Inv /\ [CommissionNext]_commissionVars => Inv'
  BY StepInv, CommissionsAssumption
<1> QED  BY <1>1, <1>2, PTL DEF CommissionSpec

\* CommissionTypes: rows and payouts keep their types, a payout row always asks
\* for money, and the walk up from every depositor is a sequence of accounts.
THEOREM CommissionsTyped == CommissionSpec => []CommissionTypes
<1>1. Inv => CommissionTypes
  <2> SUFFICES ASSUME Inv PROVE CommissionTypes
    OBVIOUS
  <2>1. RecruitersKnown
    BY ChainKnown, CommissionsAssumption DEF RecruitersKnown
  <2>2. ASSUME NEW q \in Requests
        PROVE  IF request[q].at \in {"idle", "checked", "refused"} THEN request[q].amount = 0
               ELSE request[q].at \in Open \union {"counted", "paid", "rejected"} /\ request[q].amount > 0
    BY DEF Inv, RequestTypes, Stages
  <2> QED  BY <2>1, <2>2 DEF CommissionTypes, Inv, AdminTypes, RowTypes, RequestTypes, Roles
<1> QED  BY <1>1, AlwaysInv, PTL

\* FullShare, 0103: however many marketers are above a depositor, and whoever
\* they are, they earn 25% of her deposit together if the top of the chain does.
THEOREM SharesAddUp == CommissionSpec => []FullShare
<1>1. Inv => FullShare
  BY DEF Inv
<1> QED  BY <1>1, AlwaysInv, PTL

\* NeverOverdrawn, 0079: with any number of payout calls, deposits, expenses and
\* decisions in any order, a marketer whose calls did not overlap has one payout
\* open at most, and all she asked for or was paid is within what she earned.
THEOREM NobodyOverdraws == CommissionSpec => []NeverOverdrawn
<1>1. Inv => NeverOverdrawn
  <2> SUFFICES ASSUME Inv, NEW u \in Accounts \ raced
               PROVE  /\ Asked(u, Open \union {"paid"}) <= Earned(u)
                      /\ Cardinality(Mine(u, Open)) <= 1
    BY DEF NeverOverdrawn
  <2> DEFINE M == Mine(u, AskedFor)
             N == Mine(u, Open \union {"paid"})
             f == [q \in Requests |-> request[q].amount]
  <2>1. /\ M \subseteq Requests /\ N \subseteq M
        /\ \A q \in M : f[q] \in Nat
    BY DEF Mine, AskedFor, Inv, RequestTypes
  <2>2. Asked(u, AskedFor) = SumFunctionOnSet(f, M) /\ Asked(u, Open \union {"paid"}) = SumFunctionOnSet(f, N)
    BY DEF Asked
  <2>3. Asked(u, AskedFor) <= Earned(u) /\ Asked(u, AskedFor) \in Nat
        /\ Asked(u, Open \union {"paid"}) \in Nat /\ Earned(u) \in Nat
    BY CommissionsAssumption, AskedNat, EarnedNat DEF Inv, Covered
  <2>4. SumFunctionOnSet(f, N) <= SumFunctionOnSet(f, M)
    <3>1. IsFiniteSet(M)
      BY <2>1, CommissionsAssumption, FS_Subset DEF CommissionsAssumption
    <3> HIDE DEF M, N, f
    <3> QED  BY ONLY <2>1, <3>1, SumSubset
  <2>5. Cardinality(Mine(u, Open)) <= 1
    <3>1. \A q, r \in Mine(u, Open) : q = r
      BY DEF Inv, OneAtATime, Mine
    <3>2. CASE Mine(u, Open) = {}
      BY <3>2, FS_EmptySet
    <3>3. ASSUME NEW q \in Mine(u, Open)
          PROVE  Cardinality(Mine(u, Open)) <= 1
      <4>1. Mine(u, Open) = {q}
        BY <3>1
      <4> QED  BY <4>1, FS_Singleton
    <3> QED  BY <3>2, <3>3
  <2> QED  BY <2>2, <2>3, <2>4, <2>5
<1> QED  BY <1>1, AlwaysInv, PTL

\* DefaultEarns, 0103, docs/09: for every referral graph and every history of
\* roles and defaults, a deposit that settles pays the default marketer unless
\* it is her own, and nobody earns on a deposit of her own.
THEOREM DefaultIsPaid == CommissionSpec => DefaultEarns
<1>1. ASSUME CommissionsAssumption, Inv, [CommissionNext]_commissionVars
      PROVE  [PaysDefault]_commissionVars
  <2>1. CASE settled' = settled
    BY <2>1 DEF PaysDefault
  <2>2. ASSUME NEW d \in Deposits, SettleDeposit(d)
        PROVE  PaysDefault
    <3>1. /\ d \notin settled /\ settled' = settled \union {d}
          /\ rows' = rows \union PerkRows(d) \union MarketerRows(d, Chain(d))
      BY <2>2 DEF SettleDeposit
    <3>2. \A r \in rows' : r.deposit = d => r.to # Depositor[d]
      BY <1>1, <3>1, NewRows DEF Inv, RowTypes
    <3>3. ASSUME owner \in Accounts \ {Depositor[d]}, role[owner] = "marketer"
          PROVE  \E r \in rows' : r.deposit = d /\ r.to = owner /\ r.position > 0
      <4>1. /\ Chain(d) \in Seq(Accounts \ {Depositor[d]})
            /\ Len(Chain(d)) > 0 /\ Chain(d)[Len(Chain(d))] = owner
        BY <1>1, <3>3, ChainRooted, ChainKnown
      <4>2. \E r \in MarketerRows(d, Chain(d)) : r.deposit = d /\ r.to = owner /\ r.position > 0
        BY <4>1, RootEarns
      <4> QED  BY <3>1, <4>2
    <3> QED  BY <3>1, <3>2, <3>3 DEF PaysDefault
  <2>3. CASE ~ \E d \in Deposits : SettleDeposit(d)
    <3>1. settled' = settled
      BY <1>1, <2>3, StepKinds
         DEF Administer, PayoutStep, commissionVars, SetRole, AllowOwner, AssignOwner, ClearOwner, LogExpense,
             CheckOpen, Count, Decide, Insert, ApprovePayout, MarkPayoutPaid, RejectPayout
    <3> QED  BY <2>1, <3>1
  <2> QED  BY <2>2, <2>3
<1>2. Inv /\ [CommissionNext]_commissionVars => [PaysDefault]_commissionVars
  BY <1>1, CommissionsAssumption
<1> QED  BY <1>2, AlwaysInv, PTL DEF CommissionSpec, DefaultEarns
=============================================================================
