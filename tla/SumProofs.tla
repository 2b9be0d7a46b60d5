------------------------------- MODULE SumProofs -------------------------------
(***************************************************************************)
(* What the community modules' SumFunctionOnSet adds up, for finite sets.  *)
(*                                                                         *)
(* It is a fold, that is a function that picks an element of each subset   *)
(* and recurs on the rest.  The lemmas show that this recursion has one    *)
(* solution and that the pick does not matter: an element may be taken out *)
(* of a sum, added to it or replaced.  Induction is by a smallest          *)
(* counterexample, as no operator can be passed to an induction theorem.   *)
(***************************************************************************)
EXTENDS Functions, FiniteSetTheorems, TLAPS

\* The element a fold takes next.
Pick(s) == CHOOSE x \in s : TRUE

\* What the fold's recursion says of a function g over the subsets of S.
IsSum(g, f, S) ==
    g = [s \in SUBSET S |-> IF s = {} THEN 0 ELSE f[Pick(s)] + g[s \ {Pick(s)}]]

-----------------------------------------------------------------------------
\* A non-empty collection of subsets of a finite set has a smallest one.
LEMMA SmallestSubset ==
    ASSUME NEW S, IsFiniteSet(S), NEW Bad \in SUBSET (SUBSET S), Bad # {}
    PROVE  \E s \in Bad : \A t \in Bad : t \subseteq s => t = s
<1>1. IsWellFoundedOn(StrictSubsetOrdering(S), SUBSET S)
  BY FS_StrictSubsetOrderingWellFounded, FS_FiniteSubsetsOfFinite
<1>2. PICK s \in Bad : \A t \in Bad : <<t, s>> \notin StrictSubsetOrdering(S)
  BY <1>1, WFMin
<1>3. ASSUME NEW t \in Bad, t \subseteq s
      PROVE  t = s
  <2>1. t \in SUBSET S /\ s \in SUBSET S /\ <<t, s>> \notin StrictSubsetOrdering(S)
    BY <1>2
  <2> QED  BY <1>3, <2>1 DEF StrictSubsetOrdering
<1> QED  BY <1>3

\* A non-empty set of naturals has a least element.
LEMMA LeastNatural ==
    ASSUME NEW Bad \in SUBSET Nat, Bad # {}
    PROVE  \E n \in Bad : \A m \in Bad : n <= m
<1>1. IsWellFoundedOn(OpToRel(<, Nat), Nat)
  BY NatLessThanWellFounded
<1>2. PICK n \in Bad : \A m \in Bad : <<m, n>> \notin OpToRel(<, Nat)
  BY <1>1, WFMin
<1>3. ASSUME NEW m \in Bad
      PROVE  n <= m
  <2>1. m \in Nat /\ n \in Nat /\ <<m, n>> \notin OpToRel(<, Nat)
    BY <1>2
  <2> QED  BY <2>1 DEF OpToRel
<1> QED  BY <1>3

LEMMA PickIn ==
    ASSUME NEW s, s # {}
    PROVE  Pick(s) \in s
BY DEF Pick

\* The recursion has a solution: it is built for ever larger subsets.
LEMMA SumExists ==
    ASSUME NEW S, IsFiniteSet(S), NEW f
    PROVE  \E g : IsSum(g, f, S)
<1> DEFINE Small(n) == {s \in SUBSET S : Cardinality(s) <= n}
           Solves(g, n) == g = [s \in Small(n) |->
                                  IF s = {} THEN 0 ELSE f[Pick(s)] + g[s \ {Pick(s)}]]
           Bad == {n \in Nat : ~ \E g : Solves(g, n)}
<1>0. \A s \in SUBSET S : IsFiniteSet(s) /\ Cardinality(s) \in Nat
  BY FS_Subset, FS_CardinalityType
<1>1. \E g : Solves(g, 0)
  <2>1. \A s \in Small(0) : s = {}
    BY <1>0, FS_EmptySet
  <2>2. Solves([s \in Small(0) |-> 0], 0)
    BY <2>1
  <2> QED  BY <2>2
<1>2. ASSUME NEW n \in Nat, NEW g, Solves(g, n)
      PROVE  \E h : Solves(h, n + 1)
  <2> DEFINE h == [s \in Small(n + 1) |->
                     IF s = {} THEN 0 ELSE f[Pick(s)] + g[s \ {Pick(s)}]]
  <2>1. ASSUME NEW s \in Small(n + 1), s # {}
        PROVE  s \ {Pick(s)} \in Small(n)
    BY <1>0, <2>1, PickIn, FS_RemoveElement
  <2>2. ASSUME NEW t \in Small(n)
        PROVE  t \in Small(n + 1) /\ h[t] = g[t]
    <3>1. t \in SUBSET S /\ Cardinality(t) <= n /\ Cardinality(t) \in Nat
      BY <1>0
    <3>2. t \in Small(n + 1)
      BY <3>1
    <3>3. h[t] = IF t = {} THEN 0 ELSE f[Pick(t)] + g[t \ {Pick(t)}]
      BY <3>2
    <3>4. g[t] = IF t = {} THEN 0 ELSE f[Pick(t)] + g[t \ {Pick(t)}]
      BY <1>2
    <3> QED  BY <3>2, <3>3, <3>4
  <2>3. h = [s \in Small(n + 1) |->
               IF s = {} THEN 0 ELSE f[Pick(s)] + h[s \ {Pick(s)}]]
    BY <2>1, <2>2
  <2> QED  BY <2>3
<1>3. Bad = {}
  <2>1. SUFFICES ASSUME Bad # {}
                 PROVE  FALSE
    OBVIOUS
  <2>2. PICK n \in Bad : \A m \in Bad : n <= m
    BY <2>1, LeastNatural
  <2>3. n \in Nat /\ ~ \E g : Solves(g, n)
    OBVIOUS
  <2>4. n # 0
    BY <1>1, <2>3
  <2> HIDE DEF Solves
  <2>5. n - 1 \in Nat /\ (n - 1) + 1 = n
    BY <2>3, <2>4
  <2>6. n - 1 \notin Bad
    <3> HIDE DEF Bad
    <3> QED  BY <2>2, <2>5
  <2>7. PICK g : Solves(g, n - 1)
    BY <2>5, <2>6
  <2>8. \E h : Solves(h, (n - 1) + 1)
    BY <1>2, <2>5, <2>7
  <2> QED  BY <2>3, <2>5, <2>8
<1>4. Small(Cardinality(S)) = SUBSET S /\ Cardinality(S) \in Nat
  BY <1>0, FS_Subset, FS_CardinalityType
<1>5. PICK g : Solves(g, Cardinality(S))
  BY <1>3, <1>4
<1> QED  BY <1>4, <1>5 DEF IsSum

\* The recursion has one solution, whichever set it is written over.
LEMMA SumUnique ==
    ASSUME NEW S, IsFiniteSet(S), NEW T \in SUBSET S, NEW f, NEW g, NEW h,
           IsSum(g, f, S), IsSum(h, f, T)
    PROVE  g[T] = h[T]
<1> DEFINE Bad == {s \in SUBSET T : g[s] # h[s]}
<1>1. SUFFICES ASSUME Bad # {}
               PROVE  FALSE
  OBVIOUS
<1>2. IsFiniteSet(T) /\ Bad \in SUBSET (SUBSET T)
  BY FS_Subset
<1>3. PICK s \in Bad : \A t \in Bad : t \subseteq s => t = s
  <2> HIDE DEF Bad
  <2> QED  BY <1>1, <1>2, SmallestSubset
<1>4. /\ s \in SUBSET S /\ s \in SUBSET T /\ g[s] # h[s]
  OBVIOUS
<1>5. /\ g[s] = IF s = {} THEN 0 ELSE f[Pick(s)] + g[s \ {Pick(s)}]
      /\ h[s] = IF s = {} THEN 0 ELSE f[Pick(s)] + h[s \ {Pick(s)}]
  BY <1>4 DEF IsSum
<1>6. CASE s = {}
  BY <1>4, <1>5, <1>6
<1>7. CASE s # {}
  <2>1. s \ {Pick(s)} # s /\ s \ {Pick(s)} \subseteq s
    BY <1>7, PickIn
  <2>2. s \ {Pick(s)} \notin Bad
    BY <1>3, <2>1
  <2>3. g[s \ {Pick(s)}] = h[s \ {Pick(s)}]
    BY <1>4, <2>2
  <2> QED  BY <1>4, <1>5, <1>7, <2>3
<1> QED  BY <1>6, <1>7

\* A sum is what any solution says of the whole set.
LEMMA SumIs ==
    ASSUME NEW S, IsFiniteSet(S), NEW f
    PROVE  \E g : IsSum(g, f, S) /\ SumFunctionOnSet(f, S) = g[S]
<1> DEFINE g == CHOOSE h : IsSum(h, f, S)
<1>1. IsSum(g, f, S)
  BY SumExists
<1>2. SumFunctionOnSet(f, S) = g[S]
  BY DEF SumFunctionOnSet, FoldFunctionOnSet, MapThenFoldSet, IsSum, Pick
<1> QED  BY <1>1, <1>2

-----------------------------------------------------------------------------
LEMMA SumEmpty ==
    ASSUME NEW f
    PROVE  SumFunctionOnSet(f, {}) = 0
<1>1. PICK g : IsSum(g, f, {}) /\ SumFunctionOnSet(f, {}) = g[{}]
  BY SumIs, FS_EmptySet
<1> QED  BY <1>1 DEF IsSum

\* A solution over integers is an integer, of naturals a natural, everywhere.
LEMMA SolutionType ==
    ASSUME NEW S, IsFiniteSet(S), NEW f, NEW g, IsSum(g, f, S),
           NEW V, 0 \in V, \A x \in S : f[x] \in V, \A a, b \in V : a + b \in V
    PROVE  \A s \in SUBSET S : g[s] \in V
<1> DEFINE Bad == {s \in SUBSET S : g[s] \notin V}
<1>1. SUFFICES ASSUME Bad # {}
               PROVE  FALSE
  OBVIOUS
<1>2. Bad \in SUBSET (SUBSET S)
  OBVIOUS
<1>3. PICK s \in Bad : \A t \in Bad : t \subseteq s => t = s
  <2> HIDE DEF Bad
  <2> QED  BY <1>1, <1>2, SmallestSubset
<1>4. s \in SUBSET S /\ g[s] \notin V
  OBVIOUS
<1>5. g[s] = IF s = {} THEN 0 ELSE f[Pick(s)] + g[s \ {Pick(s)}]
  BY <1>4 DEF IsSum
<1>6. s # {} /\ Pick(s) \in s
  BY <1>4, <1>5, PickIn
<1>7. s \ {Pick(s)} \notin Bad
  BY <1>3, <1>6
<1>8. g[s \ {Pick(s)}] \in V /\ f[Pick(s)] \in V
  BY <1>4, <1>6, <1>7
<1> QED  BY <1>4, <1>5, <1>6, <1>8

LEMMA SumInt ==
    ASSUME NEW S, IsFiniteSet(S), NEW f, \A x \in S : f[x] \in Int
    PROVE  SumFunctionOnSet(f, S) \in Int
<1>1. PICK g : IsSum(g, f, S) /\ SumFunctionOnSet(f, S) = g[S]
  BY SumIs
<1>2. \A a, b \in Int : a + b \in Int
  OBVIOUS
<1> QED  BY <1>1, <1>2, SolutionType

LEMMA SumNat ==
    ASSUME NEW S, IsFiniteSet(S), NEW f, \A x \in S : f[x] \in Nat
    PROVE  SumFunctionOnSet(f, S) \in Nat
<1>1. PICK g : IsSum(g, f, S) /\ SumFunctionOnSet(f, S) = g[S]
  BY SumIs
<1>2. 0 \in Nat /\ \A a, b \in Nat : a + b \in Nat
  OBVIOUS
<1>3. \A s \in SUBSET S : g[s] \in Nat
  BY <1>1, <1>2, SolutionType, Zenon
<1> QED  BY <1>1, <1>3

\* Whatever the fold picks, any element may be taken out first.
LEMMA SolutionRemove ==
    ASSUME NEW S, IsFiniteSet(S), NEW f, NEW g, IsSum(g, f, S), \A x \in S : f[x] \in Int
    PROVE  \A s \in SUBSET S : \A x \in s : g[s] = f[x] + g[s \ {x}]
<1> DEFINE Bad == {s \in SUBSET S : \E x \in s : g[s] # f[x] + g[s \ {x}]}
<1>1. SUFFICES ASSUME Bad # {}
               PROVE  FALSE
  OBVIOUS
<1>2. Bad \in SUBSET (SUBSET S)
  OBVIOUS
<1>3. PICK s \in Bad : \A t \in Bad : t \subseteq s => t = s
  <2> HIDE DEF Bad
  <2> QED  BY <1>1, <1>2, SmallestSubset
<1>4. PICK x \in s : g[s] # f[x] + g[s \ {x}]
  OBVIOUS
<1> DEFINE p == Pick(s)
<1>5. s \in SUBSET S /\ p \in s
  BY <1>4, PickIn
<1>6. g[s] = f[p] + g[s \ {p}]
  BY <1>5 DEF IsSum
<1>7. p # x
  BY <1>4, <1>6
<1>8. s \ {p} \notin Bad /\ s \ {x} \notin Bad
  BY <1>3, <1>4, <1>5
<1>9. /\ g[s \ {p}] = f[x] + g[(s \ {p}) \ {x}]
      /\ g[s \ {x}] = f[p] + g[(s \ {x}) \ {p}]
  BY <1>4, <1>5, <1>7, <1>8
<1>10. g[(s \ {p}) \ {x}] = g[(s \ {x}) \ {p}]
  <2>1. (s \ {p}) \ {x} = (s \ {x}) \ {p}
    OBVIOUS
  <2> QED  BY <2>1
<1>11. /\ f[x] \in Int /\ f[p] \in Int /\ g[(s \ {x}) \ {p}] \in Int
  <2>1. \A a, b \in Int : a + b \in Int
    OBVIOUS
  <2>2. \A t \in SUBSET S : g[t] \in Int
    BY <2>1, SolutionType
  <2> QED  BY <1>4, <1>5, <2>2
<1> HIDE DEF p
<1> QED  BY <1>4, <1>6, <1>9, <1>10, <1>11

LEMMA SumRemove ==
    ASSUME NEW S, IsFiniteSet(S), NEW f, \A y \in S : f[y] \in Int, NEW x \in S
    PROVE  SumFunctionOnSet(f, S) = f[x] + SumFunctionOnSet(f, S \ {x})
<1>1. PICK g : IsSum(g, f, S) /\ SumFunctionOnSet(f, S) = g[S]
  BY SumIs
<1>2. PICK h : IsSum(h, f, S \ {x}) /\ SumFunctionOnSet(f, S \ {x}) = h[S \ {x}]
  BY SumIs, FS_Subset
<1>3. g[S \ {x}] = h[S \ {x}]
  BY <1>1, <1>2, SumUnique
<1>4. g[S] = f[x] + g[S \ {x}]
  BY <1>1, SolutionRemove
<1> QED  BY <1>1, <1>2, <1>3, <1>4

LEMMA SumAdd ==
    ASSUME NEW S, IsFiniteSet(S), NEW f, NEW x, x \notin S, \A y \in S \union {x} : f[y] \in Int
    PROVE  SumFunctionOnSet(f, S \union {x}) = f[x] + SumFunctionOnSet(f, S)
<1>1. IsFiniteSet(S \union {x}) /\ (S \union {x}) \ {x} = S
  BY FS_AddElement
<1> QED  BY <1>1, SumRemove

\* Zeros add up to zero.
LEMMA SumZero ==
    ASSUME NEW S, IsFiniteSet(S), NEW f, \A x \in S : f[x] = 0
    PROVE  SumFunctionOnSet(f, S) = 0
<1>1. PICK g : IsSum(g, f, S) /\ SumFunctionOnSet(f, S) = g[S]
  BY SumIs
<1>2. 0 \in {0} /\ (\A x \in S : f[x] \in {0}) /\ \A a, b \in {0} : a + b \in {0}
  OBVIOUS
<1>3. \A s \in SUBSET S : g[s] \in {0}
  BY <1>1, <1>2, SolutionType, Zenon
<1> QED  BY <1>1, <1>3

\* Functions that agree on a set have the same sum over it.
LEMMA SumAgree ==
    ASSUME NEW S, IsFiniteSet(S), NEW f, NEW h, \A x \in S : f[x] = h[x],
           \A x \in S : f[x] \in Int
    PROVE  SumFunctionOnSet(f, S) = SumFunctionOnSet(h, S)
<1> DEFINE Bad == {s \in SUBSET S : SumFunctionOnSet(f, s) # SumFunctionOnSet(h, s)}
<1>1. SUFFICES ASSUME Bad # {}
               PROVE  FALSE
  OBVIOUS
<1>2. Bad \in SUBSET (SUBSET S)
  OBVIOUS
<1>3. PICK s \in Bad : \A t \in Bad : t \subseteq s => t = s
  <2> HIDE DEF Bad
  <2> QED  BY <1>1, <1>2, SmallestSubset
<1>4. s \in SUBSET S /\ SumFunctionOnSet(f, s) # SumFunctionOnSet(h, s) /\ IsFiniteSet(s)
  BY FS_Subset
<1>5. PICK x \in s : TRUE
  BY <1>4, SumEmpty
<1>6. s \ {x} \notin Bad
  BY <1>3, <1>5
<1>7. SumFunctionOnSet(f, s \ {x}) = SumFunctionOnSet(h, s \ {x})
  BY <1>4, <1>6
<1>8. /\ SumFunctionOnSet(f, s) = f[x] + SumFunctionOnSet(f, s \ {x})
      /\ SumFunctionOnSet(h, s) = h[x] + SumFunctionOnSet(h, s \ {x})
  <2>1. \A y \in s : f[y] \in Int /\ h[y] \in Int
    BY <1>4
  <2> QED  BY <1>4, <1>5, <2>1, SumRemove
<1> QED  BY <1>4, <1>5, <1>7, <1>8

\* A change of one addend changes the sum by as much.
LEMMA SumUpdate ==
    ASSUME NEW S, IsFiniteSet(S), NEW f, NEW h, NEW x \in S,
           \A y \in S : f[y] \in Int /\ h[y] \in Int, \A y \in S \ {x} : h[y] = f[y]
    PROVE  SumFunctionOnSet(h, S) = SumFunctionOnSet(f, S) + h[x] - f[x]
<1>1. IsFiniteSet(S \ {x})
  BY FS_Subset
<1>2. SumFunctionOnSet(f, S \ {x}) = SumFunctionOnSet(h, S \ {x})
  BY <1>1, SumAgree
<1>3. SumFunctionOnSet(f, S \ {x}) \in Int
  BY <1>1, SumInt
<1>4. /\ SumFunctionOnSet(f, S) = f[x] + SumFunctionOnSet(f, S \ {x})
      /\ SumFunctionOnSet(h, S) = h[x] + SumFunctionOnSet(h, S \ {x})
  <2>1. /\ \A y \in S : f[y] \in Int
        /\ \A y \in S : h[y] \in Int
    OBVIOUS
  <2> QED  BY <2>1, SumRemove
<1>5. f[x] \in Int /\ h[x] \in Int
  OBVIOUS
<1> QED  BY <1>2, <1>3, <1>4, <1>5

\* A sum of naturals over more elements is no smaller.
LEMMA SumSubset ==
    ASSUME NEW S, IsFiniteSet(S), NEW R \in SUBSET S, NEW f, \A x \in S : f[x] \in Nat
    PROVE  SumFunctionOnSet(f, R) <= SumFunctionOnSet(f, S)
<1> DEFINE Bad == {s \in SUBSET S : R \subseteq s /\ ~ SumFunctionOnSet(f, R) <= SumFunctionOnSet(f, s)}
<1>1. SUFFICES ASSUME Bad # {}
               PROVE  FALSE
  OBVIOUS
<1>2. Bad \in SUBSET (SUBSET S)
  OBVIOUS
<1>3. PICK s \in Bad : \A t \in Bad : t \subseteq s => t = s
  <2> HIDE DEF Bad
  <2> QED  BY <1>1, <1>2, SmallestSubset
<1>4. /\ s \in SUBSET S /\ R \subseteq s /\ ~ SumFunctionOnSet(f, R) <= SumFunctionOnSet(f, s)
  OBVIOUS
<1>5. IsFiniteSet(s) /\ IsFiniteSet(R)
  BY <1>4, FS_Subset
<1>6. SumFunctionOnSet(f, R) \in Nat
  BY <1>5, SumNat
<1>7. PICK x \in s : x \notin R
  BY <1>4, <1>6
<1>8. s \ {x} \notin Bad
  BY <1>3, <1>7
<1>9. SumFunctionOnSet(f, R) <= SumFunctionOnSet(f, s \ {x})
  BY <1>4, <1>7, <1>8
<1>10. SumFunctionOnSet(f, s) = f[x] + SumFunctionOnSet(f, s \ {x})
  <2>1. \A y \in s : f[y] \in Int
    BY <1>4
  <2> QED  BY <1>5, <1>7, <2>1, SumRemove
<1>11. SumFunctionOnSet(f, s \ {x}) \in Nat
  <2>1. IsFiniteSet(s \ {x}) /\ \A y \in s \ {x} : f[y] \in Nat
    BY <1>4, <1>5, FS_Subset
  <2> QED  BY <2>1, SumNat
<1>12. f[x] \in Nat
  BY <1>4, <1>7
<1> QED  BY <1>4, <1>6, <1>9, <1>10, <1>11, <1>12

\* Naturals that are nowhere larger have no larger sum.
LEMMA SumMonotone ==
    ASSUME NEW S, IsFiniteSet(S), NEW f, NEW h,
           \A x \in S : f[x] \in Int /\ h[x] \in Int /\ f[x] <= h[x]
    PROVE  SumFunctionOnSet(f, S) <= SumFunctionOnSet(h, S)
<1> DEFINE Bad == {s \in SUBSET S : ~ SumFunctionOnSet(f, s) <= SumFunctionOnSet(h, s)}
<1>1. SUFFICES ASSUME Bad # {}
               PROVE  FALSE
  OBVIOUS
<1>2. Bad \in SUBSET (SUBSET S)
  OBVIOUS
<1>3. PICK s \in Bad : \A t \in Bad : t \subseteq s => t = s
  <2> HIDE DEF Bad
  <2> QED  BY <1>1, <1>2, SmallestSubset
<1>4. s \in SUBSET S /\ ~ SumFunctionOnSet(f, s) <= SumFunctionOnSet(h, s) /\ IsFiniteSet(s)
  BY FS_Subset
<1>5. s # {}
  BY <1>4, SumEmpty
<1>6. PICK x \in s : TRUE
  BY <1>5
<1>7. s \ {x} \notin Bad
  BY <1>3, <1>6
<1>8. SumFunctionOnSet(f, s \ {x}) <= SumFunctionOnSet(h, s \ {x})
  BY <1>4, <1>7
<1>9. /\ SumFunctionOnSet(f, s) = f[x] + SumFunctionOnSet(f, s \ {x})
      /\ SumFunctionOnSet(h, s) = h[x] + SumFunctionOnSet(h, s \ {x})
  <2>1. /\ \A y \in s : f[y] \in Int
        /\ \A y \in s : h[y] \in Int
    BY <1>4
  <2> QED  BY <1>4, <1>6, <2>1, SumRemove
<1>10. SumFunctionOnSet(f, s \ {x}) \in Int /\ SumFunctionOnSet(h, s \ {x}) \in Int
  <2>1. IsFiniteSet(s \ {x})
    BY <1>4, FS_Subset
  <2>2. /\ \A y \in s \ {x} : f[y] \in Int
        /\ \A y \in s \ {x} : h[y] \in Int
    BY <1>4
  <2> QED  BY <2>1, <2>2, SumInt
<1>11. f[x] \in Int /\ h[x] \in Int /\ f[x] <= h[x]
  BY <1>4, <1>6
<1> QED  BY <1>4, <1>8, <1>9, <1>10, <1>11

\* The sum of what two functions add up to, element by element.
LEMMA SumPlus ==
    ASSUME NEW S, IsFiniteSet(S), NEW f, NEW h, NEW k,
           \A x \in S : f[x] \in Int /\ h[x] \in Int /\ k[x] = f[x] + h[x]
    PROVE  SumFunctionOnSet(k, S) = SumFunctionOnSet(f, S) + SumFunctionOnSet(h, S)
<1> DEFINE Bad == {s \in SUBSET S :
              SumFunctionOnSet(k, s) # SumFunctionOnSet(f, s) + SumFunctionOnSet(h, s)}
<1>1. SUFFICES ASSUME Bad # {}
               PROVE  FALSE
  OBVIOUS
<1>2. Bad \in SUBSET (SUBSET S)
  OBVIOUS
<1>3. PICK s \in Bad : \A t \in Bad : t \subseteq s => t = s
  <2> HIDE DEF Bad
  <2> QED  BY <1>1, <1>2, SmallestSubset
<1>4. /\ s \in SUBSET S /\ IsFiniteSet(s)
      /\ SumFunctionOnSet(k, s) # SumFunctionOnSet(f, s) + SumFunctionOnSet(h, s)
  BY FS_Subset
<1>5. s # {}
  BY <1>4, SumEmpty
<1>6. PICK x \in s : TRUE
  BY <1>5
<1>7. s \ {x} \notin Bad
  BY <1>3, <1>6
<1>8. SumFunctionOnSet(k, s \ {x}) = SumFunctionOnSet(f, s \ {x}) + SumFunctionOnSet(h, s \ {x})
  BY <1>4, <1>7
<1>9. /\ SumFunctionOnSet(f, s) = f[x] + SumFunctionOnSet(f, s \ {x})
      /\ SumFunctionOnSet(h, s) = h[x] + SumFunctionOnSet(h, s \ {x})
      /\ SumFunctionOnSet(k, s) = k[x] + SumFunctionOnSet(k, s \ {x})
  <2>1. /\ \A y \in s : f[y] \in Int
        /\ \A y \in s : h[y] \in Int
        /\ \A y \in s : k[y] \in Int
    BY <1>4
  <2> QED  BY <1>4, <1>6, <2>1, SumRemove
<1>10. SumFunctionOnSet(f, s \ {x}) \in Int /\ SumFunctionOnSet(h, s \ {x}) \in Int
  <2>1. IsFiniteSet(s \ {x})
    BY <1>4, FS_Subset
  <2>2. /\ \A y \in s \ {x} : f[y] \in Int
        /\ \A y \in s \ {x} : h[y] \in Int
    BY <1>4
  <2> QED  BY <2>1, <2>2, SumInt
<1>11. f[x] \in Int /\ h[x] \in Int /\ k[x] = f[x] + h[x]
  BY <1>4, <1>6
<1> QED  BY <1>4, <1>8, <1>9, <1>10, <1>11
=============================================================================
