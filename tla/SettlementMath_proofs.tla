------------------------- MODULE SettlementMath_proofs -------------------------
(***************************************************************************)
(* Facts about sums over finite sets, and about the arithmetic of a bond   *)
(* for every leg, rate and price.                                          *)
(***************************************************************************)
EXTENDS SettlementMath, FiniteSetsExt, FiniteSetTheorems, TLAPS

-------------------------------------------------------------------------------
(***************************************************************************)
(* Sums over finite sets.  SumFunctionOnSet is defined by recursion over   *)
(* the subsets of its index set; the lemmas below are proved by looking at *)
(* a smallest subset for which they fail.                                  *)
(***************************************************************************)

\* The index the sum takes first.
FirstIndex(s) == CHOOSE x \in s : TRUE

\* g holds the sum of f over each subset of S.
PartialSums(g, f, S) ==
    g = [s \in SUBSET S |->
            IF s = {} THEN 0 ELSE f[FirstIndex(s)] + g[s \ {FirstIndex(s)}]]

\* Of a nonempty collection of subsets of a finite set, one has no proper
\* subset in it.
LEMMA SmallestSubset ==
    ASSUME NEW S, IsFiniteSet(S), NEW T \in SUBSET (SUBSET S), T # {}
    PROVE  \E s \in T : \A t \in SUBSET s : t # s => t \notin T
<1>1. IsWellFoundedOn(StrictSubsetOrdering(S), SUBSET S)
  BY FS_StrictSubsetOrderingWellFounded, FS_FiniteSubsetsOfFinite
<1>2. PICK s \in T : \A t \in T : <<t, s>> \notin StrictSubsetOrdering(S)
  BY <1>1, WFMin
<1>3. \A t \in T : t \subseteq s => t = s
  BY <1>2 DEF StrictSubsetOrdering
<1> QED
  BY <1>3

LEMMA PartialSumsValue ==
    ASSUME NEW f, NEW S, NEW g, PartialSums(g, f, S), NEW s \in SUBSET S
    PROVE  /\ s = {} => g[s] = 0
           /\ s # {} => /\ FirstIndex(s) \in s
                        /\ g[s] = f[FirstIndex(s)] + g[s \ {FirstIndex(s)}]
<1>1. g[s] = IF s = {} THEN 0 ELSE f[FirstIndex(s)] + g[s \ {FirstIndex(s)}]
  BY DEF PartialSums
<1> QED
  BY <1>1 DEF FirstIndex

\* Sums over subsets common to two index sets are the same.
LEMMA PartialSumsAgree ==
    ASSUME NEW f, NEW S, IsFiniteSet(S), NEW U \in SUBSET S, NEW V \in SUBSET S,
           NEW g, PartialSums(g, f, U), NEW h, PartialSums(h, f, V)
    PROVE  \A s \in SUBSET (U \cap V) : g[s] = h[s]
<1> DEFINE Bad == {s \in SUBSET (U \cap V) : g[s] # h[s]}
<1> SUFFICES ASSUME Bad # {} PROVE FALSE
  OBVIOUS
<1>1. PICK s \in Bad : \A t \in SUBSET s : t # s => t \notin Bad
  <2>1. Bad \in SUBSET (SUBSET S)
    OBVIOUS
  <2> HIDE DEF Bad
  <2> QED
    BY <2>1, SmallestSubset
<1>2. /\ s = {} => g[s] = 0 /\ h[s] = 0
      /\ s # {} => /\ FirstIndex(s) \in s
                   /\ g[s] = f[FirstIndex(s)] + g[s \ {FirstIndex(s)}]
                   /\ h[s] = f[FirstIndex(s)] + h[s \ {FirstIndex(s)}]
  BY PartialSumsValue
<1>3. ASSUME s # {} PROVE g[s \ {FirstIndex(s)}] = h[s \ {FirstIndex(s)}]
  BY <1>1, <1>2, <1>3
<1> QED
  BY <1>2, <1>3

\* There is such a function, so that CHOOSE finds one.
LEMMA PartialSumsExist ==
    ASSUME NEW f, NEW S, IsFiniteSet(S)
    PROVE  \A U \in SUBSET S : \E g : PartialSums(g, f, U)
<1> DEFINE Bad == {U \in SUBSET S : ~ \E g : PartialSums(g, f, U)}
<1> SUFFICES ASSUME Bad # {} PROVE FALSE
  OBVIOUS
<1>1. PICK U \in Bad : \A t \in SUBSET U : t # U => t \notin Bad
  <2>1. Bad \in SUBSET (SUBSET S)
    OBVIOUS
  <2> HIDE DEF Bad
  <2> QED
    BY <2>1, SmallestSubset
<1> DEFINE Part(u) == CHOOSE g : PartialSums(g, f, u)
           rest(t) == t \ {FirstIndex(t)}
           G == [t \in SUBSET U |->
                    IF t = {} THEN 0 ELSE f[FirstIndex(t)] + Part(rest(t))[rest(t)]]
<1>2. \A u \in SUBSET U : u # U => PartialSums(Part(u), f, u)
  BY <1>1
<1>3. ASSUME NEW t \in SUBSET U, t # {} PROVE /\ FirstIndex(t) \in t
                                              /\ rest(t) \in SUBSET U
                                              /\ rest(t) # U
  BY <1>3 DEF FirstIndex
<1>4. ASSUME NEW t \in SUBSET U, t # {} PROVE G[rest(t)] = Part(rest(t))[rest(t)]
  <2> DEFINE u == rest(t)
  <2>1. u \in SUBSET U /\ PartialSums(Part(u), f, u)
    BY <1>2, <1>3, <1>4
  <2>2. CASE u = {}
    <3>1. Part(u)[u] = 0
      BY <2>1, <2>2, PartialSumsValue
    <3> QED
      BY <3>1, <2>1, <2>2
  <2>3. CASE u # {}
    <3>1. /\ FirstIndex(u) \in u
          /\ Part(u)[u] = f[FirstIndex(u)] + Part(u)[rest(u)]
      <4>1. PICK h : h = Part(u)
        OBVIOUS
      <4>2. u \in SUBSET u /\ PartialSums(h, f, u)
        BY <2>1, <4>1
      <4> HIDE DEF u, Part
      <4>3. FirstIndex(u) \in u /\ h[u] = f[FirstIndex(u)] + h[u \ {FirstIndex(u)}]
        BY <2>3, <4>2, PartialSumsValue
      <4> QED
        BY <4>1, <4>3
    <3>2. PartialSums(Part(rest(u)), f, rest(u))
      BY <1>2, <1>3, <2>1, <2>3
    <3>3. Part(u)[rest(u)] = Part(rest(u))[rest(u)]
      <4>1. u \in SUBSET S /\ rest(u) \in SUBSET S
        BY <2>1
      <4>2. rest(u) \in SUBSET (u \cap rest(u))
        OBVIOUS
      <4> QED
        BY <4>1, <4>2, <2>1, <3>2, PartialSumsAgree
    <3> QED
      BY <3>1, <3>3, <2>1, <2>3
  <2> QED
    BY <2>2, <2>3
<1>5. PartialSums(G, f, U)
  <2> DEFINE old(t) == IF t = {} THEN 0 ELSE f[FirstIndex(t)] + Part(rest(t))[rest(t)]
             new(t) == IF t = {} THEN 0 ELSE f[FirstIndex(t)] + G[rest(t)]
  <2>1. \A t \in SUBSET U : old(t) = new(t)
    <3> HIDE DEF G, Part, rest
    <3> QED
      BY <1>4
  <2>2. G = [t \in SUBSET U |-> new(t)]
    <3>1. G = [t \in SUBSET U |-> old(t)]
      OBVIOUS
    <3> HIDE DEF G, old, new
    <3> QED
      BY <2>1, <3>1
  <2> QED
    BY <2>2 DEF PartialSums
<1> QED
  BY <1>5, <1>1

LEMMA SumIsPartial ==
    ASSUME NEW f, NEW S, IsFiniteSet(S)
    PROVE  \E g : PartialSums(g, f, S) /\ SumFunctionOnSet(f, S) = g[S]
<1> DEFINE it[s \in SUBSET S] ==
            IF s = {} THEN 0 ELSE f[FirstIndex(s)] + it[s \ {FirstIndex(s)}]
<1>1. SumFunctionOnSet(f, S) = it[S]
  BY DEF SumFunctionOnSet, FoldFunctionOnSet, MapThenFoldSet, FirstIndex
<1>2. it = CHOOSE h : PartialSums(h, f, S)
  BY DEF PartialSums
<1>3. \E h : PartialSums(h, f, S)
  BY PartialSumsExist
<1> HIDE DEF it
<1>4. PartialSums(it, f, S)
  BY <1>2, <1>3
<1> QED BY <1>1, <1>4

\* The sum over nothing, and one step of the recursion.
LEMMA SumOfNothing ==
    ASSUME NEW f PROVE SumFunctionOnSet(f, {}) = 0
<1>1. IsFiniteSet({})
  BY FS_EmptySet
<1>2. PICK g : PartialSums(g, f, {}) /\ SumFunctionOnSet(f, {}) = g[{}]
  BY <1>1, SumIsPartial
<1>3. g[{}] = 0
  BY <1>2, PartialSumsValue
<1> QED
  BY <1>2, <1>3

LEMMA SumTakesFirst ==
    ASSUME NEW f, NEW S, IsFiniteSet(S), S # {}
    PROVE  /\ FirstIndex(S) \in S
           /\ SumFunctionOnSet(f, S) = f[FirstIndex(S)] + SumFunctionOnSet(f, S \ {FirstIndex(S)})
<1>1. PICK g : PartialSums(g, f, S) /\ SumFunctionOnSet(f, S) = g[S]
  BY SumIsPartial
<1>2. FirstIndex(S) \in S /\ g[S] = f[FirstIndex(S)] + g[S \ {FirstIndex(S)}]
  BY <1>1, PartialSumsValue
<1> DEFINE R == S \ {FirstIndex(S)}
<1>3. IsFiniteSet(R)
  BY FS_Difference
<1>4. PICK h : PartialSums(h, f, R) /\ SumFunctionOnSet(f, R) = h[R]
  BY <1>3, SumIsPartial
<1>5. g[R] = h[R]
  BY <1>1, <1>4, PartialSumsAgree
<1> QED
  BY <1>1, <1>2, <1>4, <1>5

\* Sums of integers are integers.
LEMMA SumType ==
    ASSUME NEW f, NEW S, IsFiniteSet(S), \A x \in S : f[x] \in Int
    PROVE  SumFunctionOnSet(f, S) \in Int
<1> DEFINE Bad == {s \in SUBSET S : SumFunctionOnSet(f, s) \notin Int}
<1> SUFFICES ASSUME Bad # {} PROVE FALSE
  OBVIOUS
<1>1. PICK s \in Bad : \A t \in SUBSET s : t # s => t \notin Bad
  <2>1. Bad \in SUBSET (SUBSET S)
    OBVIOUS
  <2> HIDE DEF Bad
  <2> QED
    BY <2>1, SmallestSubset
<1>2. s # {}
  <2>1. s = {} => SumFunctionOnSet(f, s) = 0
    BY SumOfNothing
  <2>2. SumFunctionOnSet(f, s) \notin Int
    BY <1>1
  <2>3. 0 \in Int
    OBVIOUS
  <2> QED
    BY <2>1, <2>2, <2>3
<1>3. /\ FirstIndex(s) \in s
      /\ SumFunctionOnSet(f, s) = f[FirstIndex(s)] + SumFunctionOnSet(f, s \ {FirstIndex(s)})
  BY <1>2, SumTakesFirst, FS_Subset
<1>4. SumFunctionOnSet(f, s \ {FirstIndex(s)}) \in Int
  BY <1>1, <1>3
<1> QED
  BY <1>1, <1>3, <1>4

\* The order does not matter: any index can be taken out first.
LEMMA SumTakesAny ==
    ASSUME NEW f, NEW S, IsFiniteSet(S), \A x \in S : f[x] \in Int
    PROVE  \A x \in S : SumFunctionOnSet(f, S) = f[x] + SumFunctionOnSet(f, S \ {x})
<1> DEFINE Sum(s) == SumFunctionOnSet(f, s)
           Bad == {s \in SUBSET S : \E x \in s : Sum(s) # f[x] + Sum(s \ {x})}
<1> SUFFICES ASSUME Bad # {} PROVE FALSE
  OBVIOUS
<1>1. PICK s \in Bad : \A t \in SUBSET s : t # s => t \notin Bad
  <2>1. Bad \in SUBSET (SUBSET S)
    OBVIOUS
  <2> HIDE DEF Bad
  <2> QED
    BY <2>1, SmallestSubset
<1>2. PICK x \in s : Sum(s) # f[x] + Sum(s \ {x})
  BY <1>1
<1>0. \A t \in SUBSET s : IsFiniteSet(t) /\ Sum(t) \in Int
  BY FS_Subset, SumType
<1> DEFINE y == FirstIndex(s)
<1>3. y \in s /\ Sum(s) = f[y] + Sum(s \ {y})
  BY <1>0, SumTakesFirst
<1>4. x # y
  BY <1>2, <1>3
<1>5. Sum(s \ {y}) = f[x] + Sum((s \ {y}) \ {x})
  BY <1>1, <1>3, <1>4
<1>6. Sum(s \ {x}) = f[y] + Sum((s \ {x}) \ {y})
  BY <1>1, <1>2, <1>3, <1>4
<1>7. (s \ {y}) \ {x} = (s \ {x}) \ {y}
  OBVIOUS
<1>8. Sum((s \ {x}) \ {y}) \in Int /\ f[x] \in Int /\ f[y] \in Int
  BY <1>0, <1>3
<1>9. Sum(s) = f[x] + Sum(s \ {x})
  <2>1. Sum((s \ {y}) \ {x}) = Sum((s \ {x}) \ {y})
    BY <1>7
  <2> HIDE DEF Sum, y
  <2> QED
    BY <1>3, <1>5, <1>6, <2>1, <1>8
<1> QED
  BY <1>2, <1>9

\* A sum depends only on the values it adds up.
LEMMA SumCongruent ==
    ASSUME NEW f, NEW g, NEW S, IsFiniteSet(S), \A x \in S : f[x] = g[x]
    PROVE  SumFunctionOnSet(f, S) = SumFunctionOnSet(g, S)
<1> DEFINE Bad == {s \in SUBSET S : SumFunctionOnSet(f, s) # SumFunctionOnSet(g, s)}
<1> SUFFICES ASSUME Bad # {} PROVE FALSE
  OBVIOUS
<1>1. PICK s \in Bad : \A t \in SUBSET s : t # s => t \notin Bad
  <2>1. Bad \in SUBSET (SUBSET S)
    OBVIOUS
  <2> HIDE DEF Bad
  <2> QED
    BY <2>1, SmallestSubset
<1>2. SumFunctionOnSet(f, {}) = SumFunctionOnSet(g, {})
  BY SumOfNothing
<1>3. s # {}
  <2>1. s = {} => SumFunctionOnSet(f, s) = SumFunctionOnSet(g, s)
    BY <1>2
  <2> QED
    BY <2>1, <1>1
<1>4. /\ FirstIndex(s) \in s
      /\ SumFunctionOnSet(f, s) = f[FirstIndex(s)] + SumFunctionOnSet(f, s \ {FirstIndex(s)})
      /\ SumFunctionOnSet(g, s) = g[FirstIndex(s)] + SumFunctionOnSet(g, s \ {FirstIndex(s)})
  <2>1. IsFiniteSet(s)
    BY <1>1, FS_Subset
  <2> QED
    BY <2>1, <1>3, SumTakesFirst
<1>5. SumFunctionOnSet(f, s \ {FirstIndex(s)}) = SumFunctionOnSet(g, s \ {FirstIndex(s)})
  BY <1>1, <1>4
<1>6. f[FirstIndex(s)] = g[FirstIndex(s)]
  BY <1>1, <1>4
<1> QED
  BY <1>1, <1>4, <1>5, <1>6

\* One index more, one term more.
LEMMA SumWithOneMore ==
    ASSUME NEW f, NEW S, IsFiniteSet(S), NEW x, x \notin S,
           \A y \in S \cup {x} : f[y] \in Int
    PROVE  SumFunctionOnSet(f, S \cup {x}) = f[x] + SumFunctionOnSet(f, S)
<1>1. IsFiniteSet(S \cup {x})
  BY FS_AddElement
<1>2. (S \cup {x}) \ {x} = S
  OBVIOUS
<1> QED
  BY <1>1, <1>2, SumTakesAny

\* When one term changes, the sum changes by as much.
LEMMA SumWithOneChanged ==
    ASSUME NEW f, NEW g, NEW S, IsFiniteSet(S), NEW x \in S,
           \A y \in S : f[y] \in Int /\ g[y] \in Int,
           \A y \in S \ {x} : g[y] = f[y]
    PROVE  SumFunctionOnSet(g, S) = SumFunctionOnSet(f, S) - f[x] + g[x]
<1> DEFINE R == S \ {x}
<1>1. IsFiniteSet(R)
  BY FS_Difference
<1>2. /\ SumFunctionOnSet(f, S) = f[x] + SumFunctionOnSet(f, R)
      /\ SumFunctionOnSet(g, S) = g[x] + SumFunctionOnSet(g, R)
  BY SumTakesAny
<1>3. SumFunctionOnSet(f, R) = SumFunctionOnSet(g, R)
  BY <1>1, SumCongruent
<1>4. SumFunctionOnSet(f, R) \in Int /\ f[x] \in Int /\ g[x] \in Int
  BY <1>1, SumType
<1> HIDE DEF R
<1> QED
  BY <1>2, <1>3, <1>4

\* Larger terms, larger sum.
LEMMA SumMonotone ==
    ASSUME NEW f, NEW g, NEW S, IsFiniteSet(S),
           \A x \in S : f[x] \in Int /\ g[x] \in Int /\ f[x] <= g[x]
    PROVE  SumFunctionOnSet(f, S) <= SumFunctionOnSet(g, S)
<1> DEFINE Good(s) == SumFunctionOnSet(f, s) <= SumFunctionOnSet(g, s)
           Bad == {s \in SUBSET S : ~ Good(s)}
<1> SUFFICES ASSUME Bad # {} PROVE FALSE
  OBVIOUS
<1>1. PICK s \in Bad : \A t \in SUBSET s : t # s => t \notin Bad
  <2>1. Bad \in SUBSET (SUBSET S)
    OBVIOUS
  <2> HIDE DEF Bad
  <2> QED
    BY <2>1, SmallestSubset
<1>2. SumFunctionOnSet(f, {}) <= SumFunctionOnSet(g, {})
  BY SumOfNothing
<1>3. s # {}
  <2>1. s = {} => Good(s)
    BY <1>2
  <2> QED
    BY <2>1, <1>1
<1>4. PICK x \in s : TRUE
  BY <1>3
<1> DEFINE R == s \ {x}
<1>5. /\ SumFunctionOnSet(f, s) = f[x] + SumFunctionOnSet(f, R)
      /\ SumFunctionOnSet(g, s) = g[x] + SumFunctionOnSet(g, R)
      /\ SumFunctionOnSet(f, R) \in Int /\ SumFunctionOnSet(g, R) \in Int
  <2>1. IsFiniteSet(s) /\ IsFiniteSet(R)
    BY <1>1, FS_Subset
  <2>2. \A y \in s : f[y] \in Int /\ g[y] \in Int
    BY <1>1
  <2>3. SumFunctionOnSet(f, s) = f[x] + SumFunctionOnSet(f, R)
    BY <2>1, <2>2, SumTakesAny
  <2>4. SumFunctionOnSet(g, s) = g[x] + SumFunctionOnSet(g, R)
    BY <2>1, <2>2, SumTakesAny
  <2> QED
    BY <2>1, <2>2, <2>3, <2>4, SumType
<1>6. SumFunctionOnSet(f, R) <= SumFunctionOnSet(g, R)
  BY <1>1, <1>4
<1>7. f[x] \in Int /\ g[x] \in Int /\ f[x] <= g[x]
  BY <1>1
<1>8. Good(s)
  BY <1>5, <1>6, <1>7
<1> QED
  BY <1>1, <1>8

\* The sum of sums.
LEMMA SumOfSums ==
    ASSUME NEW f, NEW g, NEW h, NEW S, IsFiniteSet(S),
           \A x \in S : f[x] \in Int /\ g[x] \in Int /\ h[x] = f[x] + g[x]
    PROVE  SumFunctionOnSet(h, S) = SumFunctionOnSet(f, S) + SumFunctionOnSet(g, S)
<1> DEFINE Good(s) == SumFunctionOnSet(h, s) = SumFunctionOnSet(f, s) + SumFunctionOnSet(g, s)
           Bad == {s \in SUBSET S : ~ Good(s)}
<1> SUFFICES ASSUME Bad # {} PROVE FALSE
  OBVIOUS
<1>1. PICK s \in Bad : \A t \in SUBSET s : t # s => t \notin Bad
  <2>1. Bad \in SUBSET (SUBSET S)
    OBVIOUS
  <2> HIDE DEF Bad
  <2> QED
    BY <2>1, SmallestSubset
<1>2. Good({})
  BY SumOfNothing
<1>3. s # {}
  <2>1. s = {} => Good(s)
    BY <1>2
  <2> QED
    BY <2>1, <1>1
<1>4. PICK x \in s : TRUE
  BY <1>3
<1> DEFINE R == s \ {x}
<1>5. /\ SumFunctionOnSet(f, s) = f[x] + SumFunctionOnSet(f, R)
      /\ SumFunctionOnSet(g, s) = g[x] + SumFunctionOnSet(g, R)
      /\ SumFunctionOnSet(h, s) = h[x] + SumFunctionOnSet(h, R)
      /\ SumFunctionOnSet(f, R) \in Int /\ SumFunctionOnSet(g, R) \in Int
  <2>1. IsFiniteSet(s) /\ IsFiniteSet(R)
    BY <1>1, FS_Subset
  <2>2. \A y \in s : f[y] \in Int /\ g[y] \in Int /\ h[y] \in Int
    BY <1>1
  <2>3. SumFunctionOnSet(f, s) = f[x] + SumFunctionOnSet(f, R)
    BY <2>1, <2>2, SumTakesAny
  <2>4. SumFunctionOnSet(g, s) = g[x] + SumFunctionOnSet(g, R)
    BY <2>1, <2>2, SumTakesAny
  <2>5. SumFunctionOnSet(h, s) = h[x] + SumFunctionOnSet(h, R)
    BY <2>1, <2>2, SumTakesAny
  <2> QED
    BY <2>1, <2>2, <2>3, <2>4, <2>5, SumType
<1>6. SumFunctionOnSet(h, R) = SumFunctionOnSet(f, R) + SumFunctionOnSet(g, R)
  BY <1>1, <1>4
<1>7. f[x] \in Int /\ g[x] \in Int /\ h[x] = f[x] + g[x]
  BY <1>1
<1>8. Good(s)
  BY <1>5, <1>6, <1>7
<1> QED
  BY <1>1, <1>8

\* The sum of a constant.
LEMMA SumOfConstant ==
    ASSUME NEW f, NEW S, IsFiniteSet(S), NEW k \in Int, \A x \in S : f[x] = k
    PROVE  SumFunctionOnSet(f, S) = Cardinality(S) * k
<1> DEFINE Good(s) == SumFunctionOnSet(f, s) = Cardinality(s) * k
           Bad == {s \in SUBSET S : ~ Good(s)}
<1> SUFFICES ASSUME Bad # {} PROVE FALSE
  OBVIOUS
<1>1. PICK s \in Bad : \A t \in SUBSET s : t # s => t \notin Bad
  <2>1. Bad \in SUBSET (SUBSET S)
    OBVIOUS
  <2> HIDE DEF Bad
  <2> QED
    BY <2>1, SmallestSubset
<1>2. Good({})
  BY SumOfNothing, FS_EmptySet
<1>3. s # {}
  <2>1. s = {} => Good(s)
    BY <1>2
  <2> QED
    BY <2>1, <1>1
<1>4. PICK x \in s : TRUE
  BY <1>3
<1> DEFINE R == s \ {x}
<1>5. IsFiniteSet(s) /\ IsFiniteSet(R)
  BY <1>1, FS_Subset
<1>6. SumFunctionOnSet(f, s) = f[x] + SumFunctionOnSet(f, R)
  <2>1. \A y \in s : f[y] \in Int
    BY <1>1
  <2> QED
    BY <2>1, <1>5, SumTakesAny
<1>7. SumFunctionOnSet(f, R) = Cardinality(R) * k /\ f[x] = k
  BY <1>1, <1>4
<1>8. Cardinality(s) = Cardinality(R) + 1 /\ Cardinality(R) \in Nat
  <2>1. Cardinality(R) = Cardinality(s) - 1
    BY <1>5, <1>4, FS_RemoveElement
  <2>2. Cardinality(s) \in Nat /\ Cardinality(R) \in Nat
    BY <1>5, FS_CardinalityType
  <2> QED
    BY <2>1, <2>2
<1>9. Good(s)
  <2> DEFINE n == Cardinality(R)
  <2>1. (n + 1) * k = k + n * k
    BY <1>8
  <2> HIDE DEF n, R
  <2> QED
    BY <1>6, <1>7, <1>8, <2>1 DEF n
<1> QED
  BY <1>1, <1>9

-------------------------------------------------------------------------------
(* Division. *)

\* Multiplying by a positive number reflects the order.
LEMMA Cancellation ==
    ASSUME NEW a \in Int, NEW b \in Int, NEW d \in Nat \ {0}, a * d < b * d
    PROVE  a < b
<1> SUFFICES ASSUME b <= a PROVE FALSE
  OBVIOUS
<1>1. PICK k \in Nat : a = b + k
  <2>1. a - b \in Nat /\ a = b + (a - b)
    OBVIOUS
  <2> QED
    BY <2>1
<1>2. (b + k) * d = b * d + k * d
  OBVIOUS
<1>3. k * d \in Nat /\ b * d \in Int
  OBVIOUS
<1> QED
  BY <1>1, <1>2, <1>3

\* The quotient times the divisor misses less than one divisor.
LEMMA Division ==
    ASSUME NEW n \in Nat, NEW d \in Nat \ {0}
    PROVE  /\ n \div d \in Nat
           /\ (n \div d) * d <= n
           /\ n < (n \div d) * d + d
OBVIOUS

\* Truncation misses less than one divisor, on the side of zero.
LEMMA TruncDivBounds ==
    ASSUME NEW n \in Int, NEW d \in Nat \ {0}
    PROVE  /\ TruncDiv(n, d) \in Int
           /\ n >= 0 => /\ TruncDiv(n, d) >= 0
                        /\ TruncDiv(n, d) * d <= n /\ n < TruncDiv(n, d) * d + d
           /\ n < 0 => /\ TruncDiv(n, d) <= 0
                       /\ TruncDiv(n, d) * d >= n /\ n > TruncDiv(n, d) * d - d
<1>1. CASE n >= 0
  <2>1. n \in Nat /\ TruncDiv(n, d) = n \div d
    BY <1>1 DEF TruncDiv
  <2> QED
    BY <1>1, <2>1, Division
<1>2. CASE n < 0
  <2>1. PICK m \in Nat : m = -n
    BY <1>2
  <2>2. PICK q \in Nat : q = m \div d
    BY Division
  <2>3. q * d <= m /\ m < q * d + d
    BY <2>2, Division
  <2>4. TruncDiv(n, d) = -q
    BY <1>2, <2>1, <2>2 DEF TruncDiv
  <2>5. (-q) * d = -(q * d) /\ q * d \in Nat
    OBVIOUS
  <2> QED
    BY <1>2, <2>1, <2>3, <2>4, <2>5
<1> QED
  BY <1>1, <1>2

\* An average of values at most k is at most k, for k not negative.
LEMMA TruncDivAtMost ==
    ASSUME NEW n \in Int, NEW d \in Nat \ {0}, NEW k \in Nat, n <= k * d
    PROVE  TruncDiv(n, d) <= k
<1> DEFINE q == TruncDiv(n, d)
<1>1. /\ q \in Int
      /\ n >= 0 => q * d <= n
      /\ n < 0 => q <= 0
  BY TruncDivBounds
<1> HIDE DEF q
<1>2. CASE n >= 0
  <2>1. q * d \in Int /\ k * d \in Int
    BY <1>1
  <2>2. (k + 1) * d = k * d + d
    OBVIOUS
  <2>3. q * d < (k + 1) * d
    BY <1>1, <1>2, <2>1, <2>2
  <2>4. q < k + 1
    BY <1>1, <2>3, Cancellation
  <2> QED
    BY <1>1, <2>4 DEF q
<1>3. CASE n < 0
  BY <1>1, <1>3 DEF q
<1> QED
  BY <1>2, <1>3

\* An average of values at least k is at least k, for k not negative.
LEMMA TruncDivAtLeast ==
    ASSUME NEW n \in Int, NEW d \in Nat \ {0}, NEW k \in Nat, n >= k * d
    PROVE  TruncDiv(n, d) >= k
<1> DEFINE q == TruncDiv(n, d)
<1>1. k * d \in Nat
  OBVIOUS
<1>2. q \in Int /\ n < q * d + d
  BY <1>1, TruncDivBounds
<1> HIDE DEF q
<1>3. (q + 1) * d = q * d + d /\ q * d \in Int
  BY <1>2
<1>4. k * d < (q + 1) * d
  BY <1>1, <1>2, <1>3
<1>5. k < q + 1
  BY <1>2, <1>4, Cancellation
<1> QED
  BY <1>2, <1>5 DEF q

\* One divisor more moves the truncated quotient by one at most.
LEMMA TruncDivShift ==
    ASSUME NEW n \in Int, NEW d \in Nat \ {0}
    PROVE  TruncDiv(n + d, d) - TruncDiv(n, d) \in 0 .. 1
<1>1. PICK q \in Int : q = TruncDiv(n, d)
  BY TruncDivBounds
<1>2. PICK r \in Int : r = TruncDiv(n + d, d)
  BY TruncDivBounds
<1>3. /\ n >= 0 => q * d <= n /\ n < q * d + d
      /\ n < 0 => q <= 0 /\ q * d >= n /\ n > q * d - d
  BY <1>1, TruncDivBounds
<1>4. /\ n + d >= 0 => r >= 0 /\ r * d <= n + d /\ n + d < r * d + d
      /\ n + d < 0 => r * d >= n + d /\ n + d > r * d - d
  <2>1. n + d \in Int
    OBVIOUS
  <2> QED
    BY <1>2, <2>1, TruncDivBounds
<1>5. /\ q * d \in Int /\ r * d \in Int
      /\ (q + 1) * d = q * d + d /\ (q + 2) * d = q * d + 2 * d
      /\ (r + 1) * d = r * d + d /\ (q - 1) * d = q * d - d
  OBVIOUS
<1>6. CASE n >= 0
  <2>1. q * d < (r + 1) * d /\ (q + 1) * d < (r + 1) * d
    BY <1>3, <1>4, <1>5, <1>6
  <2>2. r * d < (q + 2) * d
    BY <1>3, <1>4, <1>5, <1>6
  <2>3. q + 1 < r + 1 /\ r < q + 2
    BY <2>1, <2>2, Cancellation
  <2> QED
    BY <1>1, <1>2, <2>3
<1>7. CASE n < 0 /\ n + d >= 0
  <2>1. (-2) * d = -(2 * d) /\ 1 * d = d /\ (-1) * d = -d
    OBVIOUS
  <2>2. r * d < 1 * d
    BY <1>4, <1>5, <1>7, <2>1
  <2>3. (-2) * d < q * d
    BY <1>3, <1>5, <1>7, <2>1
  <2>4. r < 1 /\ -2 < q
    BY <2>2, <2>3, Cancellation
  <2>5. r >= 0 /\ q <= 0
    BY <1>3, <1>4, <1>7
  <2> QED
    BY <1>1, <1>2, <2>4, <2>5
<1>8. CASE n + d < 0
  <2>1. r * d < (q + 2) * d
    BY <1>3, <1>4, <1>5, <1>8
  <2>2. q * d < (r + 1) * d
    BY <1>3, <1>4, <1>5, <1>8
  <2>3. r < q + 2 /\ q < r + 1
    BY <2>1, <2>2, Cancellation
  <2> QED
    BY <1>1, <1>2, <2>3
<1> QED
  BY <1>6, <1>7, <1>8

-------------------------------------------------------------------------------
(* The arithmetic of a bond. *)

\* Truncating division yields an integer.
LEMMA TruncDivType ==
    ASSUME NEW n \in Int, NEW d \in Nat \ {0}
    PROVE  TruncDiv(n, d) \in Int
BY DEF TruncDiv

\* A tick distance gives a rate, and a nonzero distance a nonzero rate.
LEMMA TickRateType ==
    ASSUME NEW n \in Nat
    PROVE  /\ TickRate(n) \in Nat
           /\ TickRate(n) = 0 <=> n = 0
BY DEF TickRate, SCALE, SCALE_DENOMINATOR

\* A larger distance never gives a smaller rate.
LEMMA TickRateMonotone ==
    ASSUME NEW m \in Nat, NEW n \in Nat, m <= n
    PROVE  TickRate(m) <= TickRate(n)
BY DEF TickRate, SCALE, SCALE_DENOMINATOR

\* The rate of a swap stays within the cap.
LEMMA EffectiveCollateralBpsType ==
    ASSUME NEW before \in Int, NEW after \in Int, NEW start \in Int
    PROVE  EffectiveCollateralBps(before, after, start) \in 0 .. MAX_BOND_BPS
<1>1. Abs(after - before) \in Nat /\ Abs(after - start) \in Nat
  BY DEF Abs
<1>2. Largest(Abs(after - before), Abs(after - start)) \in Nat
  BY <1>1 DEF Largest
<1>3. TickRate(Largest(Abs(after - before), Abs(after - start))) \in Nat
  BY <1>2, TickRateType
<1> QED
  BY <1>3 DEF EffectiveCollateralBps, Least, MAX_BOND_BPS

\* Collateral is a whole number of units, no more than a hundredth of the leg.
LEMMA CollateralOfBounds ==
    ASSUME NEW leg \in Nat, NEW bps \in 0 .. MAX_BOND_BPS
    PROVE  /\ CollateralOf(leg, bps) \in Nat
           /\ 100 * CollateralOf(leg, bps) <= leg
<1>1. leg * bps \in Nat
  BY DEF MAX_BOND_BPS
<1>2. leg * bps <= leg * 100
  BY DEF MAX_BOND_BPS
<1> QED
  BY <1>1, <1>2 DEF CollateralOf, BPS

\* The last-resort bound of _takeVariableLegBond is unreachable: a leg of BPS
\* units and a rate of one basis point leave at least one unit to take, and
\* the cap leaves most of the leg.
THEOREM CollateralWithinLeg ==
    ASSUME NEW leg \in Nat, NEW bps \in 1 .. MAX_BOND_BPS, leg >= BPS
    PROVE  CollateralOf(leg, bps) \in 1 .. leg - 1
<1>1. leg * bps >= BPS
  BY DEF MAX_BOND_BPS, BPS
<1>2. CollateralOf(leg, bps) >= 1
  BY <1>1 DEF CollateralOf, BPS, MAX_BOND_BPS
<1>3. CollateralOf(leg, bps) \in Nat /\ 100 * CollateralOf(leg, bps) <= leg
  BY CollateralOfBounds
<1> QED
  BY <1>2, <1>3

\* Nothing is created and nothing is lost by a settlement: refund and slash
\* are amounts, and together they are the collateral (split).
THEOREM SplitConserves ==
    ASSUME NEW leg \in Nat, NEW bps \in Nat, NEW slashBps \in Nat
    PROVE  LET s == Split(leg, bps, slashBps)
           IN  /\ s.collateral = CollateralOf(leg, bps)
               /\ s.slash \in Nat /\ s.refund \in Nat
               /\ s.slash + s.refund = s.collateral
<1>1. leg * bps \in Nat /\ leg * slashBps \in Nat
  OBVIOUS
<1>2. CollateralOf(leg, bps) \in Nat /\ CollateralOf(leg, slashBps) \in Nat
  BY <1>1 DEF CollateralOf, BPS
<1> DEFINE slash == Least(CollateralOf(leg, slashBps), CollateralOf(leg, bps))
<1>3. slash \in Nat /\ slash <= CollateralOf(leg, bps)
  BY <1>2 DEF Least
<1>4. Split(leg, bps, slashBps) = [collateral |-> CollateralOf(leg, bps), slash |-> slash,
                                   refund |-> CollateralOf(leg, bps) - slash]
  BY DEF Split
<1> HIDE DEF slash
<1> QED
  BY <1>2, <1>3, <1>4

\* A late window's displacement is a whole number of ticks.
LEMMA AlignedLateWindowType ==
    ASSUME NEW c \in Int, NEW d \in Int, NEW before \in Int, NEW after \in Int
    PROVE  AlignedLateWindow(c, d, before, after) \in Int
<1> DEFINE sign == IF after > before THEN 1 ELSE -1
           n    == (d - c) - LATE_WINDOW_BLOCKS * before
<1>1. LATE_WINDOW_BLOCKS \in Nat \ {0}
  BY LateWindowAssumption
<1>2. n \in Int
  BY <1>1
<1>3. sign * n \in Int
  BY <1>2
<1>4. TruncDiv(sign * n, LATE_WINDOW_BLOCKS) \in Int
  BY <1>1, <1>3, TruncDivType
<1> QED
  BY <1>4 DEF AlignedLateWindow

\* The share of the leg that is kept never exceeds the rate that was posted.
LEMMA SlashBpsWithinRate ==
    ASSUME NEW bps \in Nat, NEW r \in Nat
    PROVE  SlashBpsFor(bps, r) \in 0 .. bps
<1>1. ChargeableResidual(r) \in Nat
  BY DEF ChargeableResidual, DEAD_ZONE_TICKS
<1>2. TickRate(ChargeableResidual(r)) \in Nat
  BY <1>1, TickRateType
<1> QED
  BY <1>2 DEF SlashBpsFor, Least

LEMMA ResidualType ==
    ASSUME NEW c6 \in Int, NEW c8 \in Int, NEW c10 \in Int,
           NEW before \in Int, NEW after \in Int
    PROVE  Residual(c6, c8, c10, before, after) \in Nat
<1>1. /\ AlignedLateWindow(c6, c8, before, after) \in Int
      /\ AlignedLateWindow(c8, c10, before, after) \in Int
  BY AlignedLateWindowType
<1> QED
  BY <1>1 DEF Residual, Largest

\* Settlement divides the collateral of a bond in two, whatever the prices.
THEOREM SettlementConserves ==
    ASSUME NEW leg \in Nat, NEW bps \in Nat, NEW before \in Int, NEW after \in Int,
           NEW c6 \in Int, NEW c8 \in Int, NEW c10 \in Int
    PROVE  LET s == Settlement(leg, bps, before, after, c6, c8, c10)
           IN  /\ s.slash \in Nat /\ s.refund \in Nat
               /\ s.slash + s.refund = CollateralOf(leg, bps)
<1> DEFINE slashBps == SlashBpsFor(bps, Residual(c6, c8, c10, before, after))
<1>1. Residual(c6, c8, c10, before, after) \in Nat
  BY ResidualType
<1>2. slashBps \in 0 .. bps
  BY <1>1, SlashBpsWithinRate
<1>3. slashBps \in Nat
  BY <1>2
<1> HIDE DEF slashBps
<1>4. LET s == Split(leg, bps, slashBps)
      IN  /\ s.collateral = CollateralOf(leg, bps)
          /\ s.slash \in Nat /\ s.refund \in Nat
          /\ s.slash + s.refund = s.collateral
  BY <1>3, SplitConserves
<1> QED
  BY <1>4 DEF Settlement, slashBps
===============================================================================
