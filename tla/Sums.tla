--------------------------------- MODULE Sums ---------------------------------
(***************************************************************************)
(* Sums of a function over a finite set: what the proofs about ledgers     *)
(* need of SumFunctionOnSet.  The library's induction over finite sets     *)
(* takes a predicate as a parameter; here it is applied as the existence   *)
(* of a smallest counterexample.                                           *)
(***************************************************************************)
EXTENDS Integers, Functions, FiniteSetTheorems, WellFoundedInduction, TLAPS

PickOf(s) == CHOOSE x \in s : TRUE

\* g sums f over the subsets of S, one element at a time.
IsSummation(g, f, S) ==
    g = [s \in SUBSET S |-> IF s = {} THEN 0 ELSE f[PickOf(s)] + g[s \ {PickOf(s)}]]

SummationOf(f, S) == CHOOSE g : IsSummation(g, f, S)

LEMMA SumDef ==
  ASSUME NEW f, NEW S
  PROVE  SumFunctionOnSet(f, S) = SummationOf(f, S)[S]
  BY DEF SumFunctionOnSet, FoldFunctionOnSet, MapThenFoldSet, SummationOf, IsSummation, PickOf

LEMMA PickInSet == ASSUME NEW s, s # {} PROVE PickOf(s) \in s
  BY DEF PickOf

LEMMA Unfold ==
  ASSUME NEW g, NEW f, NEW S, IsSummation(g, f, S), NEW s \in SUBSET S
  PROVE  g[s] = IF s = {} THEN 0 ELSE f[PickOf(s)] + g[s \ {PickOf(s)}]
<1>1. g = [t \in SUBSET S |-> IF t = {} THEN 0 ELSE f[PickOf(t)] + g[t \ {PickOf(t)}]]
  BY DEF IsSummation
<1>2. [t \in SUBSET S |-> IF t = {} THEN 0 ELSE f[PickOf(t)] + g[t \ {PickOf(t)}]][s]
        = IF s = {} THEN 0 ELSE f[PickOf(s)] + g[s \ {PickOf(s)}]
  OBVIOUS
<1>3. QED
  BY <1>1, <1>2, Zenon

\* Every set of subsets of a finite set has a smallest member.
LEMMA SmallestSubset ==
  ASSUME NEW S, IsFiniteSet(S), NEW F, F \subseteq SUBSET S, F # {}
  PROVE  \E X \in F : \A Y \in F : ~(Y \subseteq X /\ Y # X)
<1>1. F \subseteq FiniteSubsetsOf(S)
  BY FS_Subset DEF FiniteSubsetsOf
<1>2. IsWellFoundedOn(StrictSubsetOrdering(S), FiniteSubsetsOf(S))
  BY FS_StrictSubsetOrderingWellFounded
<1>3. \E X \in F : \A Y \in F : ~(<<Y, X>> \in StrictSubsetOrdering(S))
  BY <1>1, <1>2, WFMin
<1>4. ASSUME NEW X \in F, NEW Y \in F, Y \subseteq X, Y # X
      PROVE  <<Y, X>> \in StrictSubsetOrdering(S)
  <2>1. X \in SUBSET S /\ Y \in SUBSET S
    OBVIOUS
  <2>2. QED
    BY <1>4, <2>1 DEF StrictSubsetOrdering
<1>5. QED
  BY <1>3, <1>4

\* Two summations agree where both are defined.
LEMMA SummationsAgree ==
  ASSUME NEW f, NEW g, NEW h, NEW S, NEW T, IsFiniteSet(S),
         IsSummation(g, f, S), IsSummation(h, f, T),
         NEW X, X \subseteq S, X \subseteq T
  PROVE  g[X] = h[X]
<1> DEFINE F == {Y \in SUBSET X : g[Y] # h[Y]}
<1>1. SUFFICES ASSUME F # {} PROVE FALSE
  OBVIOUS
<1>2. IsFiniteSet(X)
  BY FS_Subset
<1>3. PICK Y \in F : \A Z \in F : ~(Z \subseteq Y /\ Z # Y)
  <2>1. F \subseteq SUBSET X
    OBVIOUS
  <2> HIDE DEF F
  <2>2. QED
    BY <1>1, <1>2, <2>1, SmallestSubset
<1>4. Y \subseteq S /\ Y \subseteq T
  OBVIOUS
<1>5. /\ g[Y] = IF Y = {} THEN 0 ELSE f[PickOf(Y)] + g[Y \ {PickOf(Y)}]
      /\ h[Y] = IF Y = {} THEN 0 ELSE f[PickOf(Y)] + h[Y \ {PickOf(Y)}]
  BY <1>4, Unfold
<1>6. Y # {}
  BY <1>5
<1>7. g[Y \ {PickOf(Y)}] = h[Y \ {PickOf(Y)}]
  BY <1>3, <1>6, PickInSet
<1>8. QED
  BY <1>5, <1>6, <1>7

\* Every finite set has a summation: of the sets without one a smallest would
\* have one, put together from those of its proper subsets.
LEMMA SummationExists ==
  ASSUME NEW f, NEW S, IsFiniteSet(S)
  PROVE  \A X \in SUBSET S : IsSummation(SummationOf(f, X), f, X)
<1> DEFINE Has(X) == \E g : IsSummation(g, f, X)
           F == {X \in SUBSET S : ~Has(X)}
<1>1. ASSUME NEW X, Has(X) PROVE IsSummation(SummationOf(f, X), f, X)
  BY <1>1 DEF SummationOf
<1>2. ASSUME F # {} PROVE FALSE
  <2>1. PICK X \in F : \A Y \in F : ~(Y \subseteq X /\ Y # X)
    <3>1. F \subseteq SUBSET S
      OBVIOUS
    <3> HIDE DEF F
    <3>2. QED
      BY <1>2, <3>1, SmallestSubset
  <2>2. X \in SUBSET S /\ ~Has(X)
    OBVIOUS
  <2>3. ASSUME NEW Y \in SUBSET X, Y # X PROVE IsSummation(SummationOf(f, Y), f, Y)
    BY <1>1, <2>1, <2>2, <2>3
  <2> DEFINE Rest(t) == t \ {PickOf(t)}
             g == [t \in SUBSET X |-> IF t = {} THEN 0
                                      ELSE f[PickOf(t)] + SummationOf(f, Rest(t))[Rest(t)]]
  <2>4. ASSUME NEW t \in SUBSET X, t # {}
        PROVE  /\ Rest(t) \in SUBSET X /\ Rest(t) # X
               /\ Rest(t) \subseteq t /\ IsSummation(SummationOf(f, Rest(t)), f, Rest(t))
    BY <2>3, <2>4, PickInSet
  <2>5. ASSUME NEW t \in SUBSET X, t # {}
        PROVE  SummationOf(f, Rest(t))[Rest(t)] = g[Rest(t)]
    <3> DEFINE u == Rest(t)
    <3>1. /\ u \in SUBSET X /\ IsSummation(SummationOf(f, u), f, u)
      BY <2>4, <2>5
    <3>2. SummationOf(f, u)[u]
            = IF u = {} THEN 0 ELSE f[PickOf(u)] + SummationOf(f, u)[Rest(u)]
      <4>1. u \in SUBSET u
        OBVIOUS
      <4> HIDE DEF u
      <4>2. QED
        BY <3>1, <4>1, Unfold
    <3>3. CASE u = {}
      BY <3>1, <3>2, <3>3
    <3>4. CASE u # {}
      <4>1. /\ Rest(u) \subseteq u
            /\ IsSummation(SummationOf(f, Rest(u)), f, Rest(u))
        BY <2>4, <3>1, <3>4
      <4>2. IsFiniteSet(u)
        BY <2>2, <3>1, FS_Subset
      <4>3. SummationOf(f, u)[Rest(u)] = SummationOf(f, Rest(u))[Rest(u)]
        <5> HIDE DEF Rest
        <5>1. QED
          BY <3>1, <4>1, <4>2, SummationsAgree
      <4>4. QED
        BY <3>1, <3>2, <3>4, <4>3
    <3>5. QED
      BY <3>3, <3>4
  <2>6. g = [t \in SUBSET X |-> IF t = {} THEN 0 ELSE f[PickOf(t)] + g[t \ {PickOf(t)}]]
    BY <2>5
  <2>7. IsSummation(g, f, X)
    BY <2>6 DEF IsSummation
  <2>8. QED
    BY <2>2, <2>7
<1>3. QED
  BY <1>1, <1>2

LEMMA SumOfSubset ==
  ASSUME NEW f, NEW S, IsFiniteSet(S), NEW X \in SUBSET S
  PROVE  SumFunctionOnSet(f, X) = SummationOf(f, S)[X]
<1>1. IsSummation(SummationOf(f, S), f, S) /\ IsSummation(SummationOf(f, X), f, X)
  BY SummationExists
<1>2. QED
  BY <1>1, SumDef, SummationsAgree

LEMMA SumEmpty == ASSUME NEW f PROVE SumFunctionOnSet(f, {}) = 0
<1>1. IsFiniteSet({})
  BY FS_EmptySet
<1>2. IsSummation(SummationOf(f, {}), f, {})
  BY <1>1, SummationExists
<1>3. QED
  BY <1>2, SumDef, Unfold

LEMMA SumPick ==
  ASSUME NEW f, NEW S, IsFiniteSet(S), S # {}
  PROVE  SumFunctionOnSet(f, S) = f[PickOf(S)] + SumFunctionOnSet(f, S \ {PickOf(S)})
<1>1. IsSummation(SummationOf(f, S), f, S)
  BY SummationExists
<1>2. SummationOf(f, S)[S] = f[PickOf(S)] + SummationOf(f, S)[S \ {PickOf(S)}]
  BY <1>1, Unfold
<1>3. QED
  BY <1>2, SumOfSubset

LEMMA SumIsInt ==
  ASSUME NEW f, NEW S, IsFiniteSet(S), \A x \in S : f[x] \in Int
  PROVE  \A X \in SUBSET S : SumFunctionOnSet(f, X) \in Int
<1> DEFINE F == {X \in SUBSET S : SumFunctionOnSet(f, X) \notin Int}
<1>1. ASSUME F # {} PROVE FALSE
  <2>1. PICK X \in F : \A Y \in F : ~(Y \subseteq X /\ Y # X)
    <3>1. F \subseteq SUBSET S
      OBVIOUS
    <3> HIDE DEF F
    <3>2. QED
      BY <1>1, <3>1, SmallestSubset
  <2>2. IsFiniteSet(X) /\ X # {}
    <3>1. X \in SUBSET S /\ SumFunctionOnSet(f, X) \notin Int
      OBVIOUS
    <3>2. SumFunctionOnSet(f, {}) \in Int
      BY SumEmpty
    <3>3. IsFiniteSet(X)
      BY <3>1, FS_Subset
    <3> HIDE DEF F
    <3>4. QED
      BY <3>1, <3>2, <3>3
  <2>3. PickOf(X) \in X
    BY <2>2, PickInSet
  <2>4. SumFunctionOnSet(f, X \ {PickOf(X)}) \in Int
    BY <2>1, <2>3
  <2>5. QED
    BY <2>2, <2>3, <2>4, SumPick
<1>2. QED
  BY <1>1

LEMMA SumIsNat ==
  ASSUME NEW f, NEW S, IsFiniteSet(S), \A x \in S : f[x] \in Nat
  PROVE  \A X \in SUBSET S : SumFunctionOnSet(f, X) \in Nat
<1> DEFINE F == {X \in SUBSET S : SumFunctionOnSet(f, X) \notin Nat}
<1>1. ASSUME F # {} PROVE FALSE
  <2>1. PICK X \in F : \A Y \in F : ~(Y \subseteq X /\ Y # X)
    <3>1. F \subseteq SUBSET S
      OBVIOUS
    <3> HIDE DEF F
    <3>2. QED
      BY <1>1, <3>1, SmallestSubset
  <2>2. IsFiniteSet(X) /\ X # {}
    <3>1. X \in SUBSET S /\ SumFunctionOnSet(f, X) \notin Nat
      OBVIOUS
    <3>2. SumFunctionOnSet(f, {}) \in Nat
      BY SumEmpty
    <3>3. IsFiniteSet(X)
      BY <3>1, FS_Subset
    <3> HIDE DEF F
    <3>4. QED
      BY <3>1, <3>2, <3>3
  <2>3. PickOf(X) \in X
    BY <2>2, PickInSet
  <2>4. SumFunctionOnSet(f, X \ {PickOf(X)}) \in Nat
    BY <2>1, <2>3
  <2>5. QED
    BY <2>2, <2>3, <2>4, SumPick
<1>2. QED
  BY <1>1

\* Any element may be the one that is taken out first.
LEMMA SumRemove ==
  ASSUME NEW f, NEW S, IsFiniteSet(S), \A x \in S : f[x] \in Int, NEW a \in S
  PROVE  SumFunctionOnSet(f, S) = f[a] + SumFunctionOnSet(f, S \ {a})
<1> DEFINE Splits(X, x) == SumFunctionOnSet(f, X) = f[x] + SumFunctionOnSet(f, X \ {x})
           F == {X \in SUBSET S : \E x \in X : ~Splits(X, x)}
<1>1. ASSUME F # {} PROVE FALSE
  <2>1. PICK X \in F : \A Y \in F : ~(Y \subseteq X /\ Y # X)
    <3>1. F \subseteq SUBSET S
      OBVIOUS
    <3> HIDE DEF F
    <3>2. QED
      BY <1>1, <3>1, SmallestSubset
  <2>2. PICK x \in X : ~Splits(X, x)
    OBVIOUS
  <2> DEFINE p == PickOf(X)
             rest == SumFunctionOnSet(f, X \ {p, x})
  <2>3. IsFiniteSet(X) /\ p \in X /\ X \subseteq S
    BY FS_Subset, PickInSet
  <2>4. SumFunctionOnSet(f, X) = f[p] + SumFunctionOnSet(f, X \ {p})
    BY <2>2, <2>3, SumPick
  <2>5. p # x
    BY <2>2, <2>4
  <2>6. ASSUME NEW Y, Y \subseteq X, Y # X, NEW y \in Y
        PROVE  SumFunctionOnSet(f, Y) = f[y] + SumFunctionOnSet(f, Y \ {y})
    <3>1. Y \notin F /\ Y \in SUBSET S
      BY <2>1, <2>3, <2>6
    <3>2. QED
      BY <2>6, <3>1
  <2>7. SumFunctionOnSet(f, X \ {p}) = f[x] + rest
    <3>1. X \ {p} \subseteq X /\ X \ {p} # X /\ x \in X \ {p} /\ (X \ {p}) \ {x} = X \ {p, x}
      BY <2>3, <2>5
    <3>2. QED
      BY <2>6, <3>1
  <2>8. SumFunctionOnSet(f, X \ {x}) = f[p] + rest
    <3>1. X \ {x} \subseteq X /\ X \ {x} # X /\ p \in X \ {x} /\ (X \ {x}) \ {p} = X \ {p, x}
      BY <2>3, <2>5
    <3>2. QED
      BY <2>6, <3>1
  <2>9. f[p] \in Int /\ f[x] \in Int /\ rest \in Int
    BY <2>3, SumIsInt
  <2>10. QED
    BY <2>2, <2>4, <2>7, <2>8, <2>9
<1>2. QED
  BY <1>1

LEMMA SumSame ==
  ASSUME NEW f, NEW g, NEW S, IsFiniteSet(S), \A x \in S : f[x] = g[x]
  PROVE  SumFunctionOnSet(f, S) = SumFunctionOnSet(g, S)
<1> DEFINE F == {X \in SUBSET S : SumFunctionOnSet(f, X) # SumFunctionOnSet(g, X)}
<1>1. ASSUME F # {} PROVE FALSE
  <2>1. PICK X \in F : \A Y \in F : ~(Y \subseteq X /\ Y # X)
    <3>1. F \subseteq SUBSET S
      OBVIOUS
    <3> HIDE DEF F
    <3>2. QED
      BY <1>1, <3>1, SmallestSubset
  <2>2. IsFiniteSet(X) /\ X # {}
    <3>1. SumFunctionOnSet(f, {}) = 0 /\ SumFunctionOnSet(g, {}) = 0
      BY SumEmpty
    <3>2. X \in SUBSET S /\ SumFunctionOnSet(f, X) # SumFunctionOnSet(g, X)
      OBVIOUS
    <3>3. QED
      BY <3>1, <3>2, FS_Subset
  <2>3. PickOf(X) \in X
    BY <2>2, PickInSet
  <2>4. SumFunctionOnSet(f, X \ {PickOf(X)}) = SumFunctionOnSet(g, X \ {PickOf(X)})
    BY <2>1, <2>3
  <2>5. /\ SumFunctionOnSet(f, X) = f[PickOf(X)] + SumFunctionOnSet(f, X \ {PickOf(X)})
        /\ SumFunctionOnSet(g, X) = g[PickOf(X)] + SumFunctionOnSet(g, X \ {PickOf(X)})
    BY <2>2, SumPick
  <2>6. QED
    BY <2>3, <2>4, <2>5
<1>2. S \notin F
  BY <1>1
<1>3. QED
  BY <1>2

LEMMA SumZero ==
  ASSUME NEW f, NEW S, IsFiniteSet(S), \A x \in S : f[x] = 0
  PROVE  SumFunctionOnSet(f, S) = 0
<1> DEFINE F == {X \in SUBSET S : SumFunctionOnSet(f, X) # 0}
<1>1. ASSUME F # {} PROVE FALSE
  <2>1. PICK X \in F : \A Y \in F : ~(Y \subseteq X /\ Y # X)
    <3>1. F \subseteq SUBSET S
      OBVIOUS
    <3> HIDE DEF F
    <3>2. QED
      BY <1>1, <3>1, SmallestSubset
  <2>2. IsFiniteSet(X) /\ X # {}
    BY SumEmpty, FS_Subset
  <2>3. PickOf(X) \in X
    BY <2>2, PickInSet
  <2>4. SumFunctionOnSet(f, X \ {PickOf(X)}) = 0
    BY <2>1, <2>3
  <2>5. SumFunctionOnSet(f, X) = f[PickOf(X)] + SumFunctionOnSet(f, X \ {PickOf(X)})
    BY <2>2, SumPick
  <2>6. QED
    BY <2>3, <2>4, <2>5
<1>2. S \notin F
  BY <1>1
<1>3. QED
  BY <1>2

\* When one term changes the sum changes by as much.
LEMMA SumUpdate ==
  ASSUME NEW f, NEW g, NEW S, IsFiniteSet(S), NEW a \in S,
         \A x \in S : f[x] \in Int /\ g[x] \in Int,
         \A x \in S \ {a} : f[x] = g[x]
  PROVE  /\ SumFunctionOnSet(f, S) \in Int
         /\ SumFunctionOnSet(g, S) = SumFunctionOnSet(f, S) - f[a] + g[a]
<1>1. IsFiniteSet(S \ {a})
  BY FS_RemoveElement
<1>2. SumFunctionOnSet(f, S \ {a}) = SumFunctionOnSet(g, S \ {a})
  BY <1>1, SumSame
<1>3. SumFunctionOnSet(f, S) = f[a] + SumFunctionOnSet(f, S \ {a})
  BY SumRemove
<1>4. SumFunctionOnSet(g, S) = g[a] + SumFunctionOnSet(g, S \ {a})
  BY SumRemove
<1>5. SumFunctionOnSet(f, S \ {a}) \in Int /\ SumFunctionOnSet(f, S) \in Int
  BY SumIsInt
<1>6. QED
  BY <1>2, <1>3, <1>4, <1>5

\* The same, where the term that changes need not be in the sum.
LEMMA SumMoves ==
  ASSUME NEW f, NEW g, NEW S, IsFiniteSet(S), NEW a,
         \A x \in S : f[x] \in Int /\ g[x] \in Int,
         \A x \in S \ {a} : f[x] = g[x]
  PROVE  /\ SumFunctionOnSet(f, S) \in Int
         /\ SumFunctionOnSet(g, S)
                = SumFunctionOnSet(f, S) + (IF a \in S THEN g[a] - f[a] ELSE 0)
<1>1. CASE a \in S
  <2>1. /\ SumFunctionOnSet(f, S) \in Int
        /\ SumFunctionOnSet(g, S) = SumFunctionOnSet(f, S) - f[a] + g[a]
    BY <1>1, SumUpdate
  <2>2. QED
    BY <1>1, <2>1
<1>2. CASE a \notin S
  <2>1. SumFunctionOnSet(f, S) = SumFunctionOnSet(g, S)
    BY <1>2, SumSame
  <2>2. SumFunctionOnSet(f, S) \in Int
    BY SumIsInt
  <2>3. QED
    BY <1>2, <2>1, <2>2
<1>3. QED
  BY <1>1, <1>2

\* No term of a sum of naturals exceeds it.
LEMMA SumBounds ==
  ASSUME NEW f, NEW S, IsFiniteSet(S), \A x \in S : f[x] \in Nat, NEW a \in S
  PROVE  f[a] <= SumFunctionOnSet(f, S)
<1>1. SumFunctionOnSet(f, S) = f[a] + SumFunctionOnSet(f, S \ {a})
  BY SumRemove
<1>2. SumFunctionOnSet(f, S \ {a}) \in Nat /\ f[a] \in Nat
  BY SumIsNat
<1>3. QED
  BY <1>1, <1>2

\* A sum of natural numbers grows with its set.
LEMMA SumGrows ==
  ASSUME NEW f, NEW S, IsFiniteSet(S), \A x \in S : f[x] \in Nat, NEW T \in SUBSET S
  PROVE  SumFunctionOnSet(f, T) <= SumFunctionOnSet(f, S)
<1> DEFINE F == {X \in SUBSET S : T \subseteq X /\ ~(SumFunctionOnSet(f, T) <= SumFunctionOnSet(f, X))}
<1>1. \A X \in SUBSET S : SumFunctionOnSet(f, X) \in Nat
  BY SumIsNat
<1>2. ASSUME F # {} PROVE FALSE
  <2>1. PICK X \in F : \A Y \in F : ~(Y \subseteq X /\ Y # X)
    <3>1. F \subseteq SUBSET S
      OBVIOUS
    <3> HIDE DEF F
    <3> QED
      BY <1>2, <3>1, SmallestSubset
  <2>2. X \in SUBSET S /\ T \subseteq X /\ ~(SumFunctionOnSet(f, T) <= SumFunctionOnSet(f, X))
    OBVIOUS
  <2>3. X # T
    BY <1>1, <2>2
  <2>4. PICK a \in X : a \notin T
    BY <2>2, <2>3
  <2>5. SumFunctionOnSet(f, T) <= SumFunctionOnSet(f, X \ {a})
    BY <2>1, <2>2, <2>4
  <2>6. SumFunctionOnSet(f, X) = f[a] + SumFunctionOnSet(f, X \ {a})
    <3>1. IsFiniteSet(X) /\ \A x \in X : f[x] \in Int
      BY <2>2, FS_Subset
    <3> QED
      BY <2>4, <3>1, SumRemove
  <2>7. /\ SumFunctionOnSet(f, T) \in Nat /\ SumFunctionOnSet(f, X \ {a}) \in Nat
        /\ f[a] \in Nat
    BY <1>1, <2>2, <2>4
  <2> QED
    BY <2>2, <2>5, <2>6, <2>7
<1>3. S \notin F
  BY <1>2
<1> QED
  BY <1>3

\* A sum does not care how its terms are named.
LEMMA SumRenamed ==
  ASSUME NEW f, NEW S, IsFiniteSet(S), \A x \in S : f[x] \in Int,
         NEW g, NEW T, IsFiniteSet(T), \A x \in T : g[x] \in Int, NEW h \in [S -> T],
         \A x \in S : g[h[x]] = f[x], \A x, y \in S : h[x] = h[y] => x = y,
         \A y \in T : \E x \in S : h[x] = y
  PROVE  SumFunctionOnSet(f, S) = SumFunctionOnSet(g, T)
<1> DEFINE Image(X) == {h[x] : x \in X}
           F == {X \in SUBSET S : SumFunctionOnSet(f, X) # SumFunctionOnSet(g, Image(X))}
<1>1. ASSUME F # {} PROVE FALSE
  <2>1. PICK X \in F : \A Y \in F : ~(Y \subseteq X /\ Y # X)
    <3>1. F \subseteq SUBSET S
      OBVIOUS
    <3> HIDE DEF F
    <3> QED
      BY <1>1, <3>1, SmallestSubset
  <2>2. X \in SUBSET S /\ SumFunctionOnSet(f, X) # SumFunctionOnSet(g, Image(X))
    OBVIOUS
  <2>3. X # {}
    <3>1. Image({}) = {}
      OBVIOUS
    <3> QED
      BY <2>2, <3>1, SumEmpty
  <2>4. PICK a \in X : TRUE
    BY <2>3
  <2>5. SumFunctionOnSet(f, X \ {a}) = SumFunctionOnSet(g, Image(X \ {a}))
    BY <2>1, <2>2, <2>4
  <2>6. Image(X \ {a}) = Image(X) \ {h[a]} /\ h[a] \in Image(X)
    BY <2>2, <2>4
  <2>7. SumFunctionOnSet(f, X) = f[a] + SumFunctionOnSet(f, X \ {a})
    <3>1. IsFiniteSet(X) /\ \A x \in X : f[x] \in Int
      BY <2>2, FS_Subset
    <3> QED
      BY <2>4, <3>1, SumRemove
  <2>8. SumFunctionOnSet(g, Image(X)) = g[h[a]] + SumFunctionOnSet(g, Image(X) \ {h[a]})
    <3>1. Image(X) \subseteq T
      BY <2>2
    <3>2. IsFiniteSet(Image(X)) /\ \A x \in Image(X) : g[x] \in Int
      BY <3>1, FS_Subset
    <3> HIDE DEF Image
    <3> QED
      BY <2>6, <3>2, SumRemove
  <2>9. g[h[a]] = f[a]
    BY <2>2, <2>4
  <2> QED
    BY <2>2, <2>5, <2>6, <2>7, <2>8, <2>9
<1>2. S \notin F
  BY <1>1
<1>3. Image(S) = T
  OBVIOUS
<1> HIDE DEF Image
<1> QED
  BY <1>2, <1>3
=============================================================================
