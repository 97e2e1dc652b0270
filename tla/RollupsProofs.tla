---------------------------- MODULE RollupsProofs ----------------------------
(***************************************************************************)
(* Proofs about the rollups, for any number of overlapping runs, any day   *)
(* length, window and retention.  The first part derives what is needed    *)
(* about sums over finite sets from the recursion that defines them; the   *)
(* rest are invariants of the runs, of the rows of an hour, and of the     *)
(* rows of a day.                                                          *)
(***************************************************************************)
EXTENDS Dashboard, FiniteSetTheorems, SequenceTheorems, WellFoundedInduction, TLAPS

-----------------------------------------------------------------------------
(* Sums over finite sets *)

\* Every set of natural numbers has a least element: induction, as a fact about
\* sets, which the provers can use.
LEMMA LeastElement ==
  ASSUME NEW T, T \subseteq Nat, T # {}
  PROVE  \E x \in T : \A y \in T : x <= y
<1> DEFINE Less == {ss \in Nat \X Nat : ss[1] < ss[2]}
<1>1. IsWellFoundedOn(Less, Nat)
  <2>1. Less = OpToRel(<, Nat)
    BY Zenon DEF OpToRel
  <2> HIDE DEF Less
  <2> QED BY <2>1, NatLessThanWellFounded, Zenon
<1>2. PICK x \in T : \A y \in T : ~ (<<y, x>> \in Less)
  <2> HIDE DEF Less
  <2> QED BY <1>1, WFMin
<1>3. ASSUME NEW y \in T PROVE x <= y
  <2>1. x \in Nat /\ y \in Nat /\ <<y, x>> \notin Less
    BY <1>2
  <2> QED BY <2>1
<1> QED BY <1>3

\* A set that holds 0 and with n also n + 1 holds every natural number.
LEMMA ByInduction ==
  ASSUME NEW G, 0 \in G, \A n \in Nat : n \in G => n + 1 \in G
  PROVE  Nat \subseteq G
<1> SUFFICES ASSUME NEW m \in Nat, m \notin G PROVE FALSE
  OBVIOUS
<1> DEFINE T == {n \in Nat : n \notin G}
<1>1. PICK x \in T : \A y \in T : x <= y
  BY LeastElement
<1>2. x # 0 /\ x - 1 \in Nat /\ x - 1 \notin T
  BY <1>1
<1> QED BY <1>2

\* The element a fold takes next, and the equation of the fold's own recursion.
Pick(s) == CHOOSE x \in s : TRUE
Body(f, g, s) == IF s = {} THEN 0 ELSE f[Pick(s)] + g[s \ {Pick(s)}]
Recursion(f, S, g) == g = [s \in SUBSET S |-> Body(f, g, s)]

NatOn(f, S) == \A x \in S : f[x] \in Nat

LEMMA PickIn == ASSUME NEW s, s # {} PROVE Pick(s) \in s
BY DEF Pick

\* Removing the element that is taken leaves one element less.
LEMMA OneLess ==
  ASSUME NEW S, IsFiniteSet(S), NEW s \in SUBSET S, NEW x \in s
  PROVE  /\ s \ {x} \in SUBSET S /\ IsFiniteSet(s)
         /\ Cardinality(s) \in Nat /\ Cardinality(s \ {x}) \in Nat
         /\ Cardinality(s) = Cardinality(s \ {x}) + 1
<1>1. IsFiniteSet(s)
  BY FS_Subset
<1>2. Cardinality(s) \in Nat /\ IsFiniteSet(s \ {x}) /\ Cardinality(s \ {x}) = Cardinality(s) - 1
  BY <1>1, FS_RemoveElement, FS_CardinalityType
<1>3. Cardinality(s \ {x}) \in Nat
  BY <1>2, FS_CardinalityType
<1> QED BY <1>1, <1>2, <1>3

\* The equation of a sum over a finite set has a solution.
LEMMA RecursionExists ==
  ASSUME NEW f, NEW S, IsFiniteSet(S), NatOn(f, S)
  PROVE  \E g \in [SUBSET S -> Nat] : Recursion(f, S, g)
<1> DEFINE UpTo(n, g) == \A s \in SUBSET S : Cardinality(s) <= n => g[s] = Body(f, g, s)
           G == {n \in Nat : \E g \in [SUBSET S -> Nat] : UpTo(n, g)}
<1>0. \A s \in SUBSET S : IsFiniteSet(s) /\ Cardinality(s) \in Nat
  BY FS_Subset, FS_CardinalityType
<1>1. 0 \in G
  <2> DEFINE z == [s \in SUBSET S |-> 0]
  <2>1. z \in [SUBSET S -> Nat]
    OBVIOUS
  <2>2. ASSUME NEW s \in SUBSET S, Cardinality(s) <= 0 PROVE z[s] = Body(f, z, s)
    <3>1. Cardinality(s) = 0
      BY <1>0, <2>2
    <3>2. s = {}
      BY <1>0, <3>1, FS_EmptySet
    <3> QED BY <3>2 DEF Body
  <2>3. UpTo(0, z)
    BY <2>2
  <2> HIDE DEF z
  <2> QED BY <2>1, <2>3
<1>2. ASSUME NEW n \in Nat, n \in G PROVE n + 1 \in G
  <2>1. PICK g \in [SUBSET S -> Nat] : UpTo(n, g)
    BY <1>2
  <2> DEFINE gg == [s \in SUBSET S |-> IF Cardinality(s) <= n THEN g[s] ELSE Body(f, g, s)]
  <2>2. ASSUME NEW s \in SUBSET S PROVE Body(f, g, s) \in Nat
    <3>1. CASE s = {}
      BY <3>1 DEF Body
    <3>2. CASE s # {}
      <4>1. Pick(s) \in S /\ s \ {Pick(s)} \in SUBSET S
        BY <3>2, PickIn
      <4> QED BY <3>2, <4>1 DEF Body, NatOn
    <3> QED BY <3>1, <3>2
  <2>3. gg \in [SUBSET S -> Nat]
    BY <2>2
  <2>4. ASSUME NEW s \in SUBSET S, Cardinality(s) <= n + 1 PROVE gg[s] = Body(f, gg, s)
    <3>1. gg[s] = Body(f, g, s)
      BY <2>1
    <3>2. CASE s = {}
      BY <3>1, <3>2 DEF Body
    <3>3. CASE s # {}
      <4> DEFINE t == s \ {Pick(s)}
      <4>1. t \in SUBSET S /\ Cardinality(t) <= n
        <5>1. Pick(s) \in s
          BY <3>3, PickIn
        <5>2. Cardinality(s) = Cardinality(t) + 1 /\ Cardinality(t) \in Nat /\ t \in SUBSET S
          BY <5>1, OneLess
        <5> HIDE DEF t
        <5> QED BY <1>0, <2>4, <5>2
      <4>2. gg[t] = g[t]
        BY <4>1
      <4> QED BY <3>1, <3>3, <4>2 DEF Body
    <3> QED BY <3>2, <3>3
  <2>5. UpTo(n + 1, gg)
    BY <2>4
  <2> HIDE DEF gg
  <2> QED BY <2>3, <2>5
<1>3. Cardinality(S) \in G
  <2>1. Nat \subseteq G
    <3> HIDE DEF G
    <3> QED BY <1>1, <1>2, ByInduction
  <2> QED BY <1>0, <2>1
<1>4. PICK g \in [SUBSET S -> Nat] : UpTo(Cardinality(S), g)
  BY <1>3
<1>5. \A s \in SUBSET S : Cardinality(s) <= Cardinality(S)
  BY FS_Subset
<1>6. \A s \in SUBSET S : g[s] = Body(f, g, s)
  BY <1>4, <1>5
<1>7. Recursion(f, S, g)
  BY <1>4, <1>6 DEF Recursion
<1> QED BY <1>7

\* Two such recursions agree where their functions do.
LEMMA RecursionUnique ==
  ASSUME NEW f, NEW S, NEW g, Recursion(f, S, g),
         NEW e, NEW T, NEW h, Recursion(e, T, h),
         IsFiniteSet(T), T \subseteq S, \A x \in T : f[x] = e[x]
  PROVE  \A s \in SUBSET T : g[s] = h[s]
<1> DEFINE G == {n \in Nat : \A s \in SUBSET T : Cardinality(s) = n => g[s] = h[s]}
<1>0. \A s \in SUBSET T : /\ IsFiniteSet(s) /\ Cardinality(s) \in Nat
                          /\ g[s] = Body(f, g, s) /\ h[s] = Body(e, h, s)
  <2>1. \A s \in SUBSET T : IsFiniteSet(s) /\ Cardinality(s) \in Nat
    BY FS_Subset, FS_CardinalityType
  <2>2. \A s \in SUBSET S : g[s] = Body(f, g, s)
    BY DEF Recursion
  <2>3. \A s \in SUBSET T : h[s] = Body(e, h, s)
    BY DEF Recursion
  <2> QED BY <2>1, <2>2, <2>3
<1>1. 0 \in G
  <2>1. ASSUME NEW s \in SUBSET T, Cardinality(s) = 0 PROVE g[s] = h[s]
    <3>1. s = {}
      BY <1>0, <2>1, FS_EmptySet
    <3> QED BY <1>0, <3>1 DEF Body
  <2> QED BY <2>1
<1>2. ASSUME NEW n \in Nat, n \in G PROVE n + 1 \in G
  <2>1. ASSUME NEW s \in SUBSET T, Cardinality(s) = n + 1 PROVE g[s] = h[s]
    <3>1. s # {}
      BY <2>1, FS_EmptySet
    <3> DEFINE t == s \ {Pick(s)}
    <3>2. Pick(s) \in s /\ Pick(s) \in T
      BY <3>1, PickIn
    <3>3. Cardinality(s) = Cardinality(t) + 1 /\ Cardinality(t) \in Nat /\ t \in SUBSET T
      BY <3>2, OneLess
    <3>4. Cardinality(t) = n
      <4> HIDE DEF t
      <4> QED BY <2>1, <3>3
    <3>5. g[t] = h[t]
      <4> HIDE DEF t
      <4> QED BY <1>2, <3>3, <3>4
    <3>6. g[s] = f[Pick(s)] + g[t] /\ h[s] = e[Pick(s)] + h[t]
      BY <1>0, <3>1 DEF Body
    <3> QED BY <3>2, <3>5, <3>6
  <2> QED BY <2>1
<1>3. Nat \subseteq G
  <2> HIDE DEF G
  <2> QED BY <1>1, <1>2, ByInduction
<1> QED BY <1>0, <1>3

\* The sum of the values of f at the elements of S.
Sum(f, S) == SumFunctionOnSet(f, S)

LEMMA SumIs ==
  ASSUME NEW f, NEW S, IsFiniteSet(S), NatOn(f, S)
  PROVE  \E g : Recursion(f, S, g) /\ Sum(f, S) = g[S]
<1> DEFINE c == CHOOSE g : Recursion(f, S, g)
<1>1. Recursion(f, S, c)
  BY RecursionExists
<1>2. Sum(f, S) = c[S]
  BY DEF Sum, SumFunctionOnSet, FoldFunctionOnSet, MapThenFoldSet, Recursion, Body, Pick
<1> QED BY <1>1, <1>2

LEMMA SumInNat ==
  ASSUME NEW f, NEW S, IsFiniteSet(S), NatOn(f, S)
  PROVE  Sum(f, S) \in Nat
<1>1. PICK g : Recursion(f, S, g) /\ Sum(f, S) = g[S]
  BY SumIs
<1>2. PICK h \in [SUBSET S -> Nat] : Recursion(f, S, h)
  BY RecursionExists
<1>3. g[S] = h[S]
  BY <1>1, <1>2, RecursionUnique
<1> QED BY <1>1, <1>2, <1>3

\* Functions that agree on a set have the same sum over it.
LEMMA SumCongruent ==
  ASSUME NEW f, NEW e, NEW S, IsFiniteSet(S), NatOn(f, S), \A x \in S : f[x] = e[x]
  PROVE  Sum(f, S) = Sum(e, S)
<1>1. PICK g : Recursion(f, S, g) /\ Sum(f, S) = g[S]
  BY SumIs
<1>2. NatOn(e, S)
  BY DEF NatOn
<1>3. PICK h : Recursion(e, S, h) /\ Sum(e, S) = h[S]
  BY <1>2, SumIs
<1>4. g[S] = h[S]
  BY <1>1, <1>3, RecursionUnique
<1> QED BY <1>1, <1>3, <1>4

LEMMA SumUnfold ==
  ASSUME NEW f, NEW S, IsFiniteSet(S), NatOn(f, S)
  PROVE  /\ S = {} => Sum(f, S) = 0
         /\ S # {} => Sum(f, S) = f[Pick(S)] + Sum(f, S \ {Pick(S)})
<1>1. PICK g : Recursion(f, S, g) /\ Sum(f, S) = g[S]
  BY SumIs
<1>2. g[S] = Body(f, g, S)
  BY <1>1 DEF Recursion
<1>3. CASE S = {}
  BY <1>1, <1>2, <1>3 DEF Body
<1>4. CASE S # {}
  <2> DEFINE T == S \ {Pick(S)}
  <2>1. T \subseteq S /\ IsFiniteSet(T) /\ NatOn(f, T)
    BY FS_Subset DEF NatOn
  <2>2. PICK h : Recursion(f, T, h) /\ Sum(f, T) = h[T]
    <3> HIDE DEF T
    <3> QED BY <2>1, SumIs
  <2>3. g[T] = h[T]
    <3> HIDE DEF T
    <3> QED BY <1>1, <2>1, <2>2, RecursionUnique
  <2> QED BY <1>1, <1>2, <1>4, <2>2, <2>3 DEF Body
<1> QED BY <1>3, <1>4

\* The order in which the elements are taken does not matter.
LEMMA SumRemove ==
  ASSUME NEW f, NEW S, IsFiniteSet(S), NatOn(f, S), NEW x \in S
  PROVE  Sum(f, S) = f[x] + Sum(f, S \ {x})
<1> DEFINE G == {n \in Nat : \A s \in SUBSET S : Cardinality(s) = n =>
                   \A y \in s : Sum(f, s) = f[y] + Sum(f, s \ {y})}
<1>0. \A s \in SUBSET S : IsFiniteSet(s) /\ Cardinality(s) \in Nat /\ NatOn(f, s) /\ Sum(f, s) \in Nat
  <2>1. \A s \in SUBSET S : IsFiniteSet(s) /\ Cardinality(s) \in Nat /\ NatOn(f, s)
    BY FS_Subset, FS_CardinalityType DEF NatOn
  <2> QED BY <2>1, SumInNat
<1>1. 0 \in G
  <2>1. \A s \in SUBSET S : Cardinality(s) = 0 => s = {}
    BY <1>0, FS_EmptySet
  <2> QED BY <2>1
<1>2. ASSUME NEW n \in Nat, n \in G PROVE n + 1 \in G
  <2>1. ASSUME NEW s \in SUBSET S, Cardinality(s) = n + 1, NEW y \in s
        PROVE  Sum(f, s) = f[y] + Sum(f, s \ {y})
    <3> DEFINE p == Pick(s)
               sp == s \ {p}
               sy == s \ {y}
               spy == sp \ {y}
    <3>1. p \in s
      BY PickIn
    <3>2. Sum(f, s) = f[p] + Sum(f, sp)
      BY <1>0, SumUnfold
    <3> HIDE DEF p
    <3>3. CASE p = y
      BY <3>2, <3>3
    <3>4. CASE p # y
      <4>1. y \in sp /\ p \in sy /\ spy = sy \ {p} /\ sp \in SUBSET S /\ sy \in SUBSET S /\ spy \in SUBSET S
        BY <3>1, <3>4
      <4>2. Cardinality(sp) = n
        <5>1. Cardinality(s) = Cardinality(sp) + 1 /\ Cardinality(sp) \in Nat
          BY <3>1, OneLess
        <5> HIDE DEF sp
        <5> QED BY <2>1, <5>1
      <4>3. Cardinality(sy) = n
        <5>1. Cardinality(s) = Cardinality(sy) + 1 /\ Cardinality(sy) \in Nat
          BY OneLess
        <5> HIDE DEF sy
        <5> QED BY <2>1, <5>1
      <4>4. Sum(f, sp) = f[y] + Sum(f, spy)
        BY <1>2, <4>1, <4>2
      <4>5. Sum(f, sy) = f[p] + Sum(f, spy)
        BY <1>2, <4>1, <4>3
      <4>6. f[y] \in Nat /\ f[p] \in Nat /\ Sum(f, spy) \in Nat
        BY <1>0, <3>1, <4>1 DEF NatOn
      <4> HIDE DEF sp, spy
      <4>7. f[p] + Sum(f, sp) = f[y] + Sum(f, sy)
        <5> HIDE DEF sy
        <5> QED BY <4>4, <4>5, <4>6
      <4> QED BY <3>2, <4>7
    <3> QED BY <3>3, <3>4
  <2> QED BY <2>1
<1>3. Nat \subseteq G
  <2> HIDE DEF G
  <2> QED BY <1>1, <1>2, ByInduction
<1>4. Cardinality(S) \in G
  BY <1>0, <1>3
<1> QED BY <1>4

LEMMA SumEmpty == ASSUME NEW f PROVE Sum(f, {}) = 0
BY SumUnfold, FS_EmptySet DEF NatOn

\* Induction along the elements of a finite set.
LEMMA SubsetInduction ==
  ASSUME NEW S, IsFiniteSet(S), NEW G, {} \in G,
         \A s \in SUBSET S : \A x \in S : s \in G /\ x \notin s => s \cup {x} \in G
  PROVE  S \in G
<1> DEFINE N == {n \in Nat : \A s \in SUBSET S : Cardinality(s) = n => s \in G}
<1>0. \A s \in SUBSET S : IsFiniteSet(s) /\ Cardinality(s) \in Nat
  BY FS_Subset, FS_CardinalityType
<1>1. 0 \in N
  <2>1. \A s \in SUBSET S : Cardinality(s) = 0 => s = {}
    BY <1>0, FS_EmptySet
  <2> QED BY <2>1
<1>2. ASSUME NEW n \in Nat, n \in N PROVE n + 1 \in N
  <2>1. ASSUME NEW s \in SUBSET S, Cardinality(s) = n + 1 PROVE s \in G
    <3>1. s # {}
      BY <2>1, FS_EmptySet
    <3>2. PICK x \in s : TRUE
      BY <3>1
    <3> DEFINE t == s \ {x}
    <3>3. Cardinality(s) = Cardinality(t) + 1 /\ Cardinality(t) \in Nat /\ t \in SUBSET S
      BY OneLess
    <3>4. x \notin t /\ x \in S /\ s = t \cup {x}
      OBVIOUS
    <3> HIDE DEF t
    <3>5. t \in G
      BY <1>2, <2>1, <3>3
    <3> QED BY <3>3, <3>4, <3>5
  <2> QED BY <2>1
<1>3. Nat \subseteq N
  <2> HIDE DEF N
  <2> QED BY <1>1, <1>2, ByInduction
<1> QED BY <1>0, <1>3

LEMMA SumInsert ==
  ASSUME NEW f, NEW S, IsFiniteSet(S), NEW x, x \notin S, NatOn(f, S), f[x] \in Nat
  PROVE  Sum(f, S \cup {x}) = f[x] + Sum(f, S)
<1>1. IsFiniteSet(S \cup {x}) /\ NatOn(f, S \cup {x}) /\ (S \cup {x}) \ {x} = S
  BY FS_AddElement DEF NatOn
<1> QED BY <1>1, SumRemove

\* Sums over disjoint sets add up.
LEMMA SumUnion ==
  ASSUME NEW f, NEW S, NEW T, IsFiniteSet(S), IsFiniteSet(T), S \cap T = {},
         NatOn(f, S), NatOn(f, T)
  PROVE  Sum(f, S \cup T) = Sum(f, S) + Sum(f, T)
<1> DEFINE G == {s \in SUBSET S : Sum(f, s \cup T) = Sum(f, s) + Sum(f, T)}
<1>0. Sum(f, T) \in Nat
  BY SumInNat
<1>1. {} \in G
  <2>1. {} \cup T = T
    OBVIOUS
  <2>2. Sum(f, {} \cup T) = Sum(f, {}) + Sum(f, T)
    BY <1>0, <2>1, SumEmpty
  <2> QED BY <2>2
<1>2. ASSUME NEW s \in SUBSET S, NEW x \in S, s \in G, x \notin s PROVE s \cup {x} \in G
  <2>1. IsFiniteSet(s) /\ NatOn(f, s) /\ f[x] \in Nat
    BY FS_Subset DEF NatOn
  <2>2. IsFiniteSet(s \cup T) /\ NatOn(f, s \cup T) /\ x \notin s \cup T
    BY <1>2, <2>1, FS_Union DEF NatOn
  <2>3. Sum(f, (s \cup T) \cup {x}) = f[x] + Sum(f, s \cup T)
    BY <2>1, <2>2, SumInsert
  <2>4. Sum(f, s \cup {x}) = f[x] + Sum(f, s)
    BY <1>2, <2>1, SumInsert
  <2>5. Sum(f, s) \in Nat /\ Sum(f, s \cup T) = Sum(f, s) + Sum(f, T)
    BY <1>2, <2>1, SumInNat
  <2>6. (s \cup T) \cup {x} = (s \cup {x}) \cup T
    OBVIOUS
  <2>7. Sum(f, (s \cup {x}) \cup T) = Sum(f, s \cup {x}) + Sum(f, T)
    <3>1. Sum(f, (s \cup {x}) \cup T) = f[x] + (Sum(f, s) + Sum(f, T))
      BY <2>3, <2>5, <2>6, Zenon
    <3>2. f[x] + (Sum(f, s) + Sum(f, T)) = (f[x] + Sum(f, s)) + Sum(f, T)
      BY <1>0, <2>1, <2>5
    <3> QED BY <2>4, <3>1, <3>2, Zenon
  <2> QED BY <2>7
<1>3. S \in G
  <2> HIDE DEF G
  <2> QED BY <1>1, <1>2, SubsetInduction
<1> QED BY <1>3

\* Smaller terms, smaller sum.
LEMMA SumMonotone ==
  ASSUME NEW f, NEW e, NEW S, IsFiniteSet(S), NatOn(f, S), NatOn(e, S), \A x \in S : f[x] <= e[x]
  PROVE  Sum(f, S) <= Sum(e, S)
<1> DEFINE G == {s \in SUBSET S : Sum(f, s) <= Sum(e, s)}
<1>1. {} \in G
  BY SumEmpty
<1>2. ASSUME NEW s \in SUBSET S, NEW x \in S, s \in G, x \notin s PROVE s \cup {x} \in G
  <2>1. IsFiniteSet(s) /\ NatOn(f, s) /\ NatOn(e, s) /\ f[x] \in Nat /\ e[x] \in Nat
    BY FS_Subset DEF NatOn
  <2>2. Sum(f, s \cup {x}) = f[x] + Sum(f, s) /\ Sum(e, s \cup {x}) = e[x] + Sum(e, s)
    BY <1>2, <2>1, SumInsert
  <2>3. Sum(f, s) \in Nat /\ Sum(e, s) \in Nat /\ Sum(f, s) <= Sum(e, s) /\ f[x] <= e[x]
    BY <1>2, <2>1, SumInNat
  <2>4. Sum(f, s \cup {x}) <= Sum(e, s \cup {x})
    BY <2>1, <2>2, <2>3
  <2> QED BY <2>4
<1>3. S \in G
  <2> HIDE DEF G
  <2> QED BY <1>1, <1>2, SubsetInduction
<1> QED BY <1>3

\* No term is larger than the sum.
LEMMA TermAtMostSum ==
  ASSUME NEW f, NEW S, IsFiniteSet(S), NatOn(f, S), NEW x \in S
  PROVE  f[x] <= Sum(f, S)
<1>1. IsFiniteSet(S \ {x}) /\ NatOn(f, S \ {x})
  BY FS_Subset DEF NatOn
<1>2. Sum(f, S) = f[x] + Sum(f, S \ {x}) /\ Sum(f, S \ {x}) \in Nat /\ f[x] \in Nat
  BY <1>1, SumRemove, SumInNat DEF NatOn
<1> QED BY <1>2

LEMMA SumOfZeros ==
  ASSUME NEW f, NEW S, IsFiniteSet(S), \A x \in S : f[x] = 0
  PROVE  Sum(f, S) = 0
<1> DEFINE G == {s \in SUBSET S : Sum(f, s) = 0}
<1>1. {} \in G
  BY SumEmpty
<1>2. ASSUME NEW s \in SUBSET S, NEW x \in S, s \in G, x \notin s PROVE s \cup {x} \in G
  <2>1. IsFiniteSet(s) /\ NatOn(f, s) /\ f[x] = 0
    BY FS_Subset DEF NatOn
  <2>2. Sum(f, s \cup {x}) = f[x] + Sum(f, s) /\ Sum(f, s) = 0
    BY <1>2, <2>1, SumInsert
  <2> QED BY <2>1, <2>2
<1>3. S \in G
  <2> HIDE DEF G
  <2> QED BY <1>1, <1>2, SubsetInduction
<1> QED BY <1>3
-----------------------------------------------------------------------------
(* Time, buckets and rows *)

USE RollupAssumption DEF DailyHours

LEMMA Division ==
  ASSUME NEW n \in Nat, n > 0, NEW a \in Nat
  PROVE  /\ a \div n \in Nat /\ a \div n <= a
         /\ a % n \in 0 .. n - 1
         /\ a >= n => a \div n >= 1
         /\ a % n >= 1 => (a - 1) \div n = a \div n
OBVIOUS

LEMMA DivisionMonotone ==
  ASSUME NEW n \in Nat, n > 0, NEW a \in Nat, NEW b \in Nat, a <= b
  PROVE  a \div n <= b \div n
OBVIOUS

Clock == StartTick .. MaxTick
RunHours == HoursPerDay .. MaxHour

LEMMA ClockFacts ==
  /\ MaxHour \in Nat
  /\ \A t \in Clock : t \in Ticks /\ t \in Nat /\ HourOf(t) \in RunHours
  /\ \A h \in RunHours : h \in Hours /\ h - 1 \in Hours /\ h \in Nat
  /\ \A h \in Hours : h \in Nat /\ 2 * h \in Ticks /\ 2 * h + 1 \in Ticks
BY DEF Clock, RunHours, MaxHour, Ticks, Hours, HourOf

LEMMA DayFacts ==
  ASSUME NEW h \in RunHours
  PROVE  DayOf(h) \in Nat /\ DayOf(h) >= 1 /\ DayOf(h) - 1 \in Days
<1>1. h \in Nat /\ h <= MaxHour /\ MaxHour \in Nat /\ h >= HoursPerDay
  BY ClockFacts DEF RunHours
<1>2. h \div HoursPerDay \in Nat /\ h \div HoursPerDay >= 1 /\ MaxHour \div HoursPerDay \in Nat
  BY <1>1, Division
<1>3. h \div HoursPerDay <= MaxHour \div HoursPerDay
  BY <1>1, DivisionMonotone
<1> QED BY <1>2, <1>3 DEF DayOf, Days

Early(h) == h % HoursPerDay < DailyHours
HourBucket(h) == <<"hourly", h - 1>>
DayBucket(h) == <<"daily", DayOf(h) - 1>>

\* The buckets a run of hour h may write.
LEMMA BucketFacts ==
  ASSUME NEW h \in RunHours
  PROVE  /\ HourBucket(h) \in Buckets /\ DayBucket(h) \in Buckets
         /\ HourBucket(h) \in BucketsOf(h)
         /\ Early(h) => DayBucket(h) \in BucketsOf(h)
         /\ BucketsOf(h) \subseteq Buckets
<1>1. HourBucket(h) \in Buckets /\ DayBucket(h) \in Buckets
  BY ClockFacts, DayFacts DEF HourBucket, DayBucket, Buckets
<1>2. Writes(h, "hourly") = HourBucket(h) /\ Writes(h, "daily") = DayBucket(h)
  BY DEF Writes, HourBucket, DayBucket
<1>3. CASE Early(h)
  <2>1. Range(Plan(h)) = {"hourly", "daily"}
    <3>1. Plan(h) = <<"hourly", "daily">>
      BY <1>3 DEF Early, Plan
    <3> QED BY <3>1 DEF Range
  <2> QED BY <1>1, <1>2, <2>1 DEF BucketsOf
<1>4. CASE ~Early(h)
  <2>1. Range(Plan(h)) = {"hourly"}
    <3>1. Plan(h) = <<"hourly">>
      BY <1>4 DEF Early, Plan
    <3> QED BY <3>1 DEF Range
  <2> QED BY <1>1, <1>2, <1>4, <2>1 DEF BucketsOf
<1> QED BY <1>3, <1>4

Amounts == Nat \ {0}

\* What the UPDATE or the INSERT of one key does.
LEMMA WrittenFacts ==
  ASSUME NEW s \in Seq(Amounts), NEW found \in 0 .. 1, NEW got \in Amounts
  PROVE  /\ Written(s, found, got) \in Seq(Amounts)
         /\ found = 1 => Len(Written(s, found, got)) = Len(s)
         /\ found = 0 => Len(Written(s, found, got)) = Len(s) + 1
         /\ found = Len(s) => Written(s, found, got) = <<got>>
<1>0. Len(s) \in Nat
  OBVIOUS
<1>1. CASE found = 1
  <2> DEFINE w == [s EXCEPT ![1] = got]
  <2>1. Written(s, found, got) = w
    BY <1>1 DEF Written
  <2>2. w \in Seq(Amounts) /\ Len(w) = Len(s)
    <3>1. CASE s = <<>>
      <4>1. w = s
        BY <3>1
      <4> HIDE DEF w
      <4> QED BY <4>1
    <3>2. CASE s # <<>>
      <4>1. 1 \in 1 .. Len(s)
        BY <3>2
      <4> QED BY <4>1, ExceptSeq
    <3> QED BY <3>1, <3>2
  <2>3. Len(s) = 1 => w = <<got>>
    OBVIOUS
  <2> HIDE DEF w
  <2> QED BY <1>0, <1>1, <2>1, <2>2, <2>3
<1>2. CASE found = 0
  <2> DEFINE w == Append(s, got)
  <2>1. Written(s, found, got) = w
    BY <1>2 DEF Written
  <2>2. w \in Seq(Amounts) /\ Len(w) = Len(s) + 1
    OBVIOUS
  <2>3. Len(s) = 0 => w = <<got>>
    OBVIOUS
  <2> HIDE DEF w
  <2>4. found = Len(s) => w = <<got>>
    BY <1>2, <2>3, Zenon
  <2>5. found # 1
    BY <1>2
  <2> QED BY <2>1, <2>2, <2>4, <2>5, Zenon
<1> QED BY <1>1, <1>2

\* What the rows of one bucket and key add up to.
LEMMA TotalFacts ==
  ASSUME NEW s \in Seq(Amounts)
  PROVE  /\ Total(s) \in Nat
         /\ s = <<>> => Total(s) = 0
         /\ s # <<>> => Total(s) > 0
<1>1. Total(s) = Sum(s, 1 .. Len(s))
  BY DEF Total, SumFunction, Sum
<1>2. IsFiniteSet(1 .. Len(s)) /\ NatOn(s, 1 .. Len(s))
  <2>1. Len(s) \in Nat /\ \A i \in 1 .. Len(s) : s[i] \in Amounts
    OBVIOUS
  <2> QED BY <2>1, FS_Interval DEF NatOn, Amounts
<1>3. Total(s) \in Nat
  BY <1>1, <1>2, SumInNat
<1>4. ASSUME s = <<>> PROVE Total(s) = 0
  <2>1. 1 .. Len(s) = {}
    BY <1>4
  <2> QED BY <1>1, <2>1, SumEmpty
<1>5. ASSUME s # <<>> PROVE Total(s) > 0
  <2>1. 1 \in 1 .. Len(s) /\ s[1] \in Amounts
    BY <1>5
  <2>2. s[1] <= Sum(s, 1 .. Len(s))
    BY <1>2, <2>1, TermAtMostSum
  <2> QED BY <1>1, <1>3, <2>1, <2>2 DEF Amounts
<1> QED BY <1>3, <1>4, <1>5

LEMMA TotalOfOne == ASSUME NEW n \in Nat PROVE Total(<<n>>) = n
<1> DEFINE s == <<n>>
<1>1. DOMAIN s = {1} /\ s[1] = n /\ {1} \ {1} = {}
  OBVIOUS
<1>2. IsFiniteSet({1}) /\ NatOn(s, {1})
  BY <1>1, FS_Singleton DEF NatOn
<1> HIDE DEF s
<1>3. Total(s) = Sum(s, {1})
  BY <1>1 DEF Total, SumFunction, Sum
<1>4. Sum(s, {1}) = s[1] + Sum(s, {1} \ {1})
  BY <1>2, SumRemove
<1>5. Sum(s, {1} \ {1}) = 0
  BY <1>1, SumEmpty
<1>6. Total(s) = n
  BY <1>1, <1>3, <1>4, <1>5
<1> QED BY <1>6 DEF s

-----------------------------------------------------------------------------
(* The runs *)

Plans == {<<>>, <<"hourly">>, <<"daily">>, <<"hourly", "daily">>}
Phases == {"off", "next", "read", "looked"}
RunTypes ==
  [stage : Phases, hour : Hours, plan : Plans, got : [Keys -> Nat], found : [Keys -> 0 .. 1],
   gone : SUBSET Keys, overtaken : BOOLEAN]
RowTypes == [Buckets -> [Keys -> Seq(Amounts)]]
EventTypes == [Ticks -> [Keys -> Nat]]

Types ==
  /\ now \in Clock
  /\ events \in EventTypes /\ rows \in RowTypes
  /\ run \in [Runs -> RunTypes]
  /\ starts \in 0 .. MaxStarts /\ retaining \in BOOLEAN
  /\ clean \subseteq Hours /\ healed \subseteq Days /\ excused \subseteq Buckets

\* A run works on the hour before the one it began in, then on the day before;
\* it began in this hour or in the last.
Planned(q) ==
  /\ q.hour \in RunHours
  /\ \/ q.stage # "next" /\ q.plan = Plan(q.hour)
     \/ q.plan = <<"daily">> /\ Early(q.hour)
  /\ \A k \in Keys : (k \in q.gone \/ q.found[k] = 1) => q.got[k] > 0
  /\ q.stage = "next" => \A k \in Keys : q.got[k] = 0
Timely(q, t) == q.hour <= HourOf(t) /\ HourOf(t) <= q.hour + 1
Shape == \A r \in Runs : run[r].stage # "off" => Planned(run[r]) /\ Timely(run[r], now)

\* What an event, a deletion or another run may do to a run under way.
Kept(p, q) ==
  /\ q.stage = p.stage /\ q.hour = p.hour /\ q.plan = p.plan
  /\ q.got = p.got /\ q.found = p.found
  /\ p.gone \subseteq q.gone
  /\ p.overtaken = TRUE => q.overtaken = TRUE

InHour(q) == q.stage \in {"read", "looked"} /\ Head(q.plan) = "hourly"
InDay(q) == q.stage \in {"read", "looked"} /\ Head(q.plan) = "daily"
BucketIn(q) == Writes(q.hour, Head(q.plan))

\* The two phases of a run.
LEMMA PhaseFacts ==
  ASSUME NEW q, Planned(q)
  PROVE  /\ BucketIn(q) \in Buckets /\ BucketIn(q) \in BucketsOf(q.hour)
         /\ \/ /\ Head(q.plan) = "hourly" /\ BucketIn(q) = HourBucket(q.hour) /\ q.stage # "next"
               /\ Tail(q.plan) = IF Early(q.hour) THEN <<"daily">> ELSE <<>>
            \/ /\ Head(q.plan) = "daily" /\ BucketIn(q) = DayBucket(q.hour)
               /\ Early(q.hour) /\ Tail(q.plan) = <<>> /\ q.plan = <<"daily">>
         /\ q.plan \in Plans
<1>1. /\ q.hour \in RunHours
      /\ HourBucket(q.hour) \in Buckets /\ DayBucket(q.hour) \in Buckets
      /\ HourBucket(q.hour) \in BucketsOf(q.hour)
      /\ Early(q.hour) => DayBucket(q.hour) \in BucketsOf(q.hour)
  BY BucketFacts DEF Planned
<1>2. Writes(q.hour, "hourly") = HourBucket(q.hour) /\ Writes(q.hour, "daily") = DayBucket(q.hour)
  BY DEF Writes, HourBucket, DayBucket
<1>3. CASE q.stage # "next" /\ q.plan = Plan(q.hour)
  <2>1. CASE Early(q.hour)
    <3>1. q.plan = <<"hourly", "daily">>
      BY <1>3, <2>1 DEF Early, Plan
    <3>2. Head(q.plan) = "hourly" /\ Tail(q.plan) = <<"daily">> /\ q.plan \in Plans
      BY <3>1 DEF Plans
    <3> QED BY <1>1, <1>2, <1>3, <2>1, <3>2 DEF BucketIn
  <2>2. CASE ~Early(q.hour)
    <3>1. q.plan = <<"hourly">>
      BY <1>3, <2>2 DEF Early, Plan
    <3>2. Head(q.plan) = "hourly" /\ Tail(q.plan) = <<>> /\ q.plan \in Plans
      BY <3>1 DEF Plans
    <3> QED BY <1>1, <1>2, <1>3, <2>2, <3>2 DEF BucketIn
  <2> QED BY <2>1, <2>2
<1>4. CASE q.plan = <<"daily">> /\ Early(q.hour)
  <2>1. Head(q.plan) = "daily" /\ Tail(q.plan) = <<>> /\ q.plan \in Plans
    BY <1>4 DEF Plans
  <2> QED BY <1>1, <1>2, <1>4, <2>1 DEF BucketIn
<1> QED BY <1>3, <1>4 DEF Planned

LEMMA PlanFacts ==
  ASSUME NEW h PROVE Plan(h) \in Plans /\ Head(Plan(h)) = "hourly"
<1>1. Plan(h) = <<"hourly">> \/ Plan(h) = <<"hourly", "daily">>
  BY DEF Plan
<1> QED BY <1>1 DEF Plans

LEMMA OffFacts == Off \in RunTypes /\ Off.stage = "off"
<1>1. 0 \in Hours /\ <<>> \in Plans
  BY ClockFacts DEF Hours, Plans
<1> QED BY <1>1 DEF Off, RunTypes, Phases, NoCounts

\* Kept runs keep their type and shape.
LEMMA KeptPlanned ==
  ASSUME NEW p \in RunTypes, NEW q \in RunTypes, Kept(p, q), Planned(p),
         \A k \in q.gone : k \in p.gone \/ p.got[k] > 0
  PROVE  Planned(q)
BY DEF Kept, Planned, RunTypes

\* The sums that a run reads, of a table R of rows or e of events.
HourlyOf(R, k) == [h \in Hours |-> Total(R[<<"hourly", h>>][k])]
DaySum(R, d, k) == Sum(HourlyOf(R, k), HoursOf(d))
Count(e, h, k) == e[2 * h][k] + e[2 * h + 1][k]

LEMMA HourlyFacts ==
  ASSUME NEW R \in RowTypes, NEW k \in Keys
  PROVE  /\ \A h \in Hours : /\ <<"hourly", h>> \in Buckets
                             /\ R[<<"hourly", h>>][k] \in Seq(Amounts)
                             /\ HourlyOf(R, k)[h] = Total(R[<<"hourly", h>>][k])
                             /\ HourlyOf(R, k)[h] \in Nat
         /\ \A H : H \subseteq Hours => IsFiniteSet(H) /\ NatOn(HourlyOf(R, k), H)
         /\ \A d : HoursOf(d) \subseteq Hours /\ DaySum(R, d, k) \in Nat
<1>1. \A h \in Hours : <<"hourly", h>> \in Buckets
  BY DEF Buckets
<1>2. ASSUME NEW h \in Hours
      PROVE  /\ R[<<"hourly", h>>][k] \in Seq(Amounts)
             /\ HourlyOf(R, k)[h] = Total(R[<<"hourly", h>>][k]) /\ HourlyOf(R, k)[h] \in Nat
  <2>1. R[<<"hourly", h>>][k] \in Seq(Amounts)
    BY <1>1 DEF RowTypes
  <2>2. Total(R[<<"hourly", h>>][k]) \in Nat
    BY <2>1, TotalFacts
  <2>3. HourlyOf(R, k)[h] = Total(R[<<"hourly", h>>][k])
    BY DEF HourlyOf
  <2> QED BY <2>1, <2>2, <2>3
<1>3. IsFiniteSet(Hours)
  BY ClockFacts, FS_Interval DEF Hours
<1>4. \A H : H \subseteq Hours => IsFiniteSet(H) /\ NatOn(HourlyOf(R, k), H)
  BY <1>2, <1>3, FS_Subset DEF NatOn
<1>5. \A d : HoursOf(d) \subseteq Hours
  BY DEF HoursOf
<1>6. \A d : DaySum(R, d, k) \in Nat
  BY <1>4, <1>5, SumInNat DEF DaySum
<1> QED BY <1>1, <1>2, <1>4, <1>5, <1>6

LEMMA CountFacts ==
  ASSUME NEW e \in EventTypes, NEW h \in Hours, NEW k \in Keys
  PROVE  /\ 2 * h \in Ticks /\ 2 * h + 1 \in Ticks
         /\ e[2 * h][k] \in Nat /\ e[2 * h + 1][k] \in Nat
         /\ Count(e, h, k) \in Nat
<1>1. 2 * h \in Ticks /\ 2 * h + 1 \in Ticks
  BY ClockFacts
<1>2. e[2 * h][k] \in Nat /\ e[2 * h + 1][k] \in Nat
  BY <1>1 DEF EventTypes
<1> QED BY <1>1, <1>2 DEF Count

LEMMA AggregateFacts ==
  ASSUME Types
  PROVE  /\ \A h \in Hours : /\ Aggregate(<<"hourly", h>>) \in [Keys -> Nat]
                             /\ \A k \in Keys : Aggregate(<<"hourly", h>>)[k] = Count(events, h, k)
         /\ \A d : /\ Aggregate(<<"daily", d>>) \in [Keys -> Nat]
                   /\ \A k \in Keys : Aggregate(<<"daily", d>>)[k] = DaySum(rows, d, k)
<1>1. ASSUME NEW h \in Hours, NEW k \in Keys
      PROVE  Aggregate(<<"hourly", h>>)[k] = Count(events, h, k) /\ Count(events, h, k) \in Nat
  <2>1. Count(events, h, k) \in Nat
    BY CountFacts DEF Types
  <2>2. Aggregate(<<"hourly", h>>)[k] = Count(events, h, k)
    BY DEF Aggregate, CountIn, Count
  <2> QED BY <2>1, <2>2
<1>2. ASSUME NEW d, NEW k \in Keys
      PROVE  Aggregate(<<"daily", d>>)[k] = DaySum(rows, d, k) /\ DaySum(rows, d, k) \in Nat
  <2>1. DaySum(rows, d, k) \in Nat
    BY HourlyFacts DEF Types
  <2>2. Aggregate(<<"daily", d>>)[k] = DaySum(rows, d, k)
    BY DEF Aggregate, DaySum, Sum, Hourly, HourlyOf
  <2> QED BY <2>1, <2>2
<1>3. \A b : Aggregate(b) = [k \in Keys |-> Aggregate(b)[k]]
  BY DEF Aggregate
<1> QED BY <1>1, <1>2, <1>3

-----------------------------------------------------------------------------
(* What each action does to the runs *)

LEMMA OvertakeFacts ==
  ASSUME NEW H, run \in [Runs -> RunTypes]
  PROVE  /\ Overtake(H) \in [Runs -> RunTypes]
         /\ \A r \in Runs :
              /\ Kept(run[r], Overtake(H)[r]) /\ Overtake(H)[r].gone = run[r].gone
              /\ run[r].stage \in {"read", "looked"} /\ run[r].hour - 1 \in H
                   => Overtake(H)[r].overtaken = TRUE
<1> SUFFICES ASSUME NEW r \in Runs
             PROVE  /\ Overtake(H)[r] \in RunTypes
                    /\ Kept(run[r], Overtake(H)[r]) /\ Overtake(H)[r].gone = run[r].gone
                    /\ run[r].stage \in {"read", "looked"} /\ run[r].hour - 1 \in H
                         => Overtake(H)[r].overtaken = TRUE
  <2>1. Overtake(H) = [r \in Runs |-> Overtake(H)[r]]
    BY DEF Overtake
  <2> QED BY <2>1
<1>1. run[r] \in RunTypes
  OBVIOUS
<1>2. CASE run[r].stage \in {"read", "looked"} /\ run[r].hour - 1 \in H
  <2> DEFINE p == run[r]
             q == [p EXCEPT !.overtaken = TRUE]
  <2>1. Overtake(H)[r] = q
    BY <1>2 DEF Overtake
  <2>2. q \in RunTypes /\ Kept(p, q) /\ q.gone = p.gone /\ q.overtaken = TRUE
    BY <1>1 DEF RunTypes, Kept
  <2> HIDE DEF q
  <2> QED BY <2>1, <2>2
<1>3. CASE ~(run[r].stage \in {"read", "looked"} /\ run[r].hour - 1 \in H)
  <2>1. Overtake(H)[r] = run[r]
    BY <1>3 DEF Overtake
  <2> QED BY <1>1, <1>3, <2>1 DEF Kept
<1> QED BY <1>2, <1>3

Others(r) == \A a \in Runs : a # r => run'[a] = run[a]

LEMMA StartFacts ==
  ASSUME Types, NEW r \in Runs, Start(r)
  PROVE  /\ run' \in [Runs -> RunTypes] /\ run[r].stage = "off"
         /\ \A a \in Runs : run[a].stage # "off" =>
              Kept(run[a], run'[a]) /\ run'[a].gone = run[a].gone /\ run'[a].overtaken = TRUE
         /\ \A a \in Runs : a # r /\ run[a].stage = "off" => run'[a].stage = "off"
         /\ run'[r].stage = "read" /\ run'[r].hour = HourOf(now) /\ run'[r].plan = Plan(HourOf(now))
         /\ \A k \in Keys : run'[r].got[k] = Count(events, HourOf(now) - 1, k)
         /\ \A k \in Keys : run'[r].found[k] = 0
         /\ run'[r].gone = {} /\ run'[r].overtaken = (Active # {})
<1> DEFINE h == HourOf(now)
           n == [stage |-> "read", hour |-> h, plan |-> Plan(h),
                 got |-> Aggregate(Writes(h, "hourly")), found |-> NoCounts,
                 gone |-> {}, overtaken |-> Active # {}]
<1>0. run[r].stage = "off" /\ run \in [Runs -> RunTypes]
  BY DEF Start, Types
<1>1. h \in RunHours /\ h \in Hours /\ h - 1 \in Hours
  BY ClockFacts DEF Types
<1>2. Writes(h, "hourly") = <<"hourly", h - 1>>
  BY DEF Writes
<1>3. Aggregate(Writes(h, "hourly")) \in [Keys -> Nat]
      /\ \A k \in Keys : Aggregate(Writes(h, "hourly"))[k] = Count(events, h - 1, k)
  BY <1>1, <1>2, AggregateFacts
<1>4. n \in RunTypes
  <2>1. Plan(h) \in Plans /\ NoCounts \in [Keys -> 0 .. 1] /\ (Active # {}) \in BOOLEAN
    BY PlanFacts DEF NoCounts
  <2> QED BY <1>1, <1>3, <2>1 DEF RunTypes, Phases
<1>5. run'[r] = n
  BY <1>0 DEF Start, Active
<1>6. ASSUME NEW a \in Runs, run[a].stage # "off"
      PROVE  run'[a] \in RunTypes /\ Kept(run[a], run'[a]) /\ run'[a].gone = run[a].gone
             /\ run'[a].overtaken = TRUE
  <2> DEFINE q == [run[a] EXCEPT !.overtaken = TRUE]
  <2>1. run'[a] = q
    BY <1>6 DEF Start, Active
  <2>2. q \in RunTypes /\ Kept(run[a], q) /\ q.gone = run[a].gone /\ q.overtaken = TRUE
    <3>1. run[a] \in RunTypes
      BY <1>0
    <3> QED BY <3>1 DEF RunTypes, Kept
  <2> HIDE DEF q
  <2> QED BY <2>1, <2>2
<1>7. ASSUME NEW a \in Runs, a # r, run[a].stage = "off" PROVE run'[a] = Off
  BY <1>7 DEF Start, Active
<1>8. run' \in [Runs -> RunTypes]
  <2>1. \A a \in Runs : run'[a] \in RunTypes
    <3> HIDE DEF n
    <3> QED BY <1>4, <1>5, <1>6, <1>7, OffFacts
  <2>2. run' = [a \in Runs |-> run'[a]]
    BY DEF Start
  <2> QED BY <2>1, <2>2
<1>9. /\ n.stage = "read" /\ n.hour = h /\ n.plan = Plan(h) /\ n.gone = {}
      /\ n.overtaken = (Active # {}) /\ n.got = Aggregate(Writes(h, "hourly")) /\ n.found = NoCounts
  OBVIOUS
<1>10. \A k \in Keys : NoCounts[k] = 0
  BY DEF NoCounts
<1> HIDE DEF n
<1> QED BY <1>0, <1>3, <1>5, <1>6, <1>7, <1>8, <1>9, <1>10, OffFacts

LEMMA ReadDayFacts ==
  ASSUME Types, Shape, NEW r \in Runs, ReadDay(r)
  PROVE  /\ run' \in [Runs -> RunTypes] /\ run[r].stage = "next" /\ Others(r)
         /\ run'[r].stage = "read" /\ run'[r].hour = run[r].hour /\ run'[r].plan = run[r].plan
         /\ run[r].plan = <<"daily">>
         /\ \A k \in Keys : run'[r].got[k] = DaySum(rows, DayOf(run[r].hour) - 1, k)
         /\ \A k \in Keys : run'[r].found[k] = 0
         /\ run'[r].gone = {}
<1>0. run[r].stage = "next" /\ run \in [Runs -> RunTypes] /\ run[r] \in RunTypes /\ Planned(run[r])
  BY DEF ReadDay, Types, Shape
<1> DEFINE d == DayOf(run[r].hour) - 1
           g == Aggregate(<<"daily", d>>)
           q == [run[r] EXCEPT !.stage = "read", !.got = g]
<1>1. Bucket(r) = <<"daily", d>> /\ run[r].plan = <<"daily">>
  BY <1>0, PhaseFacts DEF Bucket, BucketIn, DayBucket
<1>2. run' = [run EXCEPT ![r] = q]
  BY <1>1 DEF ReadDay
<1>3. g \in [Keys -> Nat] /\ \A k \in Keys : g[k] = DaySum(rows, d, k)
  BY AggregateFacts
<1>4. run[r].gone = {} /\ \A k \in Keys : run[r].found[k] = 0
  BY <1>0 DEF Planned, RunTypes
<1> HIDE DEF g
<1>5. /\ q \in RunTypes /\ q.stage = "read" /\ q.hour = run[r].hour /\ q.plan = run[r].plan
      /\ q.got = g /\ q.found = run[r].found /\ q.gone = run[r].gone
  BY <1>0, <1>3 DEF RunTypes, Phases
<1> HIDE DEF q
<1>6. run'[r] = q /\ run' \in [Runs -> RunTypes] /\ Others(r)
  BY <1>0, <1>2, <1>5 DEF Others
<1> QED BY <1>0, <1>1, <1>3, <1>4, <1>5, <1>6

LEMMA LookupFacts ==
  ASSUME Types, Shape, NEW r \in Runs, Lookup(r)
  PROVE  /\ run' \in [Runs -> RunTypes] /\ run[r].stage = "read" /\ Others(r)
         /\ run'[r].stage = "looked" /\ run'[r].hour = run[r].hour /\ run'[r].plan = run[r].plan
         /\ run'[r].got = run[r].got /\ run'[r].gone = run[r].gone
         /\ run'[r].overtaken = run[r].overtaken
         /\ Bucket(r) \in Buckets
         /\ \A k \in Keys : run[r].got[k] > 0 => run'[r].found[k] = Len(rows[Bucket(r)][k])
         /\ \A k \in Keys : ~(run[r].got[k] > 0) => run'[r].found[k] = 0
<1>0. run[r].stage = "read" /\ run \in [Runs -> RunTypes] /\ run[r] \in RunTypes /\ Planned(run[r])
      /\ rows \in RowTypes
  BY DEF Lookup, Types, Shape
<1>1. Bucket(r) \in Buckets
  BY <1>0, PhaseFacts DEF Bucket, BucketIn
<1> DEFINE f == [k \in Keys |-> IF k \in Wanted(r) THEN Matching(Bucket(r), k) ELSE 0]
           q == [run[r] EXCEPT !.stage = "looked", !.found = f]
<1>2. run' = [run EXCEPT ![r] = q]
  BY DEF Lookup
<1>3. ASSUME NEW k \in Keys
      PROVE  /\ f[k] \in 0 .. 1
             /\ run[r].got[k] > 0 => f[k] = Len(rows[Bucket(r)][k])
             /\ ~(run[r].got[k] > 0) => f[k] = 0
  <2>1. Len(rows[Bucket(r)][k]) \in Nat
    BY <1>0, <1>1
  <2>2. CASE run[r].got[k] > 0
    <3>1. k \in Wanted(r) /\ Matching(Bucket(r), k) <= 1 /\ Matching(Bucket(r), k) = Len(rows[Bucket(r)][k])
      BY <2>2 DEF Wanted, Lookup, Matching
    <3> QED BY <2>1, <2>2, <3>1
  <2>3. CASE ~(run[r].got[k] > 0)
    BY <2>3 DEF Wanted
  <2> QED BY <2>2, <2>3
<1>4. f \in [Keys -> 0 .. 1]
  BY <1>3
<1> HIDE DEF f
<1>5. /\ q \in RunTypes /\ q.stage = "looked" /\ q.hour = run[r].hour /\ q.plan = run[r].plan
      /\ q.got = run[r].got /\ q.gone = run[r].gone /\ q.overtaken = run[r].overtaken /\ q.found = f
  BY <1>0, <1>4 DEF RunTypes, Phases
<1> HIDE DEF q
<1>6. run'[r] = q /\ run' \in [Runs -> RunTypes] /\ Others(r)
  BY <1>0, <1>2, <1>5 DEF Others
<1> QED BY <1>0, <1>1, <1>3, <1>5, <1>6

LEMMA CommitFacts ==
  ASSUME Types, Shape, NEW r \in Runs, Commit(r)
  PROVE  /\ run' \in [Runs -> RunTypes] /\ run[r].stage = "looked" /\ Others(r)
         /\ \/ run'[r].stage = "off"
            \/ /\ run'[r].stage = "next" /\ run'[r].hour = run[r].hour /\ run'[r].plan = <<"daily">>
               /\ Early(run[r].hour) /\ run'[r].gone = {}
               /\ \A k \in Keys : run'[r].got[k] = 0 /\ run'[r].found[k] = 0
         /\ rows' \in RowTypes /\ Bucket(r) \in Buckets
         /\ \A b \in Buckets : b # Bucket(r) => rows'[b] = rows[b]
         /\ \A k \in Keys : run[r].got[k] > 0 =>
              /\ k \notin run[r].gone
              /\ run[r].found[k] = 0 => ~Conflicts(Bucket(r), k)
              /\ rows'[Bucket(r)][k] = Written(rows[Bucket(r)][k], run[r].found[k], run[r].got[k])
         /\ \A k \in Keys : ~(run[r].got[k] > 0) => rows'[Bucket(r)][k] = rows[Bucket(r)][k]
<1>0. run[r].stage = "looked" /\ run \in [Runs -> RunTypes] /\ run[r] \in RunTypes /\ Planned(run[r])
      /\ rows \in RowTypes
  BY DEF Commit, Types, Shape
<1> DEFINE b == Bucket(r)
           c == [k \in Keys |-> IF k \in Wanted(r) THEN Written(rows[b][k], run[r].found[k], run[r].got[k])
                                ELSE rows[b][k]]
           n == [Off EXCEPT !.stage = "next", !.hour = run[r].hour, !.plan = Tail(run[r].plan)]
           q == IF Tail(run[r].plan) = <<>> THEN Off ELSE n
<1>1. b \in Buckets
  BY <1>0, PhaseFacts DEF Bucket, BucketIn
<1>2. rows' = [rows EXCEPT ![b] = c]
  BY DEF Commit
<1>3. ASSUME NEW k \in Keys, run[r].got[k] > 0
      PROVE  /\ k \notin run[r].gone
             /\ run[r].found[k] = 0 => ~Conflicts(b, k)
             /\ c[k] = Written(rows[b][k], run[r].found[k], run[r].got[k])
             /\ c[k] \in Seq(Amounts)
  <2>1. k \in Wanted(r) /\ CanCommit(r)
    BY <1>3 DEF Wanted, Commit
  <2>2. k \notin run[r].gone /\ (run[r].found[k] = 0 => ~Conflicts(b, k))
    BY <2>1 DEF CanCommit
  <2>3. c[k] = Written(rows[b][k], run[r].found[k], run[r].got[k])
    BY <2>1
  <2>4. rows[b][k] \in Seq(Amounts) /\ run[r].found[k] \in 0 .. 1 /\ run[r].got[k] \in Amounts
    BY <1>0, <1>1, <1>3 DEF RunTypes, RowTypes, Amounts
  <2>5. Written(rows[b][k], run[r].found[k], run[r].got[k]) \in Seq(Amounts)
    BY <2>4, WrittenFacts
  <2> QED BY <2>2, <2>3, <2>5
<1>4. ASSUME NEW k \in Keys, ~(run[r].got[k] > 0) PROVE c[k] = rows[b][k] /\ c[k] \in Seq(Amounts)
  BY <1>0, <1>1, <1>4 DEF Wanted, RowTypes
<1>5. c \in [Keys -> Seq(Amounts)]
  BY <1>3, <1>4
<1>6. run' = [run EXCEPT ![r] = q]
  BY DEF Commit
<1>7. /\ q \in RunTypes
      /\ \/ q.stage = "off"
         \/ /\ q.stage = "next" /\ q.hour = run[r].hour /\ q.plan = <<"daily">>
            /\ Early(run[r].hour) /\ q.gone = {}
            /\ \A k \in Keys : q.got[k] = 0 /\ q.found[k] = 0
  <2>1. CASE Tail(run[r].plan) = <<>>
    BY <2>1, OffFacts
  <2>2. CASE Tail(run[r].plan) # <<>>
    <3>1. Tail(run[r].plan) = <<"daily">> /\ Early(run[r].hour)
      BY <1>0, <2>2, PhaseFacts
    <3>2. q = n
      BY <2>2
    <3>3. run[r].hour \in Hours /\ <<"daily">> \in Plans
      BY <1>0 DEF RunTypes, Plans
    <3>4. n = [Off EXCEPT !.stage = "next", !.hour = run[r].hour, !.plan = <<"daily">>]
      BY <3>1
    <3>5. n \in RunTypes
      BY <3>3, <3>4, OffFacts DEF RunTypes, Phases
    <3>6. n.stage = "next" /\ n.hour = run[r].hour /\ n.plan = <<"daily">> /\ n.gone = {}
          /\ n.got = NoCounts /\ n.found = NoCounts
      BY <3>4 DEF Off
    <3>7. \A k \in Keys : NoCounts[k] = 0
      BY DEF NoCounts
    <3> HIDE DEF n, q
    <3> QED BY <3>1, <3>2, <3>5, <3>6, <3>7
  <2> QED BY <2>1, <2>2
<1> HIDE DEF c, q
<1>8. run'[r] = q /\ run' \in [Runs -> RunTypes] /\ Others(r)
  BY <1>0, <1>6, <1>7 DEF Others
<1>9. rows' \in RowTypes /\ rows'[b] = c
      /\ \A e \in Buckets : e # b => rows'[e] = rows[e]
  <2> HIDE DEF b
  <2> QED BY <1>0, <1>1, <1>2, <1>5 DEF RowTypes
<1>10. \A k \in Keys : run[r].got[k] > 0 =>
         /\ k \notin run[r].gone
         /\ run[r].found[k] = 0 => ~Conflicts(b, k)
         /\ rows'[b][k] = Written(rows[b][k], run[r].found[k], run[r].got[k])
  BY <1>3, <1>9
<1>11. \A k \in Keys : ~(run[r].got[k] > 0) => rows'[b][k] = rows[b][k]
  BY <1>4, <1>9
<1>12. \/ run'[r].stage = "off"
       \/ /\ run'[r].stage = "next" /\ run'[r].hour = run[r].hour /\ run'[r].plan = <<"daily">>
          /\ Early(run[r].hour) /\ run'[r].gone = {}
          /\ \A k \in Keys : run'[r].got[k] = 0 /\ run'[r].found[k] = 0
  BY <1>7, <1>8, Zenon
<1> QED BY <1>0, <1>1, <1>8, <1>9, <1>10, <1>11, <1>12, Zenon

LEMMA FailFacts ==
  ASSUME Types, NEW r \in Runs, Fail(r)
  PROVE  run' \in [Runs -> RunTypes] /\ Others(r) /\ run'[r].stage = "off" /\ run[r].stage # "off"
<1>1. run' = [run EXCEPT ![r] = Off] /\ run \in [Runs -> RunTypes] /\ run[r].stage # "off"
  BY DEF Fail, Types
<1> QED BY <1>1, OffFacts DEF Others

\* The runs that counted the node's events cannot commit any more.
LEMMA DeleteNodeFacts ==
  ASSUME Types, Shape, DeleteNode
  PROVE  LET H == {h \in Hours : Count(events, h, "node") > 0} IN
         /\ run' \in [Runs -> RunTypes]
         /\ \A r \in Runs : run[r].stage # "off" =>
              /\ Kept(run[r], run'[r])
              /\ run[r].got["node"] > 0 => "node" \in run'[r].gone
              /\ \A k \in run'[r].gone : k \in run[r].gone \/ run[r].got[k] > 0
              /\ run[r].stage \in {"read", "looked"} /\ run[r].hour - 1 \in H => run'[r].overtaken = TRUE
         /\ \A r \in Runs : run[r].stage = "off" => run'[r].stage = "off"
<1> DEFINE H == {h \in Hours : Count(events, h, "node") > 0}
           O == Overtake(H)
           G(r) == [O[r] EXCEPT !.gone = @ \cup {"node"}]
<1>1. /\ O \in [Runs -> RunTypes]
      /\ \A r \in Runs :
           /\ Kept(run[r], O[r]) /\ O[r].gone = run[r].gone
           /\ run[r].stage \in {"read", "looked"} /\ run[r].hour - 1 \in H => O[r].overtaken = TRUE
  <2>1. run \in [Runs -> RunTypes]
    BY DEF Types
  <2> HIDE DEF H
  <2> QED BY <2>1, OvertakeFacts
<1>2. run' = [r \in Runs |-> IF "node" \in Wanted(r) THEN G(r) ELSE O[r]]
  <2>1. H = {h \in Hours : CountIn(h, "node") > 0}
    BY DEF CountIn, Count
  <2> HIDE DEF H
  <2> QED BY <2>1 DEF DeleteNode
<1> HIDE DEF O, H
<1>3. ASSUME NEW r \in Runs, run[r].got["node"] > 0
      PROVE  /\ run'[r] \in RunTypes /\ Kept(run[r], run'[r])
             /\ run'[r].gone = run[r].gone \cup {"node"} /\ run'[r].overtaken = O[r].overtaken
  <2>1. run'[r] = G(r)
    BY <1>2, <1>3 DEF Wanted, Keys
  <2>2. O[r] \in RunTypes /\ Kept(run[r], O[r]) /\ O[r].gone = run[r].gone
    BY <1>1
  <2>3. G(r) \in RunTypes /\ Kept(run[r], G(r)) /\ G(r).gone = O[r].gone \cup {"node"}
        /\ G(r).overtaken = O[r].overtaken
    BY <2>2 DEF RunTypes, Kept, Keys
  <2> HIDE DEF G
  <2> QED BY <2>1, <2>2, <2>3
<1>4. ASSUME NEW r \in Runs, ~(run[r].got["node"] > 0) PROVE run'[r] = O[r]
  BY <1>2, <1>4 DEF Wanted
<1>5. run' \in [Runs -> RunTypes]
  <2>1. \A r \in Runs : run'[r] \in RunTypes
    BY <1>1, <1>3, <1>4
  <2> QED BY <1>2, <2>1
<1>6. ASSUME NEW r \in Runs
      PROVE  /\ Kept(run[r], run'[r])
             /\ run[r].got["node"] > 0 => "node" \in run'[r].gone
             /\ \A k \in run'[r].gone : k \in run[r].gone \/ run[r].got[k] > 0
             /\ run[r].stage \in {"read", "looked"} /\ run[r].hour - 1 \in H => run'[r].overtaken = TRUE
  <2>1. CASE run[r].got["node"] > 0
    BY <1>1, <1>3, <2>1
  <2>2. CASE ~(run[r].got["node"] > 0)
    BY <1>1, <1>4, <2>2
  <2> QED BY <2>1, <2>2
<1>7. \A r \in Runs : run[r].stage = "off" => run'[r].stage = "off"
  BY <1>6 DEF Kept
<1> QED BY <1>5, <1>6, <1>7 DEF H

\* A run that found a row which retention then deleted cannot commit.
LEMMA RetainRollupsFacts ==
  ASSUME Types, RetainRollups
  PROVE  LET old == {b \in Buckets : StartOf(b) < Cutoff(RollupDays)} IN
         /\ run' \in [Runs -> RunTypes]
         /\ \A r \in Runs :
              /\ Kept(run[r], run'[r])
              /\ run[r].stage = "looked" /\ Bucket(r) \in old =>
                   \A k \in Keys : run[r].found[k] = 1 => k \in run'[r].gone
              /\ \A k \in run'[r].gone : k \in run[r].gone \/ run[r].found[k] = 1
         /\ rows' \in RowTypes
         /\ \A b \in Buckets : b \notin old => rows'[b] = rows[b]
         /\ \A b \in old, k \in Keys : rows'[b][k] = <<>>
<1> DEFINE old == {b \in Buckets : StartOf(b) < Cutoff(RollupDays)}
           F(r) == {k \in Keys : run[r].found[k] = 1}
           G(r) == [run[r] EXCEPT !.gone = @ \cup F(r)]
<1>0. run \in [Runs -> RunTypes] /\ rows \in RowTypes
  BY DEF Types
<1>1. run' = [r \in Runs |-> IF run[r].stage = "looked" /\ Bucket(r) \in old THEN G(r) ELSE run[r]]
      /\ rows' = [b \in Buckets |-> IF b \in old THEN [k \in Keys |-> <<>>] ELSE rows[b]]
  BY DEF RetainRollups
<1>a. old \subseteq Buckets
  OBVIOUS
<1> HIDE DEF old
<1>2. ASSUME NEW r \in Runs
      PROVE  /\ run'[r] \in RunTypes /\ Kept(run[r], run'[r])
             /\ run[r].stage = "looked" /\ Bucket(r) \in old =>
                  \A k \in Keys : run[r].found[k] = 1 => k \in run'[r].gone
             /\ \A k \in run'[r].gone : k \in run[r].gone \/ run[r].found[k] = 1
  <2>1. CASE run[r].stage = "looked" /\ Bucket(r) \in old
    <3>1. run'[r] = G(r) /\ run[r] \in RunTypes /\ F(r) \subseteq Keys
      BY <1>0, <1>1, <2>1
    <3>2. G(r) \in RunTypes /\ Kept(run[r], G(r)) /\ G(r).gone = run[r].gone \cup F(r)
      <4> HIDE DEF F
      <4> QED BY <3>1 DEF RunTypes, Kept
    <3>3. (\A k \in Keys : run[r].found[k] = 1 => k \in F(r)) /\ \A k \in F(r) : run[r].found[k] = 1
      OBVIOUS
    <3> HIDE DEF F, G
    <3> QED BY <2>1, <3>1, <3>2, <3>3
  <2>2. CASE ~(run[r].stage = "looked" /\ Bucket(r) \in old)
    <3>1. run'[r] = run[r]
      BY <1>1, <2>2
    <3> QED BY <1>0, <2>2, <3>1 DEF Kept
  <2> QED BY <2>1, <2>2
<1>3. run' \in [Runs -> RunTypes]
  <2> HIDE DEF G
  <2> QED BY <1>1, <1>2
<1>4. /\ \A b \in Buckets : b \notin old => rows'[b] = rows[b]
      /\ \A b \in old, k \in Keys : rows'[b][k] = <<>>
  BY <1>1, <1>a
<1>5. rows' \in RowTypes
  <2>1. [k \in Keys |-> <<>>] \in [Keys -> Seq(Amounts)]
    OBVIOUS
  <2> QED BY <1>0, <1>1, <2>1 DEF RowTypes
<1> QED BY <1>2, <1>3, <1>4, <1>5 DEF old

-----------------------------------------------------------------------------
(* Types and shape are kept *)

Basic == Types /\ Shape

\* A step after which every run is kept, or off.
LEMMA ShapeKept ==
  ASSUME Basic, run' \in [Runs -> RunTypes], UNCHANGED now,
         \A r \in Runs : run[r].stage # "off" =>
           Kept(run[r], run'[r]) /\ \A k \in run'[r].gone : k \in run[r].gone \/ run[r].got[k] > 0,
         \A r \in Runs : run[r].stage = "off" => run'[r].stage = "off"
  PROVE  Shape'
<1> SUFFICES ASSUME NEW r \in Runs, run'[r].stage # "off" PROVE Planned(run'[r]) /\ Timely(run'[r], now')
  BY DEF Shape
<1>1. run[r].stage # "off" /\ Planned(run[r]) /\ Timely(run[r], now) /\ Kept(run[r], run'[r])
  BY DEF Basic, Shape
<1>2. Planned(run'[r])
  <2>1. run[r] \in RunTypes /\ run'[r] \in RunTypes
    BY DEF Basic, Types
  <2> QED BY <1>1, <2>1, KeptPlanned
<1>3. Timely(run'[r], now')
  BY <1>1 DEF Timely, Kept
<1> QED BY <1>2, <1>3

\* A step of one run.
LEMMA ShapeOfOne ==
  ASSUME Basic, NEW r \in Runs, Others(r), UNCHANGED now,
         run'[r].stage # "off" => Planned(run'[r]) /\ Timely(run'[r], now')
  PROVE  Shape'
<1> SUFFICES ASSUME NEW a \in Runs, a # r, run'[a].stage # "off" PROVE Planned(run'[a]) /\ Timely(run'[a], now')
  BY DEF Shape
<1>1. run'[a] = run[a] /\ Planned(run[a]) /\ Timely(run[a], now)
  BY DEF Others, Basic, Shape
<1> QED BY <1>1 DEF Timely

LEMMA StartBasic == ASSUME Basic, NEW r \in Runs, Start(r) PROVE Basic'
<1>0. HourOf(now) \in RunHours /\ UNCHANGED <<now, events, rows, retaining, clean, healed>> /\ starts' \in 0 .. MaxStarts
  <2>1. HourOf(now) \in RunHours
    BY ClockFacts DEF Basic, Types
  <2>2. starts' = starts + 1 /\ starts < MaxStarts /\ starts \in 0 .. MaxStarts
        /\ UNCHANGED <<now, events, rows, retaining, clean, healed>>
    BY DEF Basic, Types, Start
  <2> QED BY <2>1, <2>2
<1>1. /\ run' \in [Runs -> RunTypes] /\ run[r].stage = "off"
      /\ \A a \in Runs : run[a].stage # "off" =>
           Kept(run[a], run'[a]) /\ run'[a].gone = run[a].gone /\ run'[a].overtaken = TRUE
      /\ \A a \in Runs : a # r /\ run[a].stage = "off" => run'[a].stage = "off"
      /\ run'[r].stage = "read" /\ run'[r].hour = HourOf(now) /\ run'[r].plan = Plan(HourOf(now))
      /\ \A k \in Keys : run'[r].found[k] = 0
      /\ run'[r].gone = {}
  BY StartFacts DEF Basic
<1>2. excused' \subseteq Buckets
  <2>1. BucketsOf(HourOf(now)) \subseteq Buckets
    BY <1>0, BucketFacts
  <2>2. \A a \in Active : BucketsOf(run[a].hour) \subseteq Buckets
    <3> SUFFICES ASSUME NEW a \in Active PROVE BucketsOf(run[a].hour) \subseteq Buckets
      OBVIOUS
    <3>1. run[a].hour \in RunHours
      BY DEF Basic, Shape, Planned, Active
    <3> QED BY <3>1, BucketFacts
  <2>3. excused \subseteq Buckets
    BY DEF Basic, Types
  <2> QED BY <2>1, <2>2, <2>3 DEF Start
<1>3. Types'
  BY <1>0, <1>1, <1>2 DEF Basic, Types
<1>4. Shape'
  <2> SUFFICES ASSUME NEW a \in Runs, run'[a].stage # "off" PROVE Planned(run'[a]) /\ Timely(run'[a], now')
    BY DEF Shape
  <2>1. CASE a = r
    <3>1. HourOf(now) \in Nat
      BY <1>0, ClockFacts
    <3> QED BY <1>0, <1>1, <2>1, <3>1 DEF Planned, Timely
  <2>2. CASE a # r
    <3>1. run[a].stage # "off" /\ Kept(run[a], run'[a]) /\ run'[a].gone = run[a].gone
      BY <1>1, <2>2
    <3>2. run[a] \in RunTypes /\ run'[a] \in RunTypes /\ Planned(run[a]) /\ Timely(run[a], now)
      BY <1>1, <3>1 DEF Basic, Types, Shape
    <3>3. Planned(run'[a])
      BY <3>1, <3>2, KeptPlanned
    <3>4. Timely(run'[a], now')
      BY <1>0, <3>1, <3>2 DEF Timely, Kept
    <3> QED BY <3>3, <3>4
  <2> QED BY <2>1, <2>2
<1> QED BY <1>3, <1>4 DEF Basic

LEMMA ReadDayBasic == ASSUME Basic, NEW r \in Runs, ReadDay(r) PROVE Basic'
<1>0. UNCHANGED <<now, starts, events, rows, retaining, clean, healed, excused>>
  BY DEF ReadDay, Stating
<1>1. /\ run' \in [Runs -> RunTypes] /\ run[r].stage = "next" /\ Others(r)
      /\ run'[r].stage = "read" /\ run'[r].hour = run[r].hour /\ run'[r].plan = run[r].plan
      /\ run[r].plan = <<"daily">>
      /\ \A k \in Keys : run'[r].found[k] = 0
      /\ run'[r].gone = {}
  BY ReadDayFacts DEF Basic
<1>2. Types'
  BY <1>0, <1>1 DEF Basic, Types
<1>3. Planned(run[r]) /\ Timely(run[r], now)
  BY <1>1 DEF Basic, Shape
<1>4. Early(run[r].hour)
  BY <1>1, <1>3 DEF Planned
<1>5. Planned(run'[r]) /\ Timely(run'[r], now')
  BY <1>0, <1>1, <1>3, <1>4 DEF Planned, Timely
<1> QED BY <1>0, <1>1, <1>2, <1>5, ShapeOfOne DEF Basic

LEMMA LookupBasic == ASSUME Basic, NEW r \in Runs, Lookup(r) PROVE Basic'
<1>0. UNCHANGED <<now, starts, events, rows, retaining, clean, healed, excused>>
  BY DEF Lookup, Stating
<1>1. /\ run' \in [Runs -> RunTypes] /\ run[r].stage = "read" /\ Others(r)
      /\ run'[r].stage = "looked" /\ run'[r].hour = run[r].hour /\ run'[r].plan = run[r].plan
      /\ run'[r].got = run[r].got /\ run'[r].gone = run[r].gone
      /\ \A k \in Keys : ~(run[r].got[k] > 0) => run'[r].found[k] = 0
  BY LookupFacts DEF Basic
<1>2. Types'
  BY <1>0, <1>1 DEF Basic, Types
<1>3. Planned(run[r]) /\ Timely(run[r], now)
  BY <1>1 DEF Basic, Shape
<1>4. Planned(run'[r]) /\ Timely(run'[r], now')
  BY <1>0, <1>1, <1>3 DEF Planned, Timely
<1> QED BY <1>0, <1>1, <1>2, <1>4, ShapeOfOne DEF Basic

LEMMA CommitBasic == ASSUME Basic, NEW r \in Runs, Commit(r) PROVE Basic'
<1>0. UNCHANGED <<now, starts, events, retaining, excused>>
  BY DEF Commit
<1>1. /\ run' \in [Runs -> RunTypes] /\ run[r].stage = "looked" /\ Others(r)
      /\ \/ run'[r].stage = "off"
         \/ /\ run'[r].stage = "next" /\ run'[r].hour = run[r].hour /\ run'[r].plan = <<"daily">>
            /\ Early(run[r].hour) /\ run'[r].gone = {}
            /\ \A k \in Keys : run'[r].got[k] = 0 /\ run'[r].found[k] = 0
      /\ rows' \in RowTypes
  BY CommitFacts DEF Basic
<1>2. Planned(run[r]) /\ Timely(run[r], now) /\ run[r].hour \in RunHours
  BY <1>1 DEF Basic, Shape, Planned
<1>3. clean' \subseteq Hours
  <2>1. Head(run[r].plan) = "hourly" => Bucket(r)[2] \in Hours
    BY <1>2, ClockFacts DEF Bucket, Writes
  <2>2. Bucket(r)[1] = "daily" \/ Head(run[r].plan) = "hourly"
    BY DEF Bucket, Writes
  <2> QED BY <2>1, <2>2 DEF Commit, Basic, Types
<1>4. healed' \subseteq Days
  <2>1. DayOf(run[r].hour) - 1 \in Days
    BY <1>2, DayFacts
  <2> QED BY <2>1 DEF Commit, Basic, Types
<1>5. Types'
  BY <1>0, <1>1, <1>3, <1>4 DEF Basic, Types
<1>6. run'[r].stage # "off" => Planned(run'[r]) /\ Timely(run'[r], now')
  BY <1>0, <1>1, <1>2 DEF Planned, Timely
<1> QED BY <1>0, <1>1, <1>5, <1>6, ShapeOfOne DEF Basic

LEMMA FailBasic == ASSUME Basic, NEW r \in Runs, Fail(r) PROVE Basic'
<1>0. UNCHANGED <<now, starts, events, rows, retaining, clean, healed, excused>>
  BY DEF Fail, Stating
<1>1. run' \in [Runs -> RunTypes] /\ Others(r) /\ run'[r].stage = "off"
  BY FailFacts DEF Basic
<1>2. Types'
  BY <1>0, <1>1 DEF Basic, Types
<1> QED BY <1>0, <1>1, <1>2, ShapeOfOne DEF Basic

\* The kinds of events that are stored, renamed and deleted.
LEMMA EventsTyped ==
  ASSUME Types, StoreEvent \/ DeleteNode \/ RetainEvents
  PROVE  events' \in EventTypes
<1>0. events \in EventTypes /\ now \in Clock /\ now \in Nat
  BY ClockFacts DEF Types
<1>1. CASE StoreEvent
  <2>1. PICK t \in {now - a : a \in Ages} : events' = [events EXCEPT ![t]["node"] = @ + 1]
    BY <1>1 DEF StoreEvent
  <2>2. t \in Ticks /\ "node" \in Keys
    <3>1. now <= MaxTick /\ now >= StartTick /\ Ages \subseteq 1 .. StartTick /\ MaxTick \in Ticks
      BY <1>0 DEF Clock, Ticks, MaxHour
    <3>2. t <= now - 1 /\ t >= now - StartTick /\ t \in Int
      BY <1>0, <2>1
    <3>3. t \in Nat /\ t <= MaxTick
      BY <1>0, <3>1, <3>2
    <3>4. MaxHour \in Nat
      BY ClockFacts
    <3> QED BY <3>1, <3>3, <3>4 DEF Ticks, Keys
  <2>3. events[t] \in [Keys -> Nat] /\ events[t]["node"] \in Nat
    BY <1>0, <2>2 DEF EventTypes
  <2> DEFINE e == [events[t] EXCEPT !["node"] = @ + 1]
  <2>4. e \in [Keys -> Nat]
    BY <2>2, <2>3
  <2>5. events' = [events EXCEPT ![t] = e]
    BY <2>1
  <2> HIDE DEF e
  <2> QED BY <1>0, <2>2, <2>4, <2>5 DEF EventTypes
<1>2. CASE DeleteNode
  <2>1. events' = [t \in Ticks |-> [events[t] EXCEPT !["null"] = @ + events[t]["node"], !["node"] = 0]]
    BY <1>2 DEF DeleteNode
  <2>2. ASSUME NEW t \in Ticks
        PROVE  [events[t] EXCEPT !["null"] = @ + events[t]["node"], !["node"] = 0] \in [Keys -> Nat]
    <3>1. events[t] \in [Keys -> Nat] /\ "node" \in Keys /\ "null" \in Keys
      BY <1>0 DEF Keys, EventTypes
    <3>2. events[t]["null"] + events[t]["node"] \in Nat
      BY <3>1
    <3> QED BY <3>1, <3>2
  <2> QED BY <2>1, <2>2 DEF EventTypes
<1>3. CASE RetainEvents
  <2>1. events' = [t \in Ticks |-> IF t < Cutoff(EventDays) THEN NoCounts ELSE events[t]]
    BY <1>3 DEF RetainEvents
  <2>2. NoCounts \in [Keys -> Nat]
    BY DEF NoCounts
  <2> QED BY <1>0, <2>1, <2>2 DEF EventTypes
<1> QED BY <1>1, <1>2, <1>3

LEMMA StoreEventBasic == ASSUME Basic, StoreEvent PROVE Basic'
<1>0. UNCHANGED <<now, starts, rows, retaining, healed, excused>> /\ clean' \subseteq clean
  BY DEF StoreEvent
<1>1. PICK t : run' = Overtake({HourOf(t)})
  BY DEF StoreEvent
<1>2. run' \in [Runs -> RunTypes] /\ \A r \in Runs : Kept(run[r], run'[r]) /\ run'[r].gone = run[r].gone
  BY <1>1, OvertakeFacts DEF Basic, Types
<1>3. Types'
  BY <1>0, <1>2, EventsTyped DEF Basic, Types
<1>4. Shape'
  BY <1>0, <1>2, ShapeKept DEF Kept
<1> QED BY <1>3, <1>4 DEF Basic

LEMMA DeleteNodeBasic == ASSUME Basic, DeleteNode PROVE Basic'
<1>0. UNCHANGED <<now, starts, retaining, healed, excused>> /\ clean' \subseteq clean
      /\ rows' = [b \in Buckets |-> [rows[b] EXCEPT !["node"] = <<>>]]
  BY DEF DeleteNode
<1>1. /\ run' \in [Runs -> RunTypes]
      /\ \A r \in Runs : run[r].stage # "off" =>
           /\ Kept(run[r], run'[r])
           /\ \A k \in run'[r].gone : k \in run[r].gone \/ run[r].got[k] > 0
      /\ \A r \in Runs : run[r].stage = "off" => run'[r].stage = "off"
  BY DeleteNodeFacts DEF Basic
<1>2. rows' \in RowTypes
  <2>1. rows \in RowTypes /\ <<>> \in Seq(Amounts)
    BY DEF Basic, Types
  <2>2. \A b \in Buckets : [rows[b] EXCEPT !["node"] = <<>>] \in [Keys -> Seq(Amounts)]
    BY <2>1 DEF RowTypes
  <2> QED BY <1>0, <2>2 DEF RowTypes
<1>3. Types'
  BY <1>0, <1>1, <1>2, EventsTyped DEF Basic, Types
<1>4. Shape'
  BY <1>0, <1>1, ShapeKept
<1> QED BY <1>3, <1>4 DEF Basic

LEMMA RetainEventsBasic == ASSUME Basic, RetainEvents PROVE Basic'
<1>0. UNCHANGED <<now, starts, rows, healed, excused>> /\ clean' \subseteq clean /\ retaining' = TRUE
  BY DEF RetainEvents
<1>1. PICK H : run' = Overtake(H)
  BY DEF RetainEvents
<1>2. run' \in [Runs -> RunTypes] /\ \A r \in Runs : Kept(run[r], run'[r]) /\ run'[r].gone = run[r].gone
  BY <1>1, OvertakeFacts DEF Basic, Types
<1>3. Types'
  BY <1>0, <1>2, EventsTyped DEF Basic, Types
<1>4. Shape'
  BY <1>0, <1>2, ShapeKept DEF Kept
<1> QED BY <1>3, <1>4 DEF Basic

LEMMA RetainRollupsBasic == ASSUME Basic, RetainRollups PROVE Basic'
<1>0. UNCHANGED <<now, starts, events, healed>> /\ clean' \subseteq clean /\ retaining' = FALSE
      /\ excused' \subseteq excused \cup Buckets
  BY DEF RetainRollups
<1>1. /\ run' \in [Runs -> RunTypes] /\ rows' \in RowTypes
      /\ \A r \in Runs : /\ Kept(run[r], run'[r])
                         /\ \A k \in run'[r].gone : k \in run[r].gone \/ run[r].found[k] = 1
  BY RetainRollupsFacts DEF Basic
<1>2. Types'
  BY <1>0, <1>1 DEF Basic, Types
<1>3. ASSUME NEW r \in Runs, run[r].stage # "off"
      PROVE  \A k \in run'[r].gone : k \in run[r].gone \/ run[r].got[k] > 0
  BY <1>1, <1>3 DEF Basic, Shape, Planned, RunTypes
<1>4. Shape'
  BY <1>0, <1>1, <1>3, ShapeKept DEF Kept
<1> QED BY <1>2, <1>4 DEF Basic

LEMMA RetentionFailsBasic == ASSUME Basic, RetentionFails PROVE Basic'
BY DEF RetentionFails, Stating, Basic, Types, Shape, Timely

LEMMA TickBasic == ASSUME Basic, Tick PROVE Basic'
<1>1. now' = now + 1 /\ now < MaxTick /\ UNCHANGED <<starts, events, rows, run, retaining, clean, healed, excused>>
      /\ now \in Clock
  BY DEF Tick, Stating, Basic, Types
<1>2. now' \in Clock /\ HourOf(now) <= HourOf(now')
  BY <1>1 DEF Clock, HourOf
<1>3. Types'
  BY <1>1, <1>2 DEF Basic, Types
<1>4. Shape'
  <2> SUFFICES ASSUME NEW r \in Runs, run[r].stage # "off" PROVE Planned(run[r]) /\ Timely(run[r], now')
    BY <1>1 DEF Shape
  <2>1. Planned(run[r]) /\ run[r].hour <= HourOf(now) /\ run[r].hour \in Nat
    BY ClockFacts DEF Basic, Shape, Timely, Planned
  <2>2. HourOf(now') <= run[r].hour + 1
    BY <1>1 DEF Tick, Active
  <2>3. HourOf(now) \in Nat /\ HourOf(now') \in Nat
    BY <1>1, <1>2, ClockFacts
  <2> QED BY <1>1, <1>2, <2>1, <2>2, <2>3 DEF Timely
<1> QED BY <1>3, <1>4 DEF Basic

LEMMA StutterBasic == ASSUME Basic, UNCHANGED vars PROVE Basic'
BY DEF vars, Basic, Types, Shape, Timely

LEMMA InitBasic == ASSUME Init PROVE Basic
<1>1. run = [r \in Runs |-> Off] /\ run \in [Runs -> RunTypes] /\ \A r \in Runs : run[r].stage = "off"
  BY OffFacts DEF Init
<1>2. events \in EventTypes
  <2>1. NoCounts \in [Keys -> Nat]
    BY DEF NoCounts
  <2> QED BY <2>1 DEF Init, EventTypes
<1>3. rows \in RowTypes
  <2>1. [k \in Keys |-> <<>>] \in [Keys -> Seq(Amounts)]
    OBVIOUS
  <2> QED BY <2>1 DEF Init, RowTypes
<1>4. now \in Clock /\ starts \in 0 .. MaxStarts
  BY DEF Init, Clock
<1>5. Types
  BY <1>1, <1>2, <1>3, <1>4 DEF Types, Init
<1> QED BY <1>1, <1>5 DEF Basic, Shape

LEMMA NextBasic == ASSUME Basic, [Next]_vars PROVE Basic'
BY StartBasic, ReadDayBasic, LookupBasic, CommitBasic, FailBasic, StoreEventBasic, DeleteNodeBasic,
   RetainEventsBasic, RetainRollupsBasic, RetentionFailsBasic, TickBasic, StutterBasic
   DEF Next, RunStep

-----------------------------------------------------------------------------
(* The number of events, and type correctness *)

StoredBound == Stored <= MaxEvents

TicksOf(e) == [t \in Ticks |-> e[t]["node"] + e[t]["null"]]

LEMMA TickSums ==
  ASSUME NEW e \in EventTypes
  PROVE  /\ \A t \in Ticks : TicksOf(e)[t] = e[t]["node"] + e[t]["null"]
         /\ \A t \in Ticks : e[t]["node"] \in Nat /\ e[t]["null"] \in Nat /\ TicksOf(e)[t] \in Nat
         /\ \A T : T \subseteq Ticks => IsFiniteSet(T) /\ NatOn(TicksOf(e), T)
         /\ Sum(TicksOf(e), Ticks) \in Nat
<1>1. \A t \in Ticks : TicksOf(e)[t] = e[t]["node"] + e[t]["null"]
  BY DEF TicksOf
<1>2. \A t \in Ticks : e[t]["node"] \in Nat /\ e[t]["null"] \in Nat
  BY DEF Keys, EventTypes
<1>3. \A t \in Ticks : TicksOf(e)[t] \in Nat
  BY <1>1, <1>2
<1>4. IsFiniteSet(Ticks)
  <2>1. 0 \in Int /\ 2 * MaxHour + 1 \in Int
    BY ClockFacts
  <2> QED BY <2>1, FS_Interval DEF Ticks
<1>5. \A T : T \subseteq Ticks => IsFiniteSet(T) /\ NatOn(TicksOf(e), T)
  BY <1>3, <1>4, FS_Subset DEF NatOn
<1>6. Sum(TicksOf(e), Ticks) \in Nat
  BY <1>5, SumInNat
<1> QED BY <1>1, <1>2, <1>3, <1>5, <1>6

LEMMA StoredIs == PerTick = TicksOf(events) /\ Stored = Sum(TicksOf(events), Ticks)
<1>1. PerTick = TicksOf(events)
  BY DEF PerTick, InTick, TicksOf
<1>2. DOMAIN PerTick = Ticks
  BY DEF PerTick
<1> QED BY <1>1, <1>2 DEF Stored, SumFunction, Sum

LEMMA StoredIsNext == PerTick' = TicksOf(events') /\ Stored' = Sum(TicksOf(events'), Ticks)
<1>1. PerTick' = TicksOf(events')
  BY DEF PerTick, InTick, TicksOf
<1>2. DOMAIN (PerTick') = Ticks
  BY DEF PerTick
<1> QED BY <1>1, <1>2 DEF Stored, SumFunction, Sum

\* The change that StoreEvent makes to the table of events.
LEMMA StoreEventFacts ==
  ASSUME Basic, StoreEvent
  PROVE  \E t \in Ticks :
           /\ run' = Overtake({HourOf(t)}) /\ clean' = clean \ {HourOf(t)}
           /\ events'[t]["node"] = events[t]["node"] + 1
           /\ events'[t]["null"] = events[t]["null"]
           /\ \A u \in Ticks : u # t => events'[u] = events[u]
<1>0. events \in EventTypes /\ now \in Clock /\ now \in Nat
  BY ClockFacts DEF Basic, Types
<1>1. PICK t \in {now - a : a \in Ages} :
        /\ events' = [events EXCEPT ![t]["node"] = @ + 1]
        /\ run' = Overtake({HourOf(t)}) /\ clean' = clean \ {HourOf(t)}
  BY DEF StoreEvent
<1>2. t \in Ticks
  <2>1. now <= MaxTick /\ now >= StartTick /\ Ages \subseteq 1 .. StartTick /\ MaxTick \in Ticks /\ MaxHour \in Nat
    BY <1>0, ClockFacts DEF Clock, Ticks, MaxHour
  <2>2. t <= now - 1 /\ t >= now - StartTick /\ t \in Int
    BY <1>0, <1>1
  <2>3. t \in Nat /\ t <= MaxTick
    BY <1>0, <2>1, <2>2
  <2> QED BY <2>1, <2>3 DEF Ticks
<1>3. events[t] \in [Keys -> Nat]
  BY <1>0, <1>2 DEF EventTypes
<1>4. /\ events'[t]["node"] = events[t]["node"] + 1
      /\ events'[t]["null"] = events[t]["null"]
      /\ \A u \in Ticks : u # t => events'[u] = events[u]
  BY <1>0, <1>1, <1>2, <1>3 DEF Keys, EventTypes
<1> QED BY <1>1, <1>2, <1>4

LEMMA DeleteNodeEvents ==
  ASSUME Basic, DeleteNode
  PROVE  \A t \in Ticks : events'[t]["node"] = 0 /\ events'[t]["null"] = events[t]["null"] + events[t]["node"]
<1> SUFFICES ASSUME NEW t \in Ticks
             PROVE  events'[t]["node"] = 0 /\ events'[t]["null"] = events[t]["null"] + events[t]["node"]
  OBVIOUS
<1>1. events[t] \in [Keys -> Nat] /\ "node" \in Keys /\ "null" \in Keys
  BY DEF Basic, Types, Keys, EventTypes
<1>2. events'[t] = [events[t] EXCEPT !["null"] = @ + events[t]["node"], !["node"] = 0]
  BY DEF DeleteNode
<1> QED BY <1>1, <1>2

\* One more event in one tick; the same number in every tick; no more in any.
LEMMA StoredStep == ASSUME Basic, StoredBound, [Next]_vars PROVE StoredBound'
<1>0. events \in EventTypes /\ events' \in EventTypes
  BY NextBasic DEF Basic, Types
<1> DEFINE P == TicksOf(events)
           Q == TicksOf(events')
<1>1. /\ \A t \in Ticks : P[t] = events[t]["node"] + events[t]["null"]
      /\ \A t \in Ticks : events[t]["node"] \in Nat /\ events[t]["null"] \in Nat /\ P[t] \in Nat
      /\ \A T : T \subseteq Ticks => IsFiniteSet(T) /\ NatOn(P, T)
      /\ Stored = Sum(P, Ticks) /\ Stored \in Nat
  BY <1>0, TickSums, StoredIs
<1>2. /\ \A t \in Ticks : Q[t] = events'[t]["node"] + events'[t]["null"]
      /\ \A t \in Ticks : events'[t]["node"] \in Nat /\ events'[t]["null"] \in Nat /\ Q[t] \in Nat
      /\ \A T : T \subseteq Ticks => IsFiniteSet(T) /\ NatOn(Q, T)
      /\ Stored' = Sum(Q, Ticks) /\ Stored' \in Nat
  BY <1>0, TickSums, StoredIsNext
<1>3. MaxEvents \in Nat /\ Stored <= MaxEvents
  BY DEF StoredBound
<1> SUFFICES Stored' <= MaxEvents
  BY DEF StoredBound
<1> HIDE DEF P, Q
<1>4. CASE StoreEvent
  <2>1. PICK t \in Ticks :
           /\ events'[t]["node"] = events[t]["node"] + 1
           /\ events'[t]["null"] = events[t]["null"]
           /\ \A u \in Ticks : u # t => events'[u] = events[u]
    BY <1>4, StoreEventFacts
  <2>2. Q[t] = P[t] + 1
    BY <1>1, <1>2, <2>1
  <2>3. \A u \in Ticks \ {t} : Q[u] = P[u]
    BY <1>1, <1>2, <2>1
  <2>4. Sum(P, Ticks) = P[t] + Sum(P, Ticks \ {t}) /\ Sum(Q, Ticks) = Q[t] + Sum(Q, Ticks \ {t})
    <3>1. IsFiniteSet(Ticks) /\ NatOn(P, Ticks) /\ NatOn(Q, Ticks)
      BY <1>1, <1>2
    <3> QED BY <3>1, SumRemove
  <2>5. Sum(Q, Ticks \ {t}) = Sum(P, Ticks \ {t})
    <3>1. Ticks \ {t} \subseteq Ticks
      OBVIOUS
    <3>2. IsFiniteSet(Ticks \ {t}) /\ NatOn(P, Ticks \ {t}) /\ NatOn(Q, Ticks \ {t})
      BY <1>1, <1>2, <3>1
    <3> QED BY <2>3, <3>2, SumCongruent
  <2>6. Sum(P, Ticks \ {t}) \in Nat
    BY <1>1, SumInNat
  <2>7. Stored < MaxEvents
    BY <1>4 DEF StoreEvent
  <2> QED BY <1>1, <1>2, <1>3, <2>2, <2>4, <2>5, <2>6, <2>7
<1>5. CASE DeleteNode
  <2>1. \A t \in Ticks : Q[t] = P[t]
    BY <1>1, <1>2, <1>5, DeleteNodeEvents
  <2>2. Sum(Q, Ticks) = Sum(P, Ticks)
    BY <1>1, <1>2, <2>1, SumCongruent
  <2> QED BY <1>1, <1>2, <1>3, <2>2
<1>6. CASE RetainEvents
  <2>1. \A t \in Ticks : Q[t] <= P[t]
    <3> SUFFICES ASSUME NEW t \in Ticks PROVE Q[t] <= P[t]
      OBVIOUS
    <3>1. events'[t] = NoCounts \/ events'[t] = events[t]
      BY <1>6 DEF RetainEvents
    <3>2. NoCounts["node"] = 0 /\ NoCounts["null"] = 0
      BY DEF NoCounts, Keys
    <3> QED BY <1>1, <1>2, <3>1, <3>2
  <2>2. Sum(Q, Ticks) <= Sum(P, Ticks)
    BY <1>1, <1>2, <2>1, SumMonotone
  <2> QED BY <1>1, <1>2, <1>3, <2>2
<1>7. CASE UNCHANGED events
  <2>1. Q = P
    BY <1>7 DEF P, Q
  <2> QED BY <1>1, <1>2, <1>3, <2>1
<1>8. StoreEvent \/ DeleteNode \/ RetainEvents \/ UNCHANGED events
  BY DEF Next, RunStep, Start, ReadDay, Lookup, Commit, Fail, RetainRollups, RetentionFails, Tick, vars
<1> QED BY <1>4, <1>5, <1>6, <1>7, <1>8

LEMMA InitStored == ASSUME Init PROVE StoredBound
<1>0. events \in EventTypes
  BY InitBasic DEF Basic, Types
<1>1. \A t \in Ticks : TicksOf(events)[t] = 0
  <2>1. NoCounts["node"] = 0 /\ NoCounts["null"] = 0
    BY DEF NoCounts, Keys
  <2>2. \A t \in Ticks : events[t] = NoCounts
    BY DEF Init
  <2> QED BY <1>0, <2>1, <2>2, TickSums
<1>2. Sum(TicksOf(events), Ticks) = 0
  BY <1>0, <1>1, TickSums, SumOfZeros
<1> QED BY <1>2, StoredIs DEF StoredBound

LEMMA TypesAreTypes == ASSUME Basic, StoredBound PROVE TypeOK
<1>0. events \in EventTypes /\ rows \in RowTypes /\ run \in [Runs -> RunTypes] /\ now \in Clock
  BY DEF Basic, Types
<1>1. now \in Ticks
  BY <1>0, ClockFacts
<1>2. events \in [Ticks -> [Keys -> 0 .. MaxEvents]]
  <2>1. ASSUME NEW t \in Ticks, NEW k \in Keys PROVE events[t][k] \in 0 .. MaxEvents
    <3>1. TicksOf(events)[t] <= Sum(TicksOf(events), Ticks)
      BY <1>0, TickSums, TermAtMostSum
    <3>2. /\ TicksOf(events)[t] = events[t]["node"] + events[t]["null"]
          /\ events[t]["node"] \in Nat /\ events[t]["null"] \in Nat
          /\ Sum(TicksOf(events), Ticks) \in Nat
      BY <1>0, TickSums
    <3>3. Sum(TicksOf(events), Ticks) <= MaxEvents
      BY StoredIs DEF StoredBound
    <3>4. events[t]["node"] \in 0 .. MaxEvents /\ events[t]["null"] \in 0 .. MaxEvents
      BY <3>1, <3>2, <3>3
    <3> QED BY <3>4 DEF Keys
  <2> QED BY <1>0, <2>1 DEF EventTypes
<1>3. rows \in [Buckets -> [Keys -> Seq(Nat)]]
  <2>1. \A s \in Seq(Amounts) : s \in Seq(Nat)
    BY DEF Amounts
  <2> QED BY <1>0, <2>1 DEF RowTypes
<1>4. ASSUME NEW r \in Runs
      PROVE  /\ run[r].stage \in {"off", "next", "read", "looked"}
             /\ run[r].hour \in Hours /\ run[r].plan \in Seq(Grans)
             /\ run[r].stage # "off" => Bucket(r) \in Buckets
             /\ run[r].got \in [Keys -> Nat] /\ run[r].found \in [Keys -> 0 .. 1]
             /\ run[r].gone \subseteq Keys /\ run[r].overtaken \in BOOLEAN
  <2>1. run[r] \in RunTypes
    BY <1>0
  <2>2. \A p \in Plans : p \in Seq(Grans)
    <3>1. <<>> \in Seq(Grans) /\ <<"hourly">> \in Seq(Grans) /\ <<"daily">> \in Seq(Grans)
      BY DEF Grans
    <3>2. <<"hourly", "daily">> \in Seq(Grans)
      BY DEF Grans
    <3> QED BY <3>1, <3>2, Zenon DEF Plans
  <2>3. run[r].stage # "off" => Bucket(r) \in Buckets
    BY PhaseFacts DEF Basic, Shape, Bucket, BucketIn
  <2> QED BY <2>1, <2>2, <2>3 DEF RunTypes, Phases
<1> QED BY <1>1, <1>2, <1>3, <1>4 DEF TypeOK, Basic, Types

\* The clock, the tables and the runs keep their types: no more events than
\* the bound, rows only in buckets that exist, and a run under way always
\* works on the bucket of a past hour or day, down to the first day.
THEOREM TypeCorrect == Spec => []TypeOK
<1>1. Init => Basic /\ StoredBound
  BY InitBasic, InitStored
<1>2. Basic /\ StoredBound /\ [Next]_vars => Basic' /\ StoredBound'
  BY NextBasic, StoredStep
<1>3. Basic /\ StoredBound => TypeOK
  BY TypesAreTypes
<1> QED BY <1>1, <1>2, <1>3, PTL DEF Spec

-----------------------------------------------------------------------------
(* Runs that overlap *)

\* A run that is not overtaken while it works on its hour is alone; the buckets
\* of two runs that overlap are excused.
Alone ==
  \A r, a \in Runs :
    InHour(run[r]) /\ run[r].overtaken = FALSE /\ a # r => run[a].stage = "off"
Overlap ==
  \A r, a \in Runs :
    r # a /\ run[r].stage # "off" /\ run[a].stage # "off" => BucketsOf(run[r].hour) \subseteq excused

\* No run starts, ends or takes a step.
Quiet ==
  StoreEvent \/ DeleteNode \/ RetainEvents \/ RetainRollups \/ RetentionFails \/ Tick \/ UNCHANGED vars
Steady ==
  \A r \in Runs : IF run[r].stage = "off" THEN run'[r].stage = "off" ELSE Kept(run[r], run'[r])

LEMMA QuietFacts ==
  ASSUME Basic, Quiet
  PROVE  Steady /\ excused \subseteq excused'
<1>0. run \in [Runs -> RunTypes] /\ (UNCHANGED run => Steady)
  BY DEF Basic, Types, Steady, Kept
<1>1. ASSUME NEW H, run' = Overtake(H) PROVE Steady
  <2>1. \A r \in Runs : Kept(run[r], run'[r])
    BY <1>0, <1>1, OvertakeFacts
  <2> QED BY <2>1 DEF Steady, Kept
<1>2. CASE StoreEvent
  <2>1. PICK t : run' = Overtake({HourOf(t)})
    BY <1>2 DEF StoreEvent
  <2> QED BY <1>1, <1>2, <2>1 DEF StoreEvent
<1>3. CASE DeleteNode
  <2>1. /\ \A r \in Runs : run[r].stage # "off" => Kept(run[r], run'[r])
        /\ \A r \in Runs : run[r].stage = "off" => run'[r].stage = "off"
    BY <1>3, DeleteNodeFacts DEF Basic
  <2>2. UNCHANGED excused
    BY <1>3 DEF DeleteNode
  <2> QED BY <2>1, <2>2 DEF Steady
<1>4. CASE RetainEvents
  <2>1. PICK H : run' = Overtake(H)
    BY <1>4 DEF RetainEvents
  <2> QED BY <1>1, <1>4, <2>1 DEF RetainEvents
<1>5. CASE RetainRollups
  <2>1. \A r \in Runs : Kept(run[r], run'[r])
    BY <1>5, RetainRollupsFacts DEF Basic
  <2>2. excused \subseteq excused'
    BY <1>5 DEF RetainRollups
  <2> QED BY <2>1, <2>2 DEF Steady, Kept
<1>6. CASE RetentionFails \/ Tick \/ UNCHANGED vars
  BY <1>0, <1>6 DEF RetentionFails, Tick, vars, Stating
<1> QED BY <1>2, <1>3, <1>4, <1>5, <1>6 DEF Quiet

\* A step of one run that does not bring it back into the phase of the hour.
Progress(r) ==
  /\ run[r].stage # "off"
  /\ Others(r) /\ UNCHANGED excused
  /\ run'[r].stage # "off" => run'[r].hour = run[r].hour
  /\ InHour(run'[r]) => /\ InHour(run[r]) /\ run'[r].overtaken = run[r].overtaken
                        /\ run'[r].got = run[r].got /\ run'[r].gone = run[r].gone

LEMMA ProgressFacts ==
  ASSUME Basic, NEW r \in Runs, RunStep(r)
  PROVE  Progress(r)
<1>1. CASE ReadDay(r)
  <2>1. /\ run[r].stage = "next" /\ Others(r)
        /\ run'[r].hour = run[r].hour /\ run'[r].plan = run[r].plan /\ run[r].plan = <<"daily">>
    BY <1>1, ReadDayFacts DEF Basic
  <2>2. UNCHANGED excused
    BY <1>1 DEF ReadDay, Stating
  <2>3. Head(run'[r].plan) # "hourly"
    BY <2>1
  <2> QED BY <2>1, <2>2, <2>3 DEF Progress, InHour
<1>2. CASE Lookup(r)
  <2>1. /\ run[r].stage = "read" /\ Others(r)
        /\ run'[r].stage = "looked" /\ run'[r].hour = run[r].hour /\ run'[r].plan = run[r].plan
        /\ run'[r].overtaken = run[r].overtaken
        /\ run'[r].got = run[r].got /\ run'[r].gone = run[r].gone
    BY <1>2, LookupFacts DEF Basic
  <2>2. UNCHANGED excused
    BY <1>2 DEF Lookup, Stating
  <2> QED BY <2>1, <2>2 DEF Progress, InHour
<1>3. CASE Commit(r)
  <2>1. /\ run[r].stage = "looked" /\ Others(r)
        /\ run'[r].stage = "off" \/ (run'[r].stage = "next" /\ run'[r].hour = run[r].hour)
    BY <1>3, CommitFacts DEF Basic
  <2>2. UNCHANGED excused
    BY <1>3 DEF Commit
  <2> QED BY <2>1, <2>2 DEF Progress, InHour
<1>4. CASE Fail(r)
  <2>1. Others(r) /\ run'[r].stage = "off" /\ run[r].stage # "off"
    BY <1>4, FailFacts DEF Basic
  <2>2. UNCHANGED excused
    BY <1>4 DEF Fail, Stating
  <2> QED BY <2>1, <2>2 DEF Progress, InHour
<1> QED BY <1>1, <1>2, <1>3, <1>4 DEF RunStep

LEMMA NextCases ==
  ASSUME [Next]_vars
  PROVE  (\E r \in Runs : Start(r)) \/ (\E r \in Runs : RunStep(r)) \/ Quiet
BY DEF Next, Quiet

LEMMA StartExcuses ==
  ASSUME NEW r \in Runs, Start(r)
  PROVE  /\ excused \subseteq excused'
         /\ \A a \in Active : BucketsOf(run[a].hour) \subseteq excused'
         /\ Active # {} => BucketsOf(HourOf(now)) \subseteq excused'
BY DEF Start

LEMMA AloneStep == ASSUME Basic, Alone, [Next]_vars PROVE Alone'
<1> SUFFICES ASSUME NEW r \in Runs, NEW a \in Runs, InHour(run'[r]), run'[r].overtaken = FALSE, a # r
             PROVE  run'[a].stage = "off"
  BY DEF Alone
<1>1. ASSUME NEW b \in Runs, Start(b) PROVE run'[a].stage = "off"
  <2>1. /\ \A c \in Runs : run[c].stage # "off" => run'[c].overtaken = TRUE
        /\ \A c \in Runs : c # b /\ run[c].stage = "off" => run'[c].stage = "off"
        /\ run'[b].overtaken = (Active # {})
    BY <1>1, StartFacts DEF Basic
  <2>2. run[r].stage = "off"
    BY <2>1
  <2>3. r = b
    BY <2>1, <2>2 DEF InHour
  <2>4. Active = {}
    BY <2>1, <2>3
  <2>5. run[a].stage = "off"
    BY <2>4 DEF Active
  <2> QED BY <2>1, <2>3, <2>5
<1>2. ASSUME NEW b \in Runs, RunStep(b) PROVE run'[a].stage = "off"
  <2>1. Progress(b)
    BY <1>2, ProgressFacts
  <2>2. InHour(run[r]) /\ run[r].overtaken = FALSE
    BY <2>1, Zenon DEF Progress, Others
  <2>3. run[a].stage = "off"
    BY <2>2 DEF Alone
  <2> QED BY <2>1, <2>3 DEF Progress, Others
<1>3. ASSUME Quiet PROVE run'[a].stage = "off"
  <2>1. Steady
    BY <1>3, QuietFacts
  <2>2. run[r].stage # "off" /\ Kept(run[r], run'[r])
    BY <2>1 DEF Steady, InHour
  <2>3. InHour(run[r]) /\ run[r].overtaken \in BOOLEAN
    BY <2>2 DEF InHour, Kept, Basic, Types, RunTypes
  <2>4. run[r].overtaken # TRUE
    BY <2>2 DEF Kept
  <2>5. run[r].overtaken = FALSE
    BY <2>3, <2>4, Zenon
  <2>6. run[a].stage = "off"
    BY <2>3, <2>5 DEF Alone
  <2> QED BY <2>1, <2>6 DEF Steady
<1> QED BY <1>1, <1>2, <1>3, NextCases

LEMMA OverlapStep == ASSUME Basic, Overlap, [Next]_vars PROVE Overlap'
<1> SUFFICES ASSUME NEW r \in Runs, NEW a \in Runs, r # a, run'[r].stage # "off", run'[a].stage # "off"
             PROVE  BucketsOf(run'[r].hour) \subseteq excused'
  BY DEF Overlap
<1>1. ASSUME NEW b \in Runs, Start(b) PROVE BucketsOf(run'[r].hour) \subseteq excused'
  <2>1. /\ \A c \in Runs : run[c].stage # "off" => run'[c].hour = run[c].hour
        /\ \A c \in Runs : c # b /\ run[c].stage = "off" => run'[c].stage = "off"
        /\ run'[b].hour = HourOf(now) /\ run[b].stage = "off"
    BY <1>1, StartFacts DEF Basic, Kept
  <2>2. CASE r = b
    <3>1. a \in Active
      BY <2>1, <2>2 DEF Active
    <3> QED BY <1>1, <2>1, <2>2, <3>1, StartExcuses
  <2>3. CASE r # b
    <3>1. r \in Active /\ run'[r].hour = run[r].hour
      BY <2>1, <2>3 DEF Active
    <3> QED BY <1>1, <3>1, StartExcuses
  <2> QED BY <2>2, <2>3
<1>2. ASSUME NEW b \in Runs, RunStep(b) PROVE BucketsOf(run'[r].hour) \subseteq excused'
  <2>1. Progress(b)
    BY <1>2, ProgressFacts
  <2>2. run[r].stage # "off" /\ run[a].stage # "off" /\ run'[r].hour = run[r].hour
    BY <2>1 DEF Progress, Others
  <2> QED BY <2>1, <2>2 DEF Progress, Overlap
<1>3. ASSUME Quiet PROVE BucketsOf(run'[r].hour) \subseteq excused'
  <2>1. Steady /\ excused \subseteq excused'
    BY <1>3, QuietFacts
  <2>2. run[r].stage # "off" /\ run[a].stage # "off" /\ run'[r].hour = run[r].hour
    BY <2>1 DEF Steady, Kept
  <2> QED BY <2>1, <2>2 DEF Overlap
<1> QED BY <1>1, <1>2, <1>3, NextCases

-----------------------------------------------------------------------------
(* One row per key *)

\* A run that no other run can have disturbed: what it found is still there.
Fresh(q, X) == BucketIn(q) \notin X \/ (InHour(q) /\ q.overtaken = FALSE)
Found(q, R) ==
  \A k \in Keys : q.got[k] > 0 /\ k \notin q.gone => q.found[k] = Len(R[BucketIn(q)][k])
LookedFresh ==
  \A r \in Runs : run[r].stage = "looked" /\ Fresh(run[r], excused) => Found(run[r], rows)

RunInv == Basic /\ Alone /\ Overlap

LEMMA RunInvStep == ASSUME RunInv, [Next]_vars PROVE RunInv'
BY NextBasic, AloneStep, OverlapStep DEF RunInv

LEMMA InitRunInv == ASSUME Init PROVE RunInv
<1>1. \A r \in Runs : run[r].stage = "off"
  BY DEF Init, Off
<1> QED BY <1>1, InitBasic DEF RunInv, Alone, Overlap, InHour

\* No other run is fresh while one is under way.
LEMMA OthersNotFresh ==
  ASSUME RunInv, NEW r \in Runs, NEW a \in Runs, a # r, run[r].stage # "off", run[a].stage = "looked"
  PROVE  ~Fresh(run[a], excused)
<1>1. Planned(run[a])
  BY DEF RunInv, Basic, Shape
<1>2. BucketIn(run[a]) \in excused
  BY <1>1, PhaseFacts DEF RunInv, Overlap
<1>3. ~(InHour(run[a]) /\ run[a].overtaken = FALSE)
  BY DEF RunInv, Alone
<1> QED BY <1>2, <1>3 DEF Fresh

\* Under a kept run, freshness comes from before.
LEMMA FreshBefore ==
  ASSUME NEW p \in RunTypes, NEW q \in RunTypes, Kept(p, q), NEW X, NEW Y, X \subseteq Y, Fresh(q, Y)
  PROVE  Fresh(p, X)
<1>1. BucketIn(p) = BucketIn(q) /\ (InHour(q) => InHour(p))
  BY DEF Kept, BucketIn, InHour
<1>2. q.overtaken = FALSE => p.overtaken = FALSE
  <2>1. p.overtaken \in BOOLEAN
    BY DEF RunTypes
  <2>2. p.overtaken = TRUE => q.overtaken = TRUE
    BY DEF Kept
  <2> QED BY <2>1, <2>2, Zenon
<1> QED BY <1>1, <1>2 DEF Fresh

LEMMA DeleteNodeRows ==
  ASSUME Basic, DeleteNode
  PROVE  \A b \in Buckets : rows'[b]["node"] = <<>> /\ rows'[b]["null"] = rows[b]["null"]
<1> SUFFICES ASSUME NEW b \in Buckets
             PROVE  rows'[b]["node"] = <<>> /\ rows'[b]["null"] = rows[b]["null"]
  OBVIOUS
<1>1. rows[b] \in [Keys -> Seq(Amounts)] /\ "node" \in Keys /\ "null" \in Keys
  BY DEF Basic, Types, RowTypes, Keys
<1>2. rows'[b] = [rows[b] EXCEPT !["node"] = <<>>]
  BY DEF DeleteNode
<1> QED BY <1>1, <1>2

LEMMA LookedFreshStep == ASSUME RunInv, LookedFresh, [Next]_vars PROVE LookedFresh'
<1>0. Basic /\ Basic' /\ RunInv'
  BY RunInvStep DEF RunInv
<1>a. run \in [Runs -> RunTypes] /\ run' \in [Runs -> RunTypes]
  BY <1>0 DEF Basic, Types
<1> SUFFICES ASSUME NEW r \in Runs, run'[r].stage = "looked", Fresh(run'[r], excused')
             PROVE  Found(run'[r], rows')
  BY DEF LookedFresh
<1>b. Planned(run'[r])
  BY <1>0 DEF Basic, Shape
<1>c. BucketIn(run'[r]) \in Buckets
  BY <1>b, PhaseFacts
<1>1. ASSUME NEW b \in Runs, Start(b) PROVE Found(run'[r], rows')
  <2>1. /\ \A c \in Runs : run[c].stage # "off" =>
             Kept(run[c], run'[c]) /\ run'[c].overtaken = TRUE
        /\ \A c \in Runs : c # b /\ run[c].stage = "off" => run'[c].stage = "off"
        /\ run'[b].stage = "read"
    BY <1>0, <1>1, StartFacts DEF Basic
  <2>2. r # b /\ run[r].stage # "off" /\ run'[r].overtaken = TRUE /\ run'[r].hour = run[r].hour
    BY <2>1 DEF Kept
  <2>3. BucketIn(run'[r]) \in BucketsOf(run[r].hour)
    BY <1>b, <2>2, PhaseFacts
  <2>4. BucketIn(run'[r]) \in excused'
    BY <1>1, <2>2, <2>3, StartExcuses DEF Active
  <2>5. FALSE
    BY <2>2, <2>4 DEF Fresh
  <2> QED BY <2>5
<1>2. ASSUME NEW b \in Runs, Others(b), UNCHANGED <<rows, excused>>, r # b PROVE Found(run'[r], rows')
  BY <1>2 DEF Others, LookedFresh
<1>3. ASSUME NEW b \in Runs, RunStep(b) PROVE Found(run'[r], rows')
  <2>1. CASE ReadDay(b)
    <3>1. run'[b].stage = "read" /\ Others(b)
      BY <1>0, <2>1, ReadDayFacts DEF Basic
    <3> QED BY <1>2, <2>1, <3>1 DEF ReadDay, Stating
  <2>2. CASE Lookup(b)
    <3>1. /\ Others(b) /\ run'[b].got = run[b].got /\ BucketIn(run'[b]) = Bucket(b)
          /\ \A k \in Keys : run[b].got[k] > 0 => run'[b].found[k] = Len(rows[Bucket(b)][k])
      BY <1>0, <2>2, LookupFacts DEF Basic, BucketIn, Bucket
    <3>2. UNCHANGED <<rows, excused>>
      BY <2>2 DEF Lookup, Stating
    <3> QED BY <1>2, <3>1, <3>2 DEF Found
  <2>3. CASE Commit(b)
    <3>1. /\ run[b].stage = "looked" /\ Others(b)
          /\ run'[b].stage = "off" \/ run'[b].stage = "next"
      BY <1>0, <2>3, CommitFacts DEF Basic
    <3>2. r # b /\ run'[r] = run[r] /\ UNCHANGED excused
      BY <2>3, <3>1 DEF Others, Commit
    <3>3. ~Fresh(run[r], excused)
      BY <3>1, <3>2, OthersNotFresh
    <3>4. Fresh(run[r], excused)
      BY <3>2
    <3> QED BY <3>3, <3>4
  <2>4. CASE Fail(b)
    <3>1. run'[b].stage = "off" /\ Others(b)
      BY <1>0, <2>4, FailFacts DEF Basic
    <3> QED BY <1>2, <2>4, <3>1 DEF Fail, Stating
  <2> QED BY <1>3, <2>1, <2>2, <2>3, <2>4 DEF RunStep
<1>4. ASSUME Quiet PROVE Found(run'[r], rows')
  <2>1. Steady /\ excused \subseteq excused'
    BY <1>0, <1>4, QuietFacts
  <2>2. run[r].stage # "off" /\ Kept(run[r], run'[r])
    BY <2>1 DEF Steady
  <2>3. Fresh(run[r], excused)
    <3>1. run[r] \in RunTypes /\ run'[r] \in RunTypes
      BY <1>a
    <3> QED BY <2>1, <2>2, <3>1, FreshBefore
  <2>4. Found(run[r], rows) /\ run[r].stage = "looked" /\ BucketIn(run'[r]) = BucketIn(run[r])
    BY <2>2, <2>3 DEF LookedFresh, Kept, BucketIn
  <2>5. CASE UNCHANGED rows
    BY <2>2, <2>4, <2>5 DEF Found, Kept
  <2>6. CASE DeleteNode
    <3>1. run[r].got["node"] > 0 => "node" \in run'[r].gone
      BY <1>0, <2>2, <2>6, DeleteNodeFacts DEF Basic
    <3>2. rows'[BucketIn(run[r])]["null"] = rows[BucketIn(run[r])]["null"]
      BY <1>0, <1>c, <2>4, <2>6, DeleteNodeRows
    <3> QED BY <2>2, <2>4, <3>1, <3>2 DEF Found, Kept, Keys
  <2>7. CASE RetainRollups
    <3> DEFINE old == {b \in Buckets : StartOf(b) < Cutoff(RollupDays)}
    <3>1. /\ run[r].stage = "looked" /\ Bucket(r) \in old =>
               \A k \in Keys : run[r].found[k] = 1 => k \in run'[r].gone
          /\ \A b \in Buckets : b \notin old => rows'[b] = rows[b]
          /\ \A b \in old, k \in Keys : rows'[b][k] = <<>>
      BY <1>0, <2>7, RetainRollupsFacts DEF Basic
    <3>2. Bucket(r) = BucketIn(run[r])
      BY DEF Bucket, BucketIn
    <3> HIDE DEF old
    <3>3. CASE Bucket(r) \in old
      <4>1. \A k \in Keys : run[r].found[k] \in 0 .. 1
        BY <1>a DEF RunTypes
      <4>2. \A k \in Keys : Len(rows'[BucketIn(run[r])][k]) = 0
        BY <3>1, <3>2, <3>3
      <4> QED BY <2>2, <2>4, <3>1, <3>3, <4>1, <4>2 DEF Found, Kept
    <3>4. CASE Bucket(r) \notin old
      <4>1. rows'[BucketIn(run[r])] = rows[BucketIn(run[r])]
        BY <1>c, <2>4, <3>1, <3>2, <3>4
      <4> QED BY <2>2, <2>4, <4>1 DEF Found, Kept
    <3> QED BY <3>3, <3>4
  <2>8. DeleteNode \/ RetainRollups \/ UNCHANGED rows
    BY <1>4 DEF Quiet, StoreEvent, RetainEvents, RetentionFails, Tick, vars
  <2> QED BY <2>5, <2>6, <2>7, <2>8
<1> QED BY <1>1, <1>3, <1>4, NextCases

LEMMA CommitUnique ==
  ASSUME RunInv, LookedFresh, UniqueRows, NEW r \in Runs, Commit(r)
  PROVE  UniqueRows'
<1> SUFFICES ASSUME NEW b \in Buckets, NEW k \in Keys, Len(rows'[b][k]) > 1
             PROVE  k = "null" /\ b \in excused'
  BY DEF UniqueRows
<1>0. Basic /\ UNCHANGED excused /\ run[r].stage = "looked"
  BY DEF RunInv, Commit
<1>1. /\ Bucket(r) \in Buckets
      /\ \A e \in Buckets : e # Bucket(r) => rows'[e] = rows[e]
      /\ run[r].got[k] > 0 =>
           /\ k \notin run[r].gone
           /\ run[r].found[k] = 0 => ~Conflicts(Bucket(r), k)
           /\ rows'[Bucket(r)][k] = Written(rows[Bucket(r)][k], run[r].found[k], run[r].got[k])
      /\ ~(run[r].got[k] > 0) => rows'[Bucket(r)][k] = rows[Bucket(r)][k]
  BY <1>0, CommitFacts DEF Basic
<1>2. CASE rows'[b][k] = rows[b][k]
  BY <1>0, <1>2 DEF UniqueRows
<1>3. CASE rows'[b][k] # rows[b][k]
  <2>1. b = Bucket(r) /\ run[r].got[k] > 0
    BY <1>1, <1>3
  <2> DEFINE s == rows[b][k]
             f == run[r].found[k]
             g == run[r].got[k]
  <2>2. s \in Seq(Amounts) /\ f \in 0 .. 1 /\ g \in Amounts /\ Len(s) \in Nat
    BY <1>0, <2>1 DEF Basic, Types, RunTypes, RowTypes, Amounts
  <2>3. rows'[b][k] = Written(s, f, g)
    BY <1>1, <2>1
  <2>4. /\ f = 1 => Len(Written(s, f, g)) = Len(s)
        /\ f = 0 => Len(Written(s, f, g)) = Len(s) + 1
    BY <2>2, WrittenFacts
  <2>5. CASE f = 1
    <3>1. Len(s) > 1
      BY <2>3, <2>4, <2>5
    <3> QED BY <1>0, <3>1 DEF UniqueRows
  <2>6. CASE f = 0
    <3>1. Len(s) > 0
      BY <2>2, <2>3, <2>4, <2>6
    <3>2. s # <<>>
      BY <3>1
    <3>3. k = "null"
      BY <1>1, <2>1, <2>6, <3>2 DEF Conflicts
    <3>4. b \in excused
      <4>1. SUFFICES ASSUME b \notin excused PROVE FALSE
        OBVIOUS
      <4>2. Fresh(run[r], excused) /\ BucketIn(run[r]) = b
        BY <2>1, <4>1 DEF Fresh, Bucket, BucketIn
      <4>3. f = Len(s)
        BY <1>0, <1>1, <2>1, <4>2 DEF LookedFresh, Found
      <4> QED BY <2>6, <3>1, <4>3
    <3> QED BY <1>0, <3>3, <3>4
  <2> QED BY <2>2, <2>5, <2>6
<1> QED BY <1>2, <1>3

LEMMA UniqueStep == ASSUME RunInv, LookedFresh, UniqueRows, [Next]_vars PROVE UniqueRows'
<1>0. Basic
  BY DEF RunInv
<1>1. ASSUME \A b \in Buckets, k \in Keys : rows'[b][k] = rows[b][k] \/ rows'[b][k] = <<>>,
             excused \subseteq excused'
      PROVE  UniqueRows'
  <2> SUFFICES ASSUME NEW b \in Buckets, NEW k \in Keys, Len(rows'[b][k]) > 1
               PROVE  k = "null" /\ b \in excused'
    BY DEF UniqueRows
  <2>1. rows'[b][k] # <<>>
    OBVIOUS
  <2>2. rows'[b][k] = rows[b][k]
    BY <1>1, <2>1
  <2> QED BY <1>1, <2>2 DEF UniqueRows
<1>2. ASSUME UNCHANGED rows, excused \subseteq excused' PROVE UniqueRows'
  BY <1>1, <1>2
<1>3. ASSUME NEW r \in Runs, Start(r) PROVE UniqueRows'
  BY <1>2, <1>3, StartExcuses DEF Start
<1>4. ASSUME NEW r \in Runs, RunStep(r) PROVE UniqueRows'
  <2>1. CASE ReadDay(r) \/ Lookup(r) \/ Fail(r)
    BY <1>2, <2>1 DEF ReadDay, Lookup, Fail, Stating
  <2> QED BY <1>4, <2>1, CommitUnique DEF RunStep
<1>5. ASSUME Quiet PROVE UniqueRows'
  <2>1. excused \subseteq excused'
    BY <1>0, <1>5, QuietFacts
  <2>2. CASE DeleteNode
    <3>1. \A b \in Buckets, k \in Keys : rows'[b][k] = rows[b][k] \/ rows'[b][k] = <<>>
      BY <1>0, <2>2, DeleteNodeRows DEF Keys
    <3> QED BY <1>1, <2>1, <3>1
  <2>3. CASE RetainRollups
    <3>1. \A b \in Buckets, k \in Keys : rows'[b][k] = rows[b][k] \/ rows'[b][k] = <<>>
      BY <1>0, <2>3, RetainRollupsFacts DEF Basic
    <3> QED BY <1>1, <2>1, <3>1
  <2>4. DeleteNode \/ RetainRollups \/ UNCHANGED rows
    BY <1>5 DEF Quiet, StoreEvent, RetainEvents, RetentionFails, Tick, vars
  <2> QED BY <1>2, <2>1, <2>2, <2>3, <2>4
<1> QED BY <1>3, <1>4, <1>5, NextCases

RowsInv == RunInv /\ LookedFresh /\ UniqueRows

LEMMA RowsInvStep == ASSUME RowsInv, [Next]_vars PROVE RowsInv'
BY RunInvStep, LookedFreshStep, UniqueStep DEF RowsInv

LEMMA InitRowsInv == ASSUME Init PROVE RowsInv
<1>1. \A r \in Runs : run[r].stage = "off"
  BY DEF Init, Off
<1>2. \A b \in Buckets, k \in Keys : Len(rows[b][k]) = 0
  BY DEF Init
<1> QED BY <1>1, <1>2, InitRunInv DEF RowsInv, LookedFresh, UniqueRows

\* However many runs of the button overlap the job, whatever fails between
\* lookup and commit and whatever is deleted meanwhile, a bucket has one row
\* per key, except for the NULL key in buckets of overlapping runs, where the
\* unique constraint does not bind.
THEOREM RowsUnique == Spec => []UniqueRows
<1>1. RowsInv => UniqueRows
  BY DEF RowsInv
<1> QED BY <1>1, InitRowsInv, RowsInvStep, PTL DEF Spec

-----------------------------------------------------------------------------
(* The rows of an hour *)

\* The events of an hour that is recent at t are beyond retention's reach.
Recent(h, t) == 2 * h >= t - TicksPerDay * EventDays

LEMMA RetentionReach == TicksPerDay * EventDays \in Nat /\ TicksPerDay * EventDays >= 6
<1>1. \A m, n \in Nat : m >= 6 /\ n >= 1 => m * n \in Nat /\ m * n >= 6
  OBVIOUS
<1>2. TicksPerDay \in Nat /\ TicksPerDay >= 6 /\ EventDays \in Nat /\ EventDays >= 1
  BY DEF TicksPerDay
<1> QED BY <1>1, <1>2

LEMMA RunHourRecent ==
  ASSUME NEW q, Planned(q), NEW t \in Clock, Timely(q, t)
  PROVE  q.hour - 1 \in Hours /\ Recent(q.hour - 1, t)
<1>1. q.hour \in Nat /\ q.hour - 1 \in Hours /\ q.hour - 1 \in Nat /\ t \in Nat
  BY ClockFacts DEF Planned
<1>2. t \div 2 <= q.hour + 1
  BY DEF Timely, HourOf
<1>3. t <= 2 * (t \div 2) + 1 /\ t \div 2 \in Nat
  BY <1>1
<1> QED BY <1>1, <1>2, <1>3, RetentionReach DEF Recent

LEMMA StoreCounts ==
  ASSUME Basic, StoreEvent
  PROVE  \E t \in Ticks :
           /\ run' = Overtake({HourOf(t)}) /\ clean' = clean \ {HourOf(t)}
           /\ \A h \in Hours, k \in Keys :
                /\ Count(events', h, k) >= Count(events, h, k)
                /\ h # HourOf(t) => Count(events', h, k) = Count(events, h, k)
<1>1. PICK t \in Ticks :
           /\ run' = Overtake({HourOf(t)}) /\ clean' = clean \ {HourOf(t)}
           /\ events'[t]["node"] = events[t]["node"] + 1
           /\ events'[t]["null"] = events[t]["null"]
           /\ \A u \in Ticks : u # t => events'[u] = events[u]
  BY StoreEventFacts
<1>2. ASSUME NEW h \in Hours, NEW k \in Keys
      PROVE  /\ Count(events', h, k) >= Count(events, h, k)
             /\ h # HourOf(t) => Count(events', h, k) = Count(events, h, k)
  <2>1. /\ 2 * h \in Ticks /\ 2 * h + 1 \in Ticks
        /\ events[2 * h][k] \in Nat /\ events[2 * h + 1][k] \in Nat
    BY CountFacts DEF Basic, Types
  <2>2. ASSUME NEW u \in Ticks, events[u][k] \in Nat PROVE events'[u][k] \in Nat /\ events'[u][k] >= events[u][k]
    <3>1. events'[u][k] = events[u][k] \/ events'[u][k] = events[u][k] + 1
      BY <1>1 DEF Keys
    <3> QED BY <2>2, <3>1
  <2>3. Count(events', h, k) >= Count(events, h, k)
    BY <2>1, <2>2 DEF Count
  <2>4. ASSUME h # HourOf(t) PROVE Count(events', h, k) = Count(events, h, k)
    <3>1. t \in Nat /\ h \in Nat
      BY ClockFacts DEF Ticks
    <3>2. t # 2 * h /\ t # 2 * h + 1
      BY <2>4, <3>1 DEF HourOf
    <3> QED BY <1>1, <2>1, <3>2 DEF Count
  <2> QED BY <2>3, <2>4
<1> QED BY <1>1, <1>2

LEMMA DeleteCounts ==
  ASSUME Basic, DeleteNode
  PROVE  \A h \in Hours : /\ Count(events', h, "node") = 0
                          /\ Count(events', h, "null") = Count(events, h, "null") + Count(events, h, "node")
<1> SUFFICES ASSUME NEW h \in Hours
             PROVE  /\ Count(events', h, "node") = 0
                    /\ Count(events', h, "null") = Count(events, h, "null") + Count(events, h, "node")
  OBVIOUS
<1>1. \A k \in Keys : /\ 2 * h \in Ticks /\ 2 * h + 1 \in Ticks
                      /\ events[2 * h][k] \in Nat /\ events[2 * h + 1][k] \in Nat
  BY CountFacts DEF Basic, Types
<1>2. \A t \in Ticks : events'[t]["node"] = 0 /\ events'[t]["null"] = events[t]["null"] + events[t]["node"]
  BY DeleteNodeEvents
<1> QED BY <1>1, <1>2 DEF Count, Keys

LEMMA RetainCounts ==
  ASSUME Basic, RetainEvents, NEW h \in Hours, NEW k \in Keys, Recent(h, now)
  PROVE  Count(events', h, k) = Count(events, h, k)
<1>1. 2 * h \in Ticks /\ 2 * h + 1 \in Ticks /\ now \in Nat /\ h \in Nat
  BY ClockFacts DEF Basic, Types
<1>2. ~(2 * h < Cutoff(EventDays)) /\ ~(2 * h + 1 < Cutoff(EventDays))
  BY <1>1, RetentionReach DEF Recent, Cutoff
<1>3. events'[2 * h] = events[2 * h] /\ events'[2 * h + 1] = events[2 * h + 1]
  BY <1>1, <1>2 DEF RetainEvents
<1> QED BY <1>3 DEF Count

\* A step that stores, renames or deletes events, or none of these.
LEMMA EventSteps ==
  ASSUME [Next]_vars
  PROVE  /\ StoreEvent \/ DeleteNode \/ RetainEvents \/ UNCHANGED events
         /\ UNCHANGED now \/ Tick
BY DEF Next, RunStep, Start, ReadDay, Lookup, Commit, Fail, StoreEvent, DeleteNode, RetainEvents,
       RetainRollups, RetentionFails, Tick, vars

\* What a run in the phase of its hour has counted.
AtMost(q, e) == \A k \in Keys : k \notin q.gone => q.got[k] <= Count(e, q.hour - 1, k)
Exact(q, e) == \A k \in Keys : q.got[k] = Count(e, q.hour - 1, k)
GotAtMost == \A r \in Runs : InHour(run[r]) => AtMost(run[r], events)
GotExact == \A r \in Runs : InHour(run[r]) /\ run[r].overtaken = FALSE => Exact(run[r], events)

LEMMA GotStep == ASSUME Basic, GotAtMost, GotExact, [Next]_vars PROVE GotAtMost' /\ GotExact'
<1>0. Basic' /\ run \in [Runs -> RunTypes] /\ run' \in [Runs -> RunTypes]
      /\ events \in EventTypes /\ events' \in EventTypes /\ now \in Clock
  BY NextBasic DEF Basic, Types
<1> SUFFICES ASSUME NEW r \in Runs, InHour(run'[r])
             PROVE  /\ AtMost(run'[r], events')
                    /\ run'[r].overtaken = FALSE => Exact(run'[r], events')
  BY DEF GotAtMost, GotExact
<1> DEFINE Goal == /\ AtMost(run'[r], events')
                   /\ run'[r].overtaken = FALSE => Exact(run'[r], events')
<1>1. ASSUME NEW b \in Runs, Start(b) PROVE Goal
  <2>1. /\ \A c \in Runs : run[c].stage # "off" =>
             Kept(run[c], run'[c]) /\ run'[c].gone = run[c].gone /\ run'[c].overtaken = TRUE
        /\ \A c \in Runs : c # b /\ run[c].stage = "off" => run'[c].stage = "off"
        /\ run[b].stage = "off" /\ run'[b].hour = HourOf(now)
        /\ \A k \in Keys : run'[b].got[k] = Count(events, HourOf(now) - 1, k)
    BY <1>1, StartFacts DEF Basic
  <2>2. UNCHANGED events /\ HourOf(now) - 1 \in Hours
    BY <1>0, <1>1, ClockFacts DEF Start
  <2>3. CASE r = b
    <3>1. \A k \in Keys : Count(events, HourOf(now) - 1, k) \in Nat
      BY <1>0, <2>2, CountFacts
    <3> QED BY <2>1, <2>2, <2>3, <3>1 DEF AtMost, Exact
  <2>4. CASE r # b
    <3>1. Kept(run[r], run'[r]) /\ run'[r].gone = run[r].gone /\ run'[r].overtaken = TRUE
      BY <2>1, <2>4 DEF InHour
    <3>2. AtMost(run[r], events)
      BY <3>1 DEF GotAtMost, Kept, InHour
    <3>3. AtMost(run'[r], events')
      BY <2>2, <3>1, <3>2 DEF AtMost, Kept
    <3> QED BY <3>1, <3>3
  <2> QED BY <2>3, <2>4
<1>2. ASSUME NEW b \in Runs, RunStep(b) PROVE Goal
  <2>1. Progress(b)
    BY <1>2, ProgressFacts
  <2>2. /\ InHour(run[r]) /\ run'[r].overtaken = run[r].overtaken
        /\ run'[r].got = run[r].got /\ run'[r].gone = run[r].gone /\ run'[r].hour = run[r].hour
    BY <2>1 DEF Progress, Others, InHour
  <2>3. UNCHANGED events
    BY <1>2 DEF RunStep, ReadDay, Lookup, Commit, Fail
  <2> QED BY <2>2, <2>3 DEF GotAtMost, GotExact, AtMost, Exact
<1>3. ASSUME Quiet PROVE Goal
  <2>1. Steady
    BY <1>3, QuietFacts
  <2>2. Kept(run[r], run'[r]) /\ InHour(run[r]) /\ run[r].stage # "off"
    BY <2>1 DEF Steady, Kept, InHour
  <2>3. AtMost(run[r], events) /\ (run'[r].overtaken = FALSE => Exact(run[r], events))
    <3>1. run[r].overtaken \in BOOLEAN /\ (run[r].overtaken = TRUE => run'[r].overtaken = TRUE)
      BY <1>0, <2>2 DEF RunTypes, Kept
    <3>2. run'[r].overtaken = FALSE => run[r].overtaken = FALSE
      BY <3>1, Zenon
    <3> QED BY <2>2, <3>2 DEF GotAtMost, GotExact
  <2> DEFINE h == run[r].hour - 1
  <2>4. h \in Hours /\ Recent(h, now)
    BY <1>0, <2>2, RunHourRecent DEF Basic, Shape
  <2>5. /\ run'[r].hour - 1 = h /\ run'[r].got = run[r].got /\ run[r].gone \subseteq run'[r].gone
        /\ \A k \in Keys : /\ run[r].got[k] \in Nat
                           /\ Count(events, h, k) \in Nat /\ Count(events', h, k) \in Nat
    <3>1. \A k \in Keys : run[r].got[k] \in Nat
      BY <1>0 DEF RunTypes
    <3>2. \A k \in Keys : Count(events, h, k) \in Nat /\ Count(events', h, k) \in Nat
      BY <1>0, <2>4, CountFacts
    <3> QED BY <2>2, <3>1, <3>2 DEF Kept
  <2>6. (\A k \in Keys : k \notin run[r].gone => run[r].got[k] <= Count(events, h, k))
        /\ (run'[r].overtaken = FALSE => \A k \in Keys : run[r].got[k] = Count(events, h, k))
    BY <2>3 DEF AtMost, Exact
  <2> SUFFICES /\ \A k \in Keys : k \notin run'[r].gone => run[r].got[k] <= Count(events', h, k)
               /\ run'[r].overtaken = FALSE => \A k \in Keys : run[r].got[k] = Count(events', h, k)
    BY <2>5 DEF AtMost, Exact
  <2> HIDE DEF h
  <2>7. CASE \A k \in Keys : Count(events', h, k) = Count(events, h, k)
    BY <2>5, <2>6, <2>7
  <2>8. CASE StoreEvent
    <3>1. PICK t \in Ticks :
            /\ run' = Overtake({HourOf(t)})
            /\ \A g \in Hours, k \in Keys :
                 /\ Count(events', g, k) >= Count(events, g, k)
                 /\ g # HourOf(t) => Count(events', g, k) = Count(events, g, k)
      BY <2>8, StoreCounts
    <3>2. h = HourOf(t) => run'[r].overtaken = TRUE
      BY <1>0, <2>2, <3>1, OvertakeFacts DEF InHour, h
    <3>3. CASE h = HourOf(t)
      <4>1. ASSUME NEW k \in Keys, k \notin run'[r].gone PROVE run[r].got[k] <= Count(events', h, k)
        <5>1. run[r].got[k] <= Count(events, h, k) /\ Count(events', h, k) >= Count(events, h, k)
          BY <2>4, <2>5, <2>6, <3>1, <4>1
        <5> QED BY <2>5, <5>1
      <4> QED BY <3>2, <3>3, <4>1
    <3>4. CASE h # HourOf(t)
      BY <2>4, <2>7, <3>1, <3>4
    <3> QED BY <3>3, <3>4
  <2>9. CASE DeleteNode
    <3>1. /\ run[r].got["node"] > 0 => "node" \in run'[r].gone
          /\ Count(events, h, "node") > 0 => run'[r].overtaken = TRUE
      BY <2>2, <2>4, <2>9, DeleteNodeFacts DEF Basic, InHour, h
    <3>2. Count(events', h, "node") = 0
          /\ Count(events', h, "null") = Count(events, h, "null") + Count(events, h, "node")
      BY <2>4, <2>9, DeleteCounts
    <3>3. CASE Count(events, h, "node") > 0
      BY <2>5, <2>6, <3>1, <3>2, <3>3 DEF Keys
    <3>4. CASE ~(Count(events, h, "node") > 0)
      <4>1. Count(events, h, "node") = 0
        BY <2>5, <3>4 DEF Keys
      <4>2. \A k \in Keys : Count(events', h, k) = Count(events, h, k)
        BY <2>5, <3>2, <4>1 DEF Keys
      <4> QED BY <2>7, <4>2
    <3> QED BY <3>3, <3>4
  <2>10. CASE RetainEvents
    BY <2>4, <2>7, <2>10, RetainCounts
  <2>11. CASE UNCHANGED events
    BY <2>7, <2>11
  <2> QED BY <2>8, <2>9, <2>10, <2>11, EventSteps
<1> QED BY <1>1, <1>2, <1>3, NextCases

\* A row of a recent hour stands for an event of that hour; a clean hour has the
\* one row that counts its events, or none when there are none.
RowsOf(n) == IF n = 0 THEN <<>> ELSE <<n>>
HourRows(R, h, k) == R[<<"hourly", h>>][k]
RecentRows ==
  \A h \in Hours, k \in Keys : Recent(h, now) /\ HourRows(rows, h, k) # <<>> => Count(events, h, k) > 0
CleanExact ==
  \A h \in clean, k \in Keys : HourRows(rows, h, k) = RowsOf(Count(events, h, k))

HourInv == RowsInv /\ GotAtMost /\ GotExact /\ RecentRows /\ CleanExact

LEMMA RecentBefore ==
  ASSUME now \in Clock, NEW h \in Hours, Recent(h, now'), UNCHANGED now \/ Tick
  PROVE  Recent(h, now)
<1>1. now \in Nat /\ h \in Nat
  BY ClockFacts
<1>2. now' = now \/ now' = now + 1
  BY DEF Tick
<1> QED BY <1>1, <1>2, RetentionReach DEF Recent

\* What a commit does to the rows of an hour.
LEMMA CommitHour ==
  ASSUME HourInv, NEW r \in Runs, Commit(r), NEW h \in Hours, NEW k \in Keys
  PROVE  \/ HourRows(rows', h, k) = HourRows(rows, h, k) /\ ~(InHour(run[r]) /\ h = run[r].hour - 1)
         \/ /\ InHour(run[r]) /\ h = run[r].hour - 1 /\ Bucket(r) = <<"hourly", h>>
            /\ ~(run[r].got[k] > 0) /\ HourRows(rows', h, k) = HourRows(rows, h, k)
         \/ /\ InHour(run[r]) /\ h = run[r].hour - 1 /\ Bucket(r) = <<"hourly", h>>
            /\ run[r].got[k] > 0 /\ Count(events, h, k) > 0
            /\ HourRows(rows', h, k) = Written(HourRows(rows, h, k), run[r].found[k], run[r].got[k])
            /\ run[r].got[k] <= Count(events, h, k) /\ k \notin run[r].gone
<1>0. Basic /\ run[r].stage = "looked" /\ run[r] \in RunTypes
  BY DEF HourInv, RowsInv, RunInv, Commit, Basic, Types
<1>1. /\ \A e \in Buckets : e # Bucket(r) => rows'[e] = rows[e]
      /\ run[r].got[k] > 0 =>
           /\ k \notin run[r].gone
           /\ rows'[Bucket(r)][k] = Written(rows[Bucket(r)][k], run[r].found[k], run[r].got[k])
      /\ ~(run[r].got[k] > 0) => rows'[Bucket(r)][k] = rows[Bucket(r)][k]
  BY <1>0, CommitFacts DEF Basic
<1>2. Planned(run[r]) /\ Bucket(r) = BucketIn(run[r])
  BY <1>0 DEF Basic, Shape, Bucket, BucketIn
<1>3. <<"hourly", h>> \in Buckets
  BY DEF Buckets
<1>4. CASE InHour(run[r]) /\ h = run[r].hour - 1
  <2>1. Bucket(r) = <<"hourly", h>>
    BY <1>2, <1>4, PhaseFacts DEF InHour, HourBucket
  <2>2. CASE run[r].got[k] > 0
    <3>1. run[r].got[k] <= Count(events, h, k)
      BY <1>1, <1>4, <2>2 DEF HourInv, GotAtMost, AtMost
    <3>2. run[r].got[k] \in Nat /\ Count(events, h, k) \in Nat
      BY <1>0, CountFacts DEF RunTypes, Basic, Types
    <3> QED BY <1>1, <1>4, <2>1, <2>2, <3>1, <3>2 DEF HourRows
  <2>3. CASE ~(run[r].got[k] > 0)
    BY <1>1, <1>4, <2>1, <2>3 DEF HourRows
  <2> QED BY <2>2, <2>3
<1>5. CASE ~(InHour(run[r]) /\ h = run[r].hour - 1)
  <2>1. Bucket(r) # <<"hourly", h>>
    <3>1. CASE Head(run[r].plan) = "hourly"
      <4>1. Bucket(r) = <<"hourly", run[r].hour - 1>> /\ InHour(run[r])
        BY <1>0, <1>2, <3>1, PhaseFacts DEF InHour, HourBucket
      <4> QED BY <1>5, <4>1
    <3>2. CASE Head(run[r].plan) # "hourly"
      <4>1. Bucket(r) = <<"daily", DayOf(run[r].hour) - 1>>
        BY <1>2, <3>2, PhaseFacts DEF DayBucket
      <4> QED BY <4>1
    <3> QED BY <3>1, <3>2
  <2> QED BY <1>1, <1>3, <1>5, <2>1 DEF HourRows
<1> QED BY <1>4, <1>5

LEMMA RecentRowsStep == ASSUME HourInv, [Next]_vars PROVE RecentRows'
<1>0. Basic /\ Basic' /\ now \in Clock /\ events \in EventTypes /\ events' \in EventTypes
  BY NextBasic DEF HourInv, RowsInv, RunInv, Basic, Types
<1> SUFFICES ASSUME NEW h \in Hours, NEW k \in Keys, Recent(h, now'), HourRows(rows', h, k) # <<>>
             PROVE  Count(events', h, k) > 0
  BY DEF RecentRows
<1>1. Recent(h, now)
  BY <1>0, RecentBefore, EventSteps
<1>2. Count(events, h, k) \in Nat /\ Count(events', h, k) \in Nat /\ <<"hourly", h>> \in Buckets
  BY <1>0, CountFacts DEF Buckets
<1>3. HourRows(rows, h, k) # <<>> => Count(events, h, k) > 0
  BY <1>1 DEF HourInv, RecentRows
<1>4. CASE DeleteNode
  <2>1. k # "node"
    BY <1>0, <1>2, <1>4, DeleteNodeRows DEF HourRows
  <2>2. k = "null" /\ "node" \in Keys
    BY <2>1 DEF Keys
  <2>3. HourRows(rows', h, k) = HourRows(rows, h, k)
    BY <1>0, <1>2, <1>4, <2>2, DeleteNodeRows DEF HourRows
  <2>4. Count(events', h, k) = Count(events, h, k) + Count(events, h, "node")
    BY <1>0, <1>4, <2>2, DeleteCounts
  <2>5. Count(events, h, "node") \in Nat
    BY <1>0, <2>2, CountFacts
  <2> QED BY <1>2, <1>3, <2>3, <2>4, <2>5
<1>5. ASSUME NEW r \in Runs, Commit(r) PROVE Count(events', h, k) > 0
  <2>1. UNCHANGED events
    BY <1>5 DEF Commit
  <2>2. HourRows(rows', h, k) = HourRows(rows, h, k) \/ Count(events, h, k) > 0
    BY <1>5, CommitHour
  <2> QED BY <1>3, <2>1, <2>2
<1>6. CASE RetainRollups
  <2>1. HourRows(rows', h, k) = HourRows(rows, h, k)
    BY <1>0, <1>2, <1>6, RetainRollupsFacts DEF Basic, HourRows
  <2> QED BY <1>3, <1>6, <2>1 DEF RetainRollups
<1>7. CASE UNCHANGED rows
  <2>1. HourRows(rows, h, k) # <<>>
    BY <1>7 DEF HourRows
  <2>2. CASE StoreEvent
    <3>1. Count(events', h, k) >= Count(events, h, k)
      BY <1>0, <2>2, StoreCounts
    <3> QED BY <1>2, <1>3, <2>1, <3>1
  <2>3. CASE RetainEvents
    BY <1>0, <1>1, <1>3, <2>1, <2>3, RetainCounts
  <2>4. CASE UNCHANGED events
    BY <1>3, <2>1, <2>4
  <2> QED BY <1>4, <2>2, <2>3, <2>4, EventSteps
<1>8. DeleteNode \/ (\E r \in Runs : Commit(r)) \/ RetainRollups \/ UNCHANGED rows
  BY DEF Next, RunStep, Start, ReadDay, Lookup, Fail, StoreEvent, RetainEvents, RetentionFails, Tick, vars
<1> QED BY <1>4, <1>5, <1>6, <1>7, <1>8

LEMMA CommitClean == ASSUME HourInv, NEW r \in Runs, Commit(r) PROVE CleanExact'
<1>0. /\ Basic /\ run[r].stage = "looked" /\ run[r] \in RunTypes /\ UNCHANGED <<events, excused>>
      /\ Planned(run[r]) /\ Timely(run[r], now) /\ now \in Clock /\ clean \subseteq Hours
      /\ rows \in RowTypes /\ events \in EventTypes
  BY DEF HourInv, RowsInv, RunInv, Commit, Basic, Types, Shape
<1>a. Bucket(r) = BucketIn(run[r])
  BY DEF Bucket, BucketIn
<1> SUFFICES ASSUME NEW h \in clean', NEW k \in Keys
             PROVE  HourRows(rows', h, k) = RowsOf(Count(events, h, k))
  BY <1>0 DEF CleanExact
<1> DEFINE g == run[r].hour - 1
<1>1. g \in Hours /\ Recent(g, now)
  BY <1>0, RunHourRecent
<1>2. CASE InHour(run[r]) /\ h = g
  <2>1. Bucket(r) = <<"hourly", g>>
    BY <1>0, <1>a, <1>2, PhaseFacts DEF InHour, HourBucket
  <2>2. run[r].overtaken = FALSE
    <3>1. clean' = IF run[r].overtaken THEN clean \ {g} ELSE clean \cup {g}
      BY <2>1 DEF Commit
    <3>2. run[r].overtaken \in BOOLEAN
      BY <1>0 DEF RunTypes
    <3>3. run[r].overtaken = TRUE => clean' = clean \ {g}
      BY <3>1
    <3> QED BY <1>2, <3>2, <3>3, Zenon
  <2>3. run[r].got[k] = Count(events, h, k) /\ Count(events, h, k) \in Nat
    <3>1. run[r].got[k] = Count(events, h, k)
      BY <1>2, <2>2 DEF HourInv, GotExact, Exact
    <3>2. Count(events, h, k) \in Nat
      BY <1>0, <1>1, <1>2, CountFacts
    <3> QED BY <3>1, <3>2
  <2>4. CASE Count(events, h, k) = 0
    <3>1. HourRows(rows', h, k) = HourRows(rows, h, k)
      BY <1>1, <1>2, <2>3, <2>4, CommitHour
    <3>2. HourRows(rows, h, k) = <<>>
      BY <1>1, <1>2, <2>4 DEF HourInv, RecentRows
    <3> QED BY <2>4, <3>1, <3>2 DEF RowsOf
  <2>5. CASE Count(events, h, k) # 0
    <3>1. Count(events, h, k) > 0
      BY <2>3, <2>5
    <3>2. /\ HourRows(rows', h, k) = Written(HourRows(rows, h, k), run[r].found[k], run[r].got[k])
          /\ k \notin run[r].gone
      BY <1>1, <1>2, <2>3, <3>1, CommitHour
    <3>3. run[r].found[k] = Len(HourRows(rows, h, k))
      <4>1. Fresh(run[r], excused)
        BY <1>2, <2>2 DEF Fresh
      <4>2. Found(run[r], rows)
        BY <1>0, <4>1 DEF HourInv, RowsInv, LookedFresh
      <4> QED BY <1>a, <1>2, <2>1, <2>3, <3>1, <3>2, <4>2 DEF Found, HourRows
    <3>4. Written(HourRows(rows, h, k), run[r].found[k], run[r].got[k]) = <<run[r].got[k]>>
      <4>1. HourRows(rows, h, k) \in Seq(Amounts) /\ run[r].found[k] \in 0 .. 1 /\ run[r].got[k] \in Amounts
        BY <1>0, <1>1, <1>2, <2>3, <3>1, HourlyFacts DEF RunTypes, Amounts, HourRows
      <4> QED BY <3>3, <4>1, WrittenFacts
    <3> QED BY <2>3, <2>5, <3>2, <3>4 DEF RowsOf
  <2> QED BY <2>4, <2>5
<1>3. CASE ~(InHour(run[r]) /\ h = g)
  <2>1. h \in clean
    <3>1. CASE Head(run[r].plan) = "hourly"
      <4>1. Bucket(r) = <<"hourly", g>> /\ InHour(run[r])
        BY <1>0, <1>a, <3>1, PhaseFacts DEF InHour, HourBucket
      <4>2. clean' \subseteq clean \cup {g}
        BY <4>1 DEF Commit
      <4> QED BY <1>3, <4>1, <4>2
    <3>2. CASE Head(run[r].plan) # "hourly"
      <4>1. Bucket(r) = <<"daily", DayOf(run[r].hour) - 1>>
        BY <1>0, <1>a, <3>2, PhaseFacts DEF DayBucket
      <4>2. clean' = clean
        BY <4>1 DEF Commit
      <4> QED BY <4>2
    <3> QED BY <3>1, <3>2
  <2>2. HourRows(rows', h, k) = HourRows(rows, h, k)
    BY <1>0, <1>3, <2>1, CommitHour
  <2> QED BY <2>1, <2>2 DEF HourInv, CleanExact
<1> QED BY <1>2, <1>3

LEMMA CleanStep == ASSUME HourInv, [Next]_vars PROVE CleanExact'
<1>0. Basic /\ now \in Clock /\ events \in EventTypes /\ clean \subseteq Hours
  BY DEF HourInv, RowsInv, RunInv, Basic, Types
<1>1. CASE \E r \in Runs : Commit(r)
  BY <1>1, CommitClean
<1>2. ASSUME ~(\E r \in Runs : Commit(r)), NEW h \in clean', NEW k \in Keys
      PROVE  HourRows(rows', h, k) = RowsOf(Count(events', h, k))
  <2>1. clean' \subseteq clean
    BY <1>2 DEF Next, RunStep, Start, ReadDay, Lookup, Fail, StoreEvent, DeleteNode, RetainEvents,
                RetainRollups, RetentionFails, Tick, vars, Stating
  <2>2. h \in clean /\ h \in Hours /\ <<"hourly", h>> \in Buckets
        /\ HourRows(rows, h, k) = RowsOf(Count(events, h, k))
    BY <1>0, <1>2, <2>1 DEF HourInv, CleanExact, Buckets
  <2>3. CASE StoreEvent
    <3>1. Count(events', h, k) = Count(events, h, k)
      BY <1>0, <1>2, <2>2, <2>3, StoreCounts
    <3>2. UNCHANGED rows
      BY <2>3 DEF StoreEvent
    <3> QED BY <2>2, <3>1, <3>2 DEF HourRows
  <2>4. CASE DeleteNode
    <3>1. Count(events, h, "node") = 0
      <4>1. clean' = clean \ {g \in Hours : Count(events, g, "node") > 0}
        BY <2>4 DEF DeleteNode, CountIn, Count
      <4>2. Count(events, h, "node") \in Nat
        BY <1>0, <2>2, CountFacts DEF Keys
      <4> QED BY <1>2, <2>2, <4>1, <4>2
    <3>2. Count(events, h, "null") \in Nat
      BY <1>0, <2>2, CountFacts DEF Keys
    <3>3. Count(events', h, "node") = 0 /\ Count(events', h, "null") = Count(events, h, "null")
      BY <1>0, <2>2, <2>4, <3>1, <3>2, DeleteCounts
    <3>4. HourRows(rows', h, "node") = <<>> /\ HourRows(rows', h, "null") = HourRows(rows, h, "null")
      BY <1>0, <2>2, <2>4, DeleteNodeRows DEF HourRows
    <3>5. CASE k = "node"
      BY <3>3, <3>4, <3>5 DEF RowsOf
    <3>6. CASE k = "null"
      BY <2>2, <3>3, <3>4, <3>6
    <3> QED BY <3>5, <3>6 DEF Keys
  <2>5. CASE RetainEvents
    <3>1. Recent(h, now)
      <4>1. h \notin {g \in Hours : 2 * g < Cutoff(EventDays)}
        BY <1>2, <2>5 DEF RetainEvents
      <4>2. ~(2 * h < Cutoff(EventDays)) /\ now \in Nat /\ h \in Nat
        BY <1>0, <2>2, <4>1, ClockFacts
      <4> QED BY <4>2, RetentionReach DEF Recent, Cutoff
    <3>2. Count(events', h, k) = Count(events, h, k)
      BY <1>0, <2>2, <2>5, <3>1, RetainCounts
    <3>3. UNCHANGED rows
      BY <2>5 DEF RetainEvents
    <3> QED BY <2>2, <3>2, <3>3 DEF HourRows
  <2>6. CASE RetainRollups
    <3>1. UNCHANGED events /\ <<"hourly", h>> \notin {b \in Buckets : StartOf(b) < Cutoff(RollupDays)}
      BY <1>2, <2>6 DEF RetainRollups
    <3>2. rows'[<<"hourly", h>>] = rows[<<"hourly", h>>]
      BY <1>0, <2>2, <2>6, <3>1, RetainRollupsFacts DEF Basic
    <3> QED BY <2>2, <3>1, <3>2 DEF HourRows
  <2>7. CASE UNCHANGED <<rows, events>>
    BY <2>2, <2>7 DEF HourRows
  <2>8. StoreEvent \/ DeleteNode \/ RetainEvents \/ RetainRollups \/ UNCHANGED <<rows, events>>
    BY <1>2 DEF Next, RunStep, Start, ReadDay, Lookup, Fail, RetentionFails, Tick, vars
  <2> QED BY <2>3, <2>4, <2>5, <2>6, <2>7, <2>8
<1> QED BY <1>1, <1>2 DEF CleanExact

LEMMA HourInvStep == ASSUME HourInv, [Next]_vars PROVE HourInv'
<1>1. GotAtMost' /\ GotExact'
  BY GotStep DEF HourInv, RowsInv, RunInv
<1> QED BY <1>1, RowsInvStep, RecentRowsStep, CleanStep DEF HourInv

LEMMA InitHourInv == ASSUME Init PROVE HourInv
<1>1. \A r \in Runs : run[r].stage = "off"
  BY DEF Init, Off
<1>2. \A h \in Hours, k \in Keys : HourRows(rows, h, k) = <<>>
  BY DEF Init, HourRows, Buckets
<1>3. clean = {}
  BY DEF Init
<1> QED BY <1>1, <1>2, <1>3, InitRowsInv DEF HourInv, GotAtMost, GotExact, RecentRows, CleanExact, InHour

LEMMA TotalOfRows == ASSUME NEW n \in Nat PROVE Total(RowsOf(n)) = n
<1>1. CASE n = 0
  <2>1. <<>> \in Seq(Amounts)
    OBVIOUS
  <2> QED BY <1>1, <2>1, TotalFacts DEF RowsOf
<1>2. CASE n # 0
  BY <1>2, TotalOfOne DEF RowsOf
<1> QED BY <1>1, <1>2

\* The rows of an hour add up to exactly its events, once a run that nothing
\* overtook has committed them and until something changes them again: a
\* second run replaces the total, it does not add to it.
THEOREM HoursExact == Spec => []HourlyExact
<1>1. HourInv => HourlyExact
  <2> SUFFICES ASSUME HourInv, NEW h \in clean, NEW k \in Keys
               PROVE  Total(rows[<<"hourly", h>>][k]) = CountIn(h, k)
    BY DEF HourlyExact
  <2>1. h \in Hours /\ events \in EventTypes
    BY DEF HourInv, RowsInv, RunInv, Basic, Types
  <2>2. Count(events, h, k) \in Nat /\ CountIn(h, k) = Count(events, h, k)
    BY <2>1, CountFacts DEF CountIn, Count
  <2>3. rows[<<"hourly", h>>][k] = RowsOf(Count(events, h, k))
    BY DEF HourInv, CleanExact, HourRows
  <2> QED BY <2>2, <2>3, TotalOfRows
<1> QED BY <1>1, InitHourInv, HourInvStep, PTL DEF Spec

-----------------------------------------------------------------------------
(* The rows of a day *)

DayRows(R, d, k) == R[<<"daily", d>>][k]
Undisturbed(d, X) == <<"daily", d>> \notin X /\ \A h \in HoursOf(d) : <<"hourly", h>> \notin X
Before(q) == DayOf(q.hour) - 1

\* The sum of a day is positive where an hour of it has a row, and changes only
\* with the rows of its hours.
LEMMA DaySumFacts ==
  ASSUME NEW R \in RowTypes, NEW d, NEW k \in Keys
  PROVE  /\ DaySum(R, d, k) \in Nat
         /\ DaySum(R, d, k) > 0 => \E h \in HoursOf(d) : HourRows(R, h, k) # <<>>
         /\ (\E h \in HoursOf(d) : HourRows(R, h, k) # <<>>) => DaySum(R, d, k) > 0
<1> DEFINE f == HourlyOf(R, k)
           H == HoursOf(d)
<1>1. /\ \A h \in Hours : R[<<"hourly", h>>][k] \in Seq(Amounts) /\ f[h] = Total(R[<<"hourly", h>>][k])
      /\ H \subseteq Hours /\ IsFiniteSet(H) /\ NatOn(f, H) /\ DaySum(R, d, k) \in Nat
  BY HourlyFacts
<1>2. DaySum(R, d, k) = Sum(f, H)
  BY DEF DaySum
<1>3. \A h \in H : /\ HourRows(R, h, k) = <<>> => f[h] = 0
                   /\ HourRows(R, h, k) # <<>> => f[h] > 0
  BY <1>1, TotalFacts DEF HourRows
<1> HIDE DEF f, H
<1>4. ASSUME \A h \in H : HourRows(R, h, k) = <<>> PROVE DaySum(R, d, k) = 0
  BY <1>1, <1>2, <1>3, <1>4, SumOfZeros
<1>5. ASSUME NEW h \in H, HourRows(R, h, k) # <<>> PROVE DaySum(R, d, k) > 0
  <2>1. f[h] <= Sum(f, H) /\ f[h] \in Nat
    BY <1>1, TermAtMostSum DEF NatOn
  <2>2. f[h] > 0
    BY <1>3, <1>5
  <2> QED BY <1>1, <1>2, <2>1, <2>2
<1> QED BY <1>1, <1>4, <1>5 DEF H

LEMMA DaySumSame ==
  ASSUME NEW R \in RowTypes, NEW S \in RowTypes, NEW d, NEW k \in Keys,
         \A h \in HoursOf(d) : HourRows(S, h, k) = HourRows(R, h, k)
  PROVE  DaySum(S, d, k) = DaySum(R, d, k)
<1>1. \A h \in HoursOf(d) : HourlyOf(S, k)[h] = HourlyOf(R, k)[h]
  <2> SUFFICES ASSUME NEW h \in HoursOf(d) PROVE HourlyOf(S, k)[h] = HourlyOf(R, k)[h]
    OBVIOUS
  <2>1. h \in Hours /\ S[<<"hourly", h>>][k] = R[<<"hourly", h>>][k]
    BY DEF HourRows, HoursOf
  <2>2. HourlyOf(S, k)[h] = Total(S[<<"hourly", h>>][k]) /\ HourlyOf(R, k)[h] = Total(R[<<"hourly", h>>][k])
    BY <2>1 DEF HourlyOf
  <2> QED BY <2>1, <2>2
<1>2. IsFiniteSet(HoursOf(d)) /\ NatOn(HourlyOf(S, k), HoursOf(d))
  BY HourlyFacts
<1> QED BY <1>1, <1>2, SumCongruent DEF DaySum

\* A row of a day stands for a row of one of its hours.
DayPositive ==
  \A d \in Days, k \in Keys :
    Undisturbed(d, excused) /\ DayRows(rows, d, k) # <<>> => DaySum(rows, d, k) > 0
\* What a run has summed up is still what the rows of the hours add up to.
Summed(q, R) == \A k \in Keys : k \notin q.gone => q.got[k] = DaySum(R, Before(q), k)
DayGot ==
  \A r \in Runs : InDay(run[r]) /\ Undisturbed(Before(run[r]), excused) => Summed(run[r], rows)
\* No hour of a healed day is rolled up again, other than by overlapping runs.
HealedPast == \A d \in healed : DayOf(HourOf(now) - 1) > d
WritesLater ==
  \A d \in healed, r \in Runs :
    InHour(run[r]) /\ DayOf(run[r].hour - 1) = d => HourBucket(run[r].hour) \in excused
HealedExact ==
  \A d \in healed, k \in Keys :
    Undisturbed(d, excused) => DayRows(rows, d, k) = RowsOf(DaySum(rows, d, k))

DayInv == RowsInv /\ DayPositive /\ DayGot /\ HealedPast /\ WritesLater /\ HealedExact

LEMMA InDayFacts ==
  ASSUME NEW q, Planned(q), InDay(q)
  PROVE  /\ BucketIn(q) = <<"daily", Before(q)>> /\ Before(q) \in Days
         /\ BucketIn(q) \in BucketsOf(q.hour) /\ Tail(q.plan) = <<>> /\ Early(q.hour)
BY PhaseFacts, DayFacts DEF InDay, Before, DayBucket, Planned

LEMMA DayBuckets ==
  /\ \A d \in Days : <<"daily", d>> \in Buckets
  /\ \A d : \A h \in HoursOf(d) : h \in Hours /\ <<"hourly", h>> \in Buckets
BY DEF Buckets, HoursOf

LEMMA UndisturbedBefore ==
  ASSUME NEW d, NEW X, NEW Y, X \subseteq Y, Undisturbed(d, Y) PROVE Undisturbed(d, X)
BY DEF Undisturbed

LEMMA ExcusedGrows == ASSUME Basic, [Next]_vars PROVE excused \subseteq excused'
<1>1. ASSUME NEW r \in Runs, Start(r) PROVE excused \subseteq excused'
  BY <1>1, StartExcuses
<1>2. ASSUME NEW r \in Runs, RunStep(r) PROVE excused \subseteq excused'
  BY <1>2, ProgressFacts DEF Progress
<1>3. ASSUME Quiet PROVE excused \subseteq excused'
  BY <1>3, QuietFacts
<1> QED BY <1>1, <1>2, <1>3, NextCases

\* What the steps that are not commits do to the rows of an undisturbed day.
LEMMA RowsOfDay ==
  ASSUME Basic, [Next]_vars, ~(\E r \in Runs : Commit(r)), NEW d \in Days, Undisturbed(d, excused'),
         NEW k \in Keys
  PROVE  \/ /\ DayRows(rows', d, k) = DayRows(rows, d, k)
            /\ DaySum(rows', d, k) = DaySum(rows, d, k)
         \/ /\ DeleteNode /\ k = "node"
            /\ DayRows(rows', d, k) = <<>> /\ DaySum(rows', d, k) = 0
<1>0. rows \in RowTypes /\ rows' \in RowTypes
  BY NextBasic DEF Basic, Types
<1>a. <<"daily", d>> \in Buckets /\ \A h \in HoursOf(d) : <<"hourly", h>> \in Buckets
  BY DayBuckets
<1>1. CASE UNCHANGED rows
  BY <1>1
<1>2. CASE DeleteNode
  <2>1. \A b \in Buckets : rows'[b]["node"] = <<>> /\ rows'[b]["null"] = rows[b]["null"]
    BY <1>2, DeleteNodeRows
  <2>2. CASE k = "node"
    <3>1. DayRows(rows', d, k) = <<>> /\ \A h \in HoursOf(d) : HourRows(rows', h, k) = <<>>
      BY <1>a, <2>1, <2>2 DEF DayRows, HourRows
    <3>2. DaySum(rows', d, k) \in Nat /\ ~(DaySum(rows', d, k) > 0)
      BY <1>0, <3>1, DaySumFacts
    <3>3. DaySum(rows', d, k) = 0
      BY <3>2
    <3> QED BY <1>2, <2>2, <3>1, <3>3
  <2>3. CASE k = "null"
    <3>1. DayRows(rows', d, k) = DayRows(rows, d, k)
          /\ \A h \in HoursOf(d) : HourRows(rows', h, k) = HourRows(rows, h, k)
      BY <1>a, <2>1, <2>3 DEF DayRows, HourRows
    <3> QED BY <1>0, <3>1, DaySumSame
  <2> QED BY <2>2, <2>3 DEF Keys
<1>3. CASE RetainRollups
  <2> DEFINE old == {b \in Buckets : StartOf(b) < Cutoff(RollupDays)}
  <2>1. \A b \in Buckets : b \notin old => rows'[b] = rows[b]
    BY <1>3, RetainRollupsFacts DEF Basic
  <2>2. excused' = excused \cup old
    BY <1>3 DEF RetainRollups
  <2> HIDE DEF old
  <2>3. DayRows(rows', d, k) = DayRows(rows, d, k)
        /\ \A h \in HoursOf(d) : HourRows(rows', h, k) = HourRows(rows, h, k)
    BY <1>a, <2>1, <2>2 DEF DayRows, HourRows, Undisturbed
  <2> QED BY <1>0, <2>3, DaySumSame
<1>4. DeleteNode \/ RetainRollups \/ UNCHANGED rows
  BY DEF Next, RunStep, Start, ReadDay, Lookup, Fail, StoreEvent, RetainEvents, RetentionFails, Tick, vars
<1> QED BY <1>1, <1>2, <1>3, <1>4

\* The commit of an hour changes no row of a day, and leaves no hour without
\* the row it had; the commit of a day changes its rows only.
LEMMA CommitOfHour ==
  ASSUME Basic, NEW r \in Runs, Commit(r), InHour(run[r]), NEW d \in Days, NEW k \in Keys
  PROVE  /\ DayRows(rows', d, k) = DayRows(rows, d, k)
         /\ DaySum(rows, d, k) > 0 => DaySum(rows', d, k) > 0
         /\ DayOf(run[r].hour - 1) # d => DaySum(rows', d, k) = DaySum(rows, d, k)
         /\ UNCHANGED healed
<1>0. rows \in RowTypes /\ rows' \in RowTypes /\ run[r] \in RunTypes
      /\ Planned(run[r]) /\ run[r].stage = "looked"
  BY NextBasic DEF Basic, Types, Next, RunStep, Shape, Commit
<1>1. /\ \A e \in Buckets : e # Bucket(r) => rows'[e] = rows[e]
      /\ \A j \in Keys : run[r].got[j] > 0 =>
           rows'[Bucket(r)][j] = Written(rows[Bucket(r)][j], run[r].found[j], run[r].got[j])
      /\ \A j \in Keys : ~(run[r].got[j] > 0) => rows'[Bucket(r)][j] = rows[Bucket(r)][j]
  BY CommitFacts DEF Basic
<1>2. /\ Bucket(r) = <<"hourly", run[r].hour - 1>>
      /\ Tail(run[r].plan) = <<>> => ~Early(run[r].hour)
  <2>1. /\ BucketIn(run[r]) = HourBucket(run[r].hour)
        /\ Tail(run[r].plan) = IF Early(run[r].hour) THEN <<"daily">> ELSE <<>>
    BY <1>0, PhaseFacts DEF InHour
  <2>2. <<"daily">> # <<>>
    OBVIOUS
  <2>3. Tail(run[r].plan) = <<>> => ~Early(run[r].hour)
    BY <2>1, <2>2
  <2>4. Bucket(r) = <<"hourly", run[r].hour - 1>>
    BY <2>1 DEF HourBucket, Bucket, BucketIn
  <2> QED BY <2>3, <2>4
<1>3. DayRows(rows', d, k) = DayRows(rows, d, k)
  BY <1>1, <1>2, DayBuckets DEF DayRows
<1>4. ASSUME DaySum(rows, d, k) > 0 PROVE DaySum(rows', d, k) > 0
  <2>1. PICK h \in HoursOf(d) : HourRows(rows, h, k) # <<>>
    BY <1>0, <1>4, DaySumFacts
  <2>2. HourRows(rows', h, k) # <<>>
    <3>1. CASE <<"hourly", h>> # Bucket(r) \/ ~(run[r].got[k] > 0)
      BY <1>1, <2>1, <3>1, DayBuckets DEF HourRows
    <3>2. CASE <<"hourly", h>> = Bucket(r) /\ run[r].got[k] > 0
      <4> DEFINE s == HourRows(rows, h, k)
                 w == HourRows(rows', h, k)
      <4>1. w = Written(s, run[r].found[k], run[r].got[k])
        BY <1>1, <3>2 DEF HourRows
      <4>2. s \in Seq(Amounts) /\ run[r].found[k] \in 0 .. 1 /\ run[r].got[k] \in Amounts /\ Len(s) \in Nat
        BY <1>0, <3>2, HourlyFacts, DayBuckets DEF RunTypes, Amounts, HourRows
      <4>3. Len(w) = Len(s) \/ Len(w) = Len(s) + 1
        <5>1. run[r].found[k] = 1 \/ run[r].found[k] = 0
          BY <4>2
        <5> HIDE DEF s
        <5>2. /\ run[r].found[k] = 1 => Len(Written(s, run[r].found[k], run[r].got[k])) = Len(s)
              /\ run[r].found[k] = 0 => Len(Written(s, run[r].found[k], run[r].got[k])) = Len(s) + 1
          BY <4>2, WrittenFacts
        <5> HIDE DEF w
        <5> QED BY <4>1, <5>1, <5>2
      <4>4. Len(s) > 0
        BY <2>1, <4>2, EmptySeq
      <4>5. Len(w) > 0
        BY <4>2, <4>3, <4>4
      <4> QED BY <4>5
    <3> QED BY <3>1, <3>2
  <2> QED BY <1>0, <2>2, DaySumFacts
<1>5. ASSUME DayOf(run[r].hour - 1) # d PROVE DaySum(rows', d, k) = DaySum(rows, d, k)
  <2>1. \A h \in HoursOf(d) : <<"hourly", h>> # Bucket(r)
    BY <1>2, <1>5 DEF HoursOf
  <2>2. \A h \in HoursOf(d) : HourRows(rows', h, k) = HourRows(rows, h, k)
    BY <1>1, <2>1, DayBuckets DEF HourRows
  <2> QED BY <1>0, <2>2, DaySumSame
<1>6. UNCHANGED healed
  <2>1. ~(Tail(run[r].plan) = <<>> /\ run[r].hour % HoursPerDay = DailyHours - 1)
    BY <1>2 DEF Early
  <2> QED BY <2>1 DEF Commit
<1> QED BY <1>3, <1>4, <1>5, <1>6

LEMMA CommitOfDay ==
  ASSUME RowsInv, DayPositive, DayGot, NEW r \in Runs, Commit(r), InDay(run[r]), NEW d \in Days, NEW k \in Keys
  PROVE  /\ DaySum(rows', d, k) = DaySum(rows, d, k)
         /\ d # Before(run[r]) => DayRows(rows', d, k) = DayRows(rows, d, k)
         /\ Undisturbed(d, excused) /\ d = Before(run[r])
              => DayRows(rows', d, k) = RowsOf(DaySum(rows, d, k))
         /\ \/ healed' = healed
            \/ healed' = healed \cup {Before(run[r])} /\ run[r].hour % HoursPerDay = DailyHours - 1
<1>0. rows \in RowTypes /\ rows' \in RowTypes /\ run[r] \in RunTypes
      /\ Planned(run[r]) /\ run[r].stage = "looked" /\ Basic
  BY NextBasic DEF RowsInv, RunInv, Basic, Types, Next, RunStep, Shape, Commit
<1>1. /\ \A e \in Buckets : e # Bucket(r) => rows'[e] = rows[e]
      /\ \A j \in Keys : run[r].got[j] > 0 =>
           /\ j \notin run[r].gone
           /\ rows'[Bucket(r)][j] = Written(rows[Bucket(r)][j], run[r].found[j], run[r].got[j])
      /\ \A j \in Keys : ~(run[r].got[j] > 0) => rows'[Bucket(r)][j] = rows[Bucket(r)][j]
  BY <1>0, CommitFacts DEF Basic
<1>2. Bucket(r) = <<"daily", Before(run[r])>> /\ Bucket(r) = BucketIn(run[r])
  BY <1>0, InDayFacts DEF Bucket, BucketIn
<1>3. DaySum(rows', d, k) = DaySum(rows, d, k)
  <2>1. \A h \in HoursOf(d) : HourRows(rows', h, k) = HourRows(rows, h, k)
    <3> SUFFICES ASSUME NEW h \in HoursOf(d) PROVE HourRows(rows', h, k) = HourRows(rows, h, k)
      OBVIOUS
    <3>1. <<"hourly", h>> \in Buckets /\ <<"hourly", h>> # Bucket(r)
      BY <1>2, DayBuckets
    <3> QED BY <1>1, <3>1 DEF HourRows
  <2> QED BY <1>0, <2>1, DaySumSame
<1>4. d # Before(run[r]) => DayRows(rows', d, k) = DayRows(rows, d, k)
  BY <1>1, <1>2, DayBuckets DEF DayRows
<1>5. ASSUME Undisturbed(d, excused), d = Before(run[r])
      PROVE  DayRows(rows', d, k) = RowsOf(DaySum(rows, d, k))
  <2> DEFINE n == DaySum(rows, d, k)
  <2>1. n \in Nat
    BY <1>0, DaySumFacts
  <2>2. k \notin run[r].gone => run[r].got[k] = n
    BY <1>5 DEF DayGot, Summed
  <2>3. k \in run[r].gone => run[r].got[k] > 0
    BY <1>0 DEF Planned
  <2> HIDE DEF n
  <2>4. CASE run[r].got[k] > 0
    <3>1. k \notin run[r].gone /\ run[r].got[k] = n
      BY <1>1, <2>2, <2>4
    <3>2. DayRows(rows', d, k) = Written(DayRows(rows, d, k), run[r].found[k], n)
      BY <1>1, <1>2, <1>5, <2>4, <3>1 DEF DayRows
    <3>3. run[r].found[k] = Len(DayRows(rows, d, k))
      <4>1. Fresh(run[r], excused)
        BY <1>2, <1>5 DEF Fresh, Undisturbed
      <4>2. Found(run[r], rows)
        BY <1>0, <4>1 DEF RowsInv, LookedFresh
      <4> QED BY <1>2, <1>5, <2>4, <3>1, <4>2 DEF Found, DayRows
    <3>4. DayRows(rows, d, k) \in Seq(Amounts) /\ run[r].found[k] \in 0 .. 1 /\ n \in Amounts
      BY <1>0, <2>1, <2>4, <3>1, DayBuckets DEF DayRows, RowTypes, RunTypes, Amounts
    <3>5. DayRows(rows', d, k) = <<n>>
      BY <3>2, <3>3, <3>4, WrittenFacts
    <3> QED BY <2>4, <3>1, <3>5 DEF RowsOf, n
  <2>5. CASE ~(run[r].got[k] > 0)
    <3>1. run[r].got[k] = n
      BY <2>2, <2>3, <2>5
    <3>2. n = 0
      BY <2>1, <2>5, <3>1
    <3>3. DayRows(rows, d, k) = <<>>
      BY <1>5, <3>2 DEF DayPositive, n
    <3>4. DayRows(rows', d, k) = DayRows(rows, d, k)
      BY <1>1, <1>2, <1>5, <2>5 DEF DayRows
    <3> QED BY <3>2, <3>3, <3>4 DEF RowsOf, n
  <2> QED BY <2>4, <2>5
<1>6. healed' = healed \/ (healed' = healed \cup {Before(run[r])} /\ run[r].hour % HoursPerDay = DailyHours - 1)
  <2>1. healed' = IF Tail(run[r].plan) = <<>> /\ run[r].hour % HoursPerDay = DailyHours - 1
                  THEN healed \cup {Before(run[r])} ELSE healed
    BY DEF Commit, Before
  <2> QED BY <2>1
<1> QED BY <1>3, <1>4, <1>5, <1>6

LEMMA CommitPhase ==
  ASSUME Basic, NEW r \in Runs, Commit(r) PROVE InHour(run[r]) \/ InDay(run[r])
<1>1. Planned(run[r]) /\ run[r].stage = "looked"
  BY DEF Basic, Shape, Commit
<1> QED BY <1>1, PhaseFacts DEF InHour, InDay

LEMMA DayPositiveStep == ASSUME DayInv, [Next]_vars PROVE DayPositive'
<1>0. Basic /\ RowsInv /\ rows \in RowTypes /\ excused \subseteq excused'
  BY ExcusedGrows DEF DayInv, RowsInv, RunInv, Basic, Types
<1> SUFFICES ASSUME NEW d \in Days, NEW k \in Keys, Undisturbed(d, excused'), DayRows(rows', d, k) # <<>>
             PROVE  DaySum(rows', d, k) > 0
  BY DEF DayPositive
<1>1. Undisturbed(d, excused)
  BY <1>0, UndisturbedBefore
<1>2. DayRows(rows, d, k) # <<>> => DaySum(rows, d, k) > 0
  BY <1>1 DEF DayInv, DayPositive
<1>3. ASSUME NEW r \in Runs, Commit(r) PROVE DaySum(rows', d, k) > 0
  <2>1. CASE InHour(run[r])
    BY <1>0, <1>2, <1>3, <2>1, CommitOfHour
  <2>2. CASE InDay(run[r])
    <3>1. DaySum(rows', d, k) = DaySum(rows, d, k) /\ DaySum(rows, d, k) \in Nat
      BY <1>0, <1>3, <2>2, CommitOfDay, DaySumFacts DEF DayInv
    <3>2. CASE d = Before(run[r])
      <4>1. DayRows(rows', d, k) = RowsOf(DaySum(rows, d, k))
        BY <1>0, <1>1, <1>3, <2>2, <3>2, CommitOfDay DEF DayInv
      <4>2. DaySum(rows, d, k) # 0
        BY <4>1 DEF RowsOf
      <4> QED BY <3>1, <4>2
    <3>3. CASE d # Before(run[r])
      <4>1. DayRows(rows', d, k) = DayRows(rows, d, k)
        BY <1>0, <1>3, <2>2, <3>3, CommitOfDay DEF DayInv
      <4> QED BY <1>2, <3>1, <4>1
    <3> QED BY <3>2, <3>3
  <2> QED BY <1>0, <1>3, <2>1, <2>2, CommitPhase
<1>4. ASSUME ~(\E r \in Runs : Commit(r)) PROVE DaySum(rows', d, k) > 0
  BY <1>0, <1>2, <1>4, RowsOfDay
<1> QED BY <1>3, <1>4

LEMMA DayGotStep == ASSUME DayInv, [Next]_vars PROVE DayGot'
<1>0. Basic /\ Basic' /\ RunInv /\ excused \subseteq excused'
      /\ run \in [Runs -> RunTypes] /\ run' \in [Runs -> RunTypes]
      /\ rows \in RowTypes /\ rows' \in RowTypes
  BY ExcusedGrows, NextBasic DEF DayInv, RowsInv, RunInv, Basic, Types
<1> SUFFICES ASSUME NEW r \in Runs, InDay(run'[r]), Undisturbed(Before(run'[r]), excused')
             PROVE  Summed(run'[r], rows')
  BY DEF DayGot
<1>a. Planned(run'[r])
  BY <1>0 DEF Basic, Shape, InDay
<1>b. BucketIn(run'[r]) = <<"daily", Before(run'[r])>> /\ Before(run'[r]) \in Days
      /\ BucketIn(run'[r]) \in BucketsOf(run'[r].hour)
  BY <1>a, InDayFacts
<1>c. BucketIn(run'[r]) \notin excused /\ Undisturbed(Before(run'[r]), excused)
  BY <1>0, <1>b, UndisturbedBefore DEF Undisturbed
\* A run that was in the phase of the day before.
<1>d. ASSUME InDay(run[r]), Before(run[r]) = Before(run'[r]), run'[r].got = run[r].got,
             run[r].gone \subseteq run'[r].gone, UNCHANGED rows
      PROVE  Summed(run'[r], rows')
  BY <1>c, <1>d DEF DayInv, DayGot, Summed
<1>1. ASSUME NEW b \in Runs, Start(b) PROVE Summed(run'[r], rows')
  <2>1. /\ \A c \in Runs : run[c].stage # "off" => Kept(run[c], run'[c])
        /\ \A c \in Runs : c # b /\ run[c].stage = "off" => run'[c].stage = "off"
        /\ run'[b].plan = Plan(HourOf(now))
    BY <1>0, <1>1, StartFacts DEF Basic
  <2>2. r # b
    BY <2>1, PlanFacts DEF InDay
  <2>3. Kept(run[r], run'[r])
    BY <2>1, <2>2 DEF InDay
  <2> QED BY <1>d, <1>1, <2>3 DEF Kept, InDay, Before, Start
<1>2. ASSUME NEW b \in Runs, RunStep(b), b # r PROVE Summed(run'[r], rows')
  <2>1. run'[r] = run[r] /\ run[b].stage # "off"
    BY <1>0, <1>2, ProgressFacts DEF Progress, Others
  <2>2. BucketsOf(run[r].hour) \subseteq excused
    BY <1>0, <1>2, <2>1 DEF RunInv, Overlap, InDay
  <2>3. FALSE
    BY <1>b, <1>c, <2>1, <2>2
  <2> QED BY <2>3
<1>3. CASE ReadDay(r)
  <2>1. /\ run'[r].hour = run[r].hour
        /\ \A k \in Keys : run'[r].got[k] = DaySum(rows, DayOf(run[r].hour) - 1, k)
    BY <1>0, <1>3, ReadDayFacts DEF Basic
  <2>2. UNCHANGED rows
    BY <1>3 DEF ReadDay
  <2> QED BY <2>1, <2>2 DEF Summed, Before
<1>4. CASE Lookup(r)
  <2>1. /\ run[r].stage = "read" /\ run'[r].hour = run[r].hour /\ run'[r].plan = run[r].plan
        /\ run'[r].got = run[r].got /\ run'[r].gone = run[r].gone
    BY <1>0, <1>4, LookupFacts DEF Basic
  <2>2. UNCHANGED rows
    BY <1>4 DEF Lookup
  <2> QED BY <1>d, <2>1, <2>2 DEF InDay, Before
<1>5. CASE Commit(r) \/ Fail(r)
  <2>1. run'[r].stage \in {"off", "next"}
    BY <1>0, <1>5, CommitFacts, FailFacts DEF Basic
  <2> QED BY <2>1 DEF InDay
<1>6. ASSUME Quiet PROVE Summed(run'[r], rows')
  <2>1. Steady
    BY <1>0, <1>6, QuietFacts
  <2>2. Kept(run[r], run'[r]) /\ run[r].stage # "off"
    BY <2>1 DEF Steady, InDay
  <2>3. InDay(run[r]) /\ Before(run[r]) = Before(run'[r])
    BY <2>2 DEF Kept, InDay, Before
  <2>4. Summed(run[r], rows)
    BY <1>c, <2>3 DEF DayInv, DayGot
  <2>5. ASSUME NEW k \in Keys, k \notin run'[r].gone PROVE run'[r].got[k] = DaySum(rows', Before(run'[r]), k)
    <3>1. run[r].got[k] = DaySum(rows, Before(run'[r]), k) /\ run'[r].got = run[r].got
      BY <2>2, <2>3, <2>4, <2>5 DEF Summed, Kept
    <3>2. CASE DaySum(rows', Before(run'[r]), k) = DaySum(rows, Before(run'[r]), k)
      BY <3>1, <3>2
    <3>3. CASE DeleteNode /\ k = "node" /\ DaySum(rows', Before(run'[r]), k) = 0
      <4>1. ~(run[r].got["node"] > 0)
        BY <1>0, <2>2, <2>5, <3>3, DeleteNodeFacts DEF Basic
      <4>2. run[r].got[k] \in Nat
        BY <1>0 DEF RunTypes
      <4> QED BY <3>1, <3>3, <4>1, <4>2
    <3>4. CASE \E b \in Runs : Commit(b)
      <4>1. PICK b \in Runs : RunStep(b)
        BY <3>4 DEF RunStep
      <4>2. b = r => Commit(r) \/ Fail(r) \/ ReadDay(r) \/ Lookup(r)
        BY <4>1 DEF RunStep
      <4>3. Summed(run'[r], rows')
        BY <1>2, <1>3, <1>4, <1>5, <4>1, <4>2
      <4> QED BY <2>5, <4>3 DEF Summed
    <3> QED BY <1>0, <1>b, <3>2, <3>3, <3>4, RowsOfDay
  <2> QED BY <2>5 DEF Summed
<1>7. ASSUME NEW b \in Runs, RunStep(b) PROVE Summed(run'[r], rows')
  <2>1. b = r => Commit(r) \/ Fail(r) \/ ReadDay(r) \/ Lookup(r)
    BY <1>7 DEF RunStep
  <2> QED BY <1>2, <1>3, <1>4, <1>5, <1>7, <2>1
<1> QED BY <1>1, <1>6, <1>7, NextCases

LEMMA HealedSteps ==
  ASSUME DayInv, [Next]_vars
  PROVE  \/ UNCHANGED healed
         \/ \E r \in Runs : /\ Commit(r) /\ InDay(run[r])
                            /\ healed' = healed \cup {Before(run[r])}
                            /\ run[r].hour % HoursPerDay = DailyHours - 1
<1>0. Basic /\ RowsInv
  BY DEF DayInv, RowsInv, RunInv
<1>1. ASSUME NEW r \in Runs, Commit(r), ~(UNCHANGED healed)
      PROVE  /\ InDay(run[r]) /\ healed' = healed \cup {Before(run[r])}
             /\ run[r].hour % HoursPerDay = DailyHours - 1
  <2>1. 0 \in Days /\ "node" \in Keys
    <3>1. MaxHour \div HoursPerDay \in Nat
      BY ClockFacts, Division
    <3> QED BY <3>1 DEF Days, Keys
  <2>2. InDay(run[r])
    BY <1>0, <1>1, <2>1, CommitPhase, CommitOfHour
  <2> QED BY <1>0, <1>1, <2>1, <2>2, CommitOfDay DEF DayInv
<1>2. ASSUME ~(\E r \in Runs : Commit(r)) PROVE UNCHANGED healed
  BY <1>2 DEF Next, RunStep, Start, ReadDay, Lookup, Fail, StoreEvent, DeleteNode, RetainEvents,
              RetainRollups, RetentionFails, Tick, vars, Stating
<1> QED BY <1>1, <1>2

LEMMA DayOfMonotone ==
  ASSUME NEW a \in Nat, NEW b \in Nat, a <= b PROVE DayOf(a) <= DayOf(b) /\ DayOf(a) \in Nat /\ DayOf(b) \in Nat
BY DivisionMonotone, Division DEF DayOf

LEMMA HealedPastStep == ASSUME DayInv, [Next]_vars PROVE HealedPast'
<1>0. now \in Clock /\ now' \in Clock /\ Basic /\ healed \subseteq Days
  BY NextBasic DEF DayInv, RowsInv, RunInv, Basic, Types
<1>1. HourOf(now) - 1 \in Nat /\ HourOf(now') - 1 \in Nat /\ HourOf(now) <= HourOf(now')
  <2>1. HourOf(now) \in RunHours /\ HourOf(now') \in RunHours /\ now \in Nat /\ now' \in Nat
    BY <1>0, ClockFacts
  <2>2. now <= now'
    BY <2>1, EventSteps DEF Tick
  <2>3. HourOf(now) - 1 \in Nat /\ HourOf(now') - 1 \in Nat
    BY <2>1, ClockFacts DEF Hours
  <2>4. now \div 2 <= now' \div 2
    <3>1. \A a, b \in Nat : a <= b => a \div 2 <= b \div 2
      OBVIOUS
    <3> QED BY <2>1, <2>2, <3>1, Zenon
  <2> QED BY <2>3, <2>4 DEF HourOf
<1>2. DayOf(HourOf(now) - 1) <= DayOf(HourOf(now') - 1) /\ DayOf(HourOf(now) - 1) \in Nat
      /\ DayOf(HourOf(now') - 1) \in Nat
  <2>1. HourOf(now) \in Nat /\ HourOf(now') \in Nat
    BY <1>0, ClockFacts DEF RunHours
  <2>2. HourOf(now) - 1 <= HourOf(now') - 1
    BY <1>1, <2>1
  <2> QED BY <1>1, <2>2, DayOfMonotone
<1>3. \A d \in healed : DayOf(HourOf(now') - 1) > d
  <2>1. \A d \in Days : d \in Int
    BY DEF Days
  <2> QED BY <1>0, <1>2, <2>1 DEF DayInv, HealedPast
<1>4. ASSUME NEW r \in Runs, Commit(r), InDay(run[r]), run[r].hour % HoursPerDay = DailyHours - 1
      PROVE  DayOf(HourOf(now') - 1) > Before(run[r])
  <2> DEFINE h == run[r].hour
  <2>1. h \in RunHours /\ h \in Nat /\ h - 1 \in Nat /\ h <= HourOf(now)
    BY <1>0, <1>4, ClockFacts DEF Basic, Shape, Planned, Timely, InDay, RunHours
  <2>2. DayOf(h - 1) = DayOf(h)
    <3>1. h % HoursPerDay >= 1
      BY <1>4
    <3> HIDE DEF h
    <3>2. HoursPerDay \in Nat /\ HoursPerDay > 0
      BY DEF DailyHours
    <3>3. (h - 1) \div HoursPerDay = h \div HoursPerDay
      BY <2>1, <3>1, <3>2, Division
    <3> QED BY <3>3 DEF DayOf
  <2>3. DayOf(h - 1) <= DayOf(HourOf(now) - 1) /\ DayOf(h - 1) \in Nat
    <3>1. h - 1 <= HourOf(now) - 1
      <4>1. HourOf(now) \in Nat
        BY <1>0, ClockFacts DEF RunHours
      <4> QED BY <2>1, <4>1
    <3> QED BY <1>1, <2>1, <3>1, DayOfMonotone
  <2> QED BY <1>2, <2>2, <2>3 DEF Before
<1> QED BY <1>3, <1>4, HealedSteps DEF HealedPast

LEMMA WritesLaterStep == ASSUME DayInv, [Next]_vars PROVE WritesLater'
<1>0. Basic /\ Basic' /\ RunInv /\ excused \subseteq excused' /\ healed \subseteq Days
  BY ExcusedGrows, NextBasic DEF DayInv, RowsInv, RunInv, Basic, Types
<1> SUFFICES ASSUME NEW r \in Runs, InHour(run'[r]), DayOf(run'[r].hour - 1) \in healed'
             PROVE  HourBucket(run'[r].hour) \in excused'
  BY DEF WritesLater
<1>a. ASSUME InHour(run[r]), run'[r].hour = run[r].hour, DayOf(run'[r].hour - 1) \in healed
      PROVE  HourBucket(run'[r].hour) \in excused'
  BY <1>0, <1>a DEF DayInv, WritesLater
<1>1. ASSUME NEW b \in Runs, Start(b) PROVE HourBucket(run'[r].hour) \in excused'
  <2>1. /\ \A c \in Runs : run[c].stage # "off" => Kept(run[c], run'[c])
        /\ \A c \in Runs : c # b /\ run[c].stage = "off" => run'[c].stage = "off"
        /\ run'[b].hour = HourOf(now)
    BY <1>0, <1>1, StartFacts DEF Basic
  <2>2. UNCHANGED healed
    BY <1>1 DEF Start
  <2>3. r # b
    <3>1. ASSUME r = b PROVE FALSE
      <4>1. DayOf(HourOf(now) - 1) > DayOf(HourOf(now) - 1)
        BY <2>1, <2>2, <3>1 DEF DayInv, HealedPast
      <4>2. DayOf(HourOf(now) - 1) \in Int
        <5>1. DayOf(HourOf(now) - 1) \in Days
          BY <1>0, <2>1, <2>2, <3>1
        <5>2. \A d \in Days : d \in Int
          BY DEF Days
        <5> QED BY <5>1, <5>2
      <4> QED BY <4>1, <4>2
    <3> QED BY <3>1
  <2>4. Kept(run[r], run'[r])
    BY <2>1, <2>3 DEF InHour
  <2> QED BY <1>a, <2>2, <2>4 DEF Kept, InHour
<1>2. ASSUME NEW b \in Runs, RunStep(b) PROVE HourBucket(run'[r].hour) \in excused'
  <2>1. Progress(b)
    BY <1>0, <1>2, ProgressFacts
  <2>2. InHour(run[r]) /\ run'[r].hour = run[r].hour
    BY <2>1 DEF Progress, Others, InHour
  <2>3. CASE UNCHANGED healed
    BY <1>a, <2>2, <2>3
  <2>4. CASE \E c \in Runs : Commit(c) /\ InDay(run[c])
    <3>1. PICK c \in Runs : Commit(c) /\ InDay(run[c])
      BY <2>4
    <3>2. c # r /\ run[c].stage # "off" /\ run[r].stage # "off"
      BY <2>2, <3>1 DEF InHour, InDay
    <3>3. BucketsOf(run[r].hour) \subseteq excused
      BY <1>0, <3>2 DEF RunInv, Overlap
    <3>4. HourBucket(run[r].hour) \in BucketsOf(run[r].hour)
      BY <1>0, <3>2, BucketFacts DEF Basic, Shape, Planned
    <3> QED BY <1>0, <2>2, <3>3, <3>4
  <2> QED BY <2>3, <2>4, HealedSteps
<1>3. ASSUME Quiet PROVE HourBucket(run'[r].hour) \in excused'
  <2>1. Steady /\ UNCHANGED healed
    BY <1>0, <1>3, QuietFacts DEF Quiet, StoreEvent, DeleteNode, RetainEvents, RetainRollups,
                                  RetentionFails, Tick, vars, Stating
  <2>2. Kept(run[r], run'[r])
    BY <2>1 DEF Steady, InHour
  <2> QED BY <1>a, <2>1, <2>2 DEF Kept, InHour
<1> QED BY <1>1, <1>2, <1>3, NextCases

LEMMA HealedExactStep == ASSUME DayInv, [Next]_vars PROVE HealedExact'
<1>0. Basic /\ Basic' /\ RowsInv /\ rows \in RowTypes /\ excused \subseteq excused'
      /\ healed \subseteq Days /\ healed' \subseteq Days
  BY ExcusedGrows, NextBasic DEF DayInv, RowsInv, RunInv, Basic, Types
<1> SUFFICES ASSUME NEW d \in healed', NEW k \in Keys, Undisturbed(d, excused')
             PROVE  DayRows(rows', d, k) = RowsOf(DaySum(rows', d, k))
  BY DEF HealedExact
<1>1. d \in Days /\ Undisturbed(d, excused)
  BY <1>0, UndisturbedBefore
<1>2. d \in healed => DayRows(rows, d, k) = RowsOf(DaySum(rows, d, k))
  BY <1>1 DEF DayInv, HealedExact
<1>3. ASSUME NEW r \in Runs, Commit(r), InHour(run[r])
      PROVE  DayRows(rows', d, k) = RowsOf(DaySum(rows', d, k))
  <2>1. /\ DayRows(rows', d, k) = DayRows(rows, d, k) /\ UNCHANGED healed
        /\ DayOf(run[r].hour - 1) # d => DaySum(rows', d, k) = DaySum(rows, d, k)
    BY <1>0, <1>1, <1>3, CommitOfHour
  <2>2. DayOf(run[r].hour - 1) # d
    <3>1. ASSUME DayOf(run[r].hour - 1) = d PROVE FALSE
      <4>1. HourBucket(run[r].hour) \in excused
        BY <1>3, <2>1, <3>1 DEF DayInv, WritesLater
      <4>2. run[r].hour - 1 \in Hours
        BY <1>0, <1>3, ClockFacts DEF Basic, Shape, Planned, InHour
      <4>3. run[r].hour - 1 \in HoursOf(d)
        BY <3>1, <4>2 DEF HoursOf
      <4> QED BY <1>1, <4>1, <4>3 DEF Undisturbed, HourBucket
    <3> QED BY <3>1
  <2> QED BY <1>2, <2>1, <2>2
<1>4. ASSUME NEW r \in Runs, Commit(r), InDay(run[r])
      PROVE  DayRows(rows', d, k) = RowsOf(DaySum(rows', d, k))
  <2>1. /\ DaySum(rows', d, k) = DaySum(rows, d, k)
        /\ d # Before(run[r]) => DayRows(rows', d, k) = DayRows(rows, d, k)
        /\ d = Before(run[r]) => DayRows(rows', d, k) = RowsOf(DaySum(rows, d, k))
        /\ healed' \subseteq healed \cup {Before(run[r])}
    BY <1>0, <1>1, <1>4, CommitOfDay DEF DayInv
  <2> QED BY <1>2, <2>1
<1>5. ASSUME ~(\E r \in Runs : Commit(r)) PROVE DayRows(rows', d, k) = RowsOf(DaySum(rows', d, k))
  <2>1. UNCHANGED healed
    BY <1>5, HealedSteps
  <2>2. \/ /\ DayRows(rows', d, k) = DayRows(rows, d, k)
           /\ DaySum(rows', d, k) = DaySum(rows, d, k)
        \/ DayRows(rows', d, k) = <<>> /\ DaySum(rows', d, k) = 0
    BY <1>0, <1>1, <1>5, RowsOfDay
  <2> QED BY <1>2, <2>1, <2>2 DEF RowsOf
<1> QED BY <1>0, <1>3, <1>4, <1>5, CommitPhase

LEMMA DayInvStep == ASSUME DayInv, [Next]_vars PROVE DayInv'
<1>1. RowsInv'
  BY RowsInvStep DEF DayInv
<1> QED BY <1>1, DayPositiveStep, DayGotStep, HealedPastStep, WritesLaterStep, HealedExactStep DEF DayInv

LEMMA InitDayInv == ASSUME Init PROVE DayInv
<1>1. \A r \in Runs : run[r].stage = "off"
  BY DEF Init, Off
<1>2. \A d \in Days, k \in Keys : DayRows(rows, d, k) = <<>>
  BY DayBuckets DEF Init, DayRows
<1>3. healed = {}
  BY DEF Init
<1> QED BY <1>1, <1>2, <1>3, InitRowsInv
        DEF DayInv, DayPositive, DayGot, HealedPast, WritesLater, HealedExact, InHour, InDay

\* Once the run of the day's second hour has completed, the daily rows are
\* the sums of the hourly rows, also when the run of the first hour stopped
\* between its two transactions, and stay so: no later run rolls up an hour
\* of that day again, unless it overlaps another.
THEOREM DaysHealed == Spec => []DailyHealed
<1>1. DayInv => DailyHealed
  <2> SUFFICES ASSUME DayInv, NEW d \in healed, NEW k \in Keys,
                      \A b \in {<<"daily", d>>} \cup ({"hourly"} \X HoursOf(d)) : b \notin excused
               PROVE  Total(rows[<<"daily", d>>][k]) = Aggregate(<<"daily", d>>)[k]
    BY DEF DailyHealed
  <2>1. Types /\ rows \in RowTypes
    BY DEF DayInv, RowsInv, RunInv, Basic, Types
  <2>2. Undisturbed(d, excused)
    BY DEF Undisturbed
  <2>3. rows[<<"daily", d>>][k] = RowsOf(DaySum(rows, d, k))
    BY <2>2 DEF DayInv, HealedExact, DayRows
  <2>4. DaySum(rows, d, k) \in Nat /\ Aggregate(<<"daily", d>>)[k] = DaySum(rows, d, k)
    BY <2>1, DaySumFacts, AggregateFacts
  <2> QED BY <2>3, <2>4, TotalOfRows
<1> QED BY <1>1, InitDayInv, DayInvStep, PTL DEF Spec

-----------------------------------------------------------------------------
(* The dashboard *)

\* The rows of a recent hour that no overlap spoiled count no event twice.
RowsAtMost ==
  \A h \in Hours, k \in Keys :
    Recent(h, now) /\ <<"hourly", h>> \notin excused =>
      Total(HourRows(rows, h, k)) <= Count(events, h, k)

LEMMA RowsAtMostStep == ASSUME HourInv, RowsAtMost, [Next]_vars PROVE RowsAtMost'
<1>0. /\ Basic /\ Basic' /\ now \in Clock /\ events \in EventTypes /\ events' \in EventTypes
      /\ rows \in RowTypes /\ rows' \in RowTypes /\ excused \subseteq excused'
  BY NextBasic, ExcusedGrows DEF HourInv, RowsInv, RunInv, Basic, Types
<1> SUFFICES ASSUME NEW h \in Hours, NEW k \in Keys, Recent(h, now'), <<"hourly", h>> \notin excused'
             PROVE  Total(HourRows(rows', h, k)) <= Count(events', h, k)
  BY DEF RowsAtMost
<1>1. Recent(h, now) /\ <<"hourly", h>> \notin excused /\ <<"hourly", h>> \in Buckets
  BY <1>0, RecentBefore, EventSteps DEF Buckets
<1>2. /\ Count(events, h, k) \in Nat /\ Count(events', h, k) \in Nat
      /\ HourRows(rows, h, k) \in Seq(Amounts) /\ Total(HourRows(rows, h, k)) \in Nat
  BY <1>0, CountFacts, HourlyFacts, TotalFacts DEF HourRows
<1>3. Total(HourRows(rows, h, k)) <= Count(events, h, k)
  BY <1>1 DEF RowsAtMost
<1>a. Total(<<>>) = 0
  <2>1. <<>> \in Seq(Amounts)
    OBVIOUS
  <2> QED BY <2>1, TotalFacts
<1>4. CASE DeleteNode
  <2>1. CASE k = "node"
    <3>1. HourRows(rows', h, k) = <<>>
      BY <1>0, <1>1, <1>4, <2>1, DeleteNodeRows DEF HourRows
    <3> QED BY <1>2, <1>a, <3>1
  <2>2. CASE k = "null"
    <3>1. HourRows(rows', h, k) = HourRows(rows, h, k)
      BY <1>0, <1>1, <1>4, <2>2, DeleteNodeRows DEF HourRows
    <3>2. Count(events', h, k) = Count(events, h, k) + Count(events, h, "node")
      BY <1>0, <1>4, <2>2, DeleteCounts
    <3>3. Count(events, h, "node") \in Nat
      BY <1>0, CountFacts DEF Keys
    <3> QED BY <1>2, <1>3, <3>1, <3>2, <3>3
  <2> QED BY <2>1, <2>2 DEF Keys
<1>5. ASSUME NEW r \in Runs, Commit(r) PROVE Total(HourRows(rows', h, k)) <= Count(events', h, k)
  <2>1. UNCHANGED events /\ run[r].stage = "looked" /\ run[r] \in RunTypes
    BY <1>0, <1>5 DEF Commit, Basic, Types
  <2>2. CASE HourRows(rows', h, k) = HourRows(rows, h, k)
    BY <1>3, <2>1, <2>2
  <2>3. CASE /\ InHour(run[r]) /\ h = run[r].hour - 1 /\ Bucket(r) = <<"hourly", h>>
             /\ run[r].got[k] > 0 /\ Count(events, h, k) > 0
             /\ HourRows(rows', h, k) = Written(HourRows(rows, h, k), run[r].found[k], run[r].got[k])
             /\ run[r].got[k] <= Count(events, h, k) /\ k \notin run[r].gone
    <3>1. BucketIn(run[r]) = <<"hourly", h>>
      BY <2>3 DEF Bucket, BucketIn
    <3>2. Found(run[r], rows)
      BY <1>1, <2>1, <3>1 DEF HourInv, RowsInv, LookedFresh, Fresh
    <3>3. run[r].found[k] = Len(HourRows(rows, h, k))
      BY <2>3, <3>1, <3>2 DEF Found, HourRows
    <3>4. run[r].found[k] \in 0 .. 1 /\ run[r].got[k] \in Amounts /\ run[r].got[k] \in Nat
      BY <2>1, <2>3 DEF RunTypes, Amounts
    <3>5. HourRows(rows', h, k) = <<run[r].got[k]>>
      <4>1. Written(HourRows(rows, h, k), run[r].found[k], run[r].got[k]) = <<run[r].got[k]>>
        BY <1>2, <3>3, <3>4, WrittenFacts
      <4> QED BY <2>3, <4>1
    <3> QED BY <2>1, <2>3, <3>4, <3>5, TotalOfOne
  <2> QED BY <1>5, <2>2, <2>3, CommitHour
<1>6. CASE RetainRollups
  <2>1. HourRows(rows', h, k) = HourRows(rows, h, k) \/ HourRows(rows', h, k) = <<>>
    BY <1>0, <1>1, <1>6, RetainRollupsFacts DEF Basic, HourRows
  <2>2. UNCHANGED events
    BY <1>6 DEF RetainRollups
  <2> QED BY <1>2, <1>3, <1>a, <2>1, <2>2
<1>7. CASE UNCHANGED rows
  <2>1. HourRows(rows', h, k) = HourRows(rows, h, k)
    BY <1>7 DEF HourRows
  <2>2. CASE StoreEvent
    <3>1. Count(events', h, k) >= Count(events, h, k)
      BY <1>0, <2>2, StoreCounts
    <3> QED BY <1>2, <1>3, <2>1, <3>1
  <2>3. CASE RetainEvents
    BY <1>0, <1>1, <1>3, <2>1, <2>3, RetainCounts
  <2>4. CASE UNCHANGED events
    BY <1>3, <2>1, <2>4
  <2> QED BY <1>4, <2>2, <2>3, <2>4, EventSteps
<1>8. DeleteNode \/ (\E r \in Runs : Commit(r)) \/ RetainRollups \/ UNCHANGED rows
  BY DEF Next, RunStep, Start, ReadDay, Lookup, Fail, StoreEvent, RetainEvents, RetentionFails, Tick, vars
<1> QED BY <1>4, <1>5, <1>6, <1>7, <1>8

HonestInv == HourInv /\ RowsAtMost

LEMMA HonestInvStep == ASSUME HonestInv, [Next]_vars PROVE HonestInv'
BY HourInvStep, RowsAtMostStep DEF HonestInv

LEMMA InitHonestInv == ASSUME Init PROVE HonestInv
<1>0. HourInv /\ events \in EventTypes
  BY InitHourInv DEF HourInv, RowsInv, RunInv, Basic, Types
<1>1. ASSUME NEW h \in Hours, NEW k \in Keys PROVE Total(HourRows(rows, h, k)) <= Count(events, h, k)
  <2>1. HourRows(rows, h, k) = <<>>
    BY DEF Init, HourRows, Buckets
  <2>2. <<>> \in Seq(Amounts)
    OBVIOUS
  <2>3. Total(HourRows(rows, h, k)) = 0
    BY <2>1, <2>2, TotalFacts
  <2>4. Count(events, h, k) \in Nat
    BY <1>0, CountFacts
  <2> QED BY <2>3, <2>4
<1> QED BY <1>0, <1>1 DEF HonestInv, RowsAtMost

\* The events of a set of hours, counted by ticks and by hours.
TicksIn(H) == {t \in Ticks : HourOf(t) \in H}
HourCounts(e, k) == [h \in Hours |-> Count(e, h, k)]

LEMMA HourCountFacts ==
  ASSUME NEW e \in EventTypes, NEW k \in Keys
  PROVE  /\ \A h \in Hours : HourCounts(e, k)[h] = Count(e, h, k) /\ HourCounts(e, k)[h] \in Nat
         /\ \A H : H \subseteq Hours => IsFiniteSet(H) /\ NatOn(HourCounts(e, k), H)
<1>1. \A h \in Hours : HourCounts(e, k)[h] = Count(e, h, k) /\ HourCounts(e, k)[h] \in Nat
  BY CountFacts DEF HourCounts
<1>2. IsFiniteSet(Hours)
  BY ClockFacts, FS_Interval DEF Hours
<1> QED BY <1>1, <1>2, FS_Subset DEF NatOn

LEMMA TicksInInsert ==
  ASSUME NEW s \in SUBSET Hours, NEW x \in Hours, x \notin s
  PROVE  /\ TicksIn(s \cup {x}) = (TicksIn(s) \cup {2 * x}) \cup {2 * x + 1}
         /\ 2 * x \notin TicksIn(s) /\ 2 * x + 1 \notin TicksIn(s) \cup {2 * x}
         /\ TicksIn(s) \subseteq Ticks
<1>1. x \in Nat /\ 2 * x \in Ticks /\ 2 * x + 1 \in Ticks /\ HourOf(2 * x) = x /\ HourOf(2 * x + 1) = x
  BY ClockFacts DEF HourOf
<1>2. \A t \in Ticks : HourOf(t) = x => t = 2 * x \/ t = 2 * x + 1
  <2> SUFFICES ASSUME NEW t \in Ticks, HourOf(t) = x PROVE t = 2 * x \/ t = 2 * x + 1
    OBVIOUS
  <2>1. t \in Nat
    BY ClockFacts DEF Ticks
  <2> QED BY <1>1, <2>1 DEF HourOf
<1>3. 2 * x # 2 * x + 1
  BY <1>1
<1> QED BY <1>1, <1>2, <1>3 DEF TicksIn

LEMMA TicksAndHours ==
  ASSUME NEW e \in EventTypes, NEW H \in SUBSET Hours
  PROVE  Sum(TicksOf(e), TicksIn(H)) = Sum(HourCounts(e, "node"), H) + Sum(HourCounts(e, "null"), H)
<1> DEFINE P == TicksOf(e)
           A == HourCounts(e, "node")
           B == HourCounts(e, "null")
           G == {s \in SUBSET H : Sum(P, TicksIn(s)) = Sum(A, s) + Sum(B, s)}
<1>0. "node" \in Keys /\ "null" \in Keys
  BY DEF Keys
<1>1. /\ \A t \in Ticks : P[t] = e[t]["node"] + e[t]["null"] /\ P[t] \in Nat
      /\ \A t \in Ticks : e[t]["node"] \in Nat /\ e[t]["null"] \in Nat
      /\ \A T : T \subseteq Ticks => IsFiniteSet(T) /\ NatOn(P, T)
  BY TickSums
<1>2. /\ \A h \in Hours : A[h] = Count(e, h, "node") /\ A[h] \in Nat
      /\ \A h \in Hours : B[h] = Count(e, h, "null") /\ B[h] \in Nat
      /\ \A S : S \subseteq Hours => IsFiniteSet(S) /\ NatOn(A, S) /\ NatOn(B, S)
  BY <1>0, HourCountFacts
<1> HIDE DEF P, A, B
<1>3. {} \in G
  <2>1. TicksIn({}) = {}
    BY DEF TicksIn
  <2> QED BY <2>1, SumEmpty
<1>4. ASSUME NEW s \in SUBSET H, NEW x \in H, s \in G, x \notin s PROVE s \cup {x} \in G
  <2> DEFINE T == TicksIn(s)
             U == T \cup {2 * x}
  <2>1. x \in Hours /\ s \in SUBSET Hours /\ 2 * x \in Ticks /\ 2 * x + 1 \in Ticks
    BY ClockFacts
  <2>2. TicksIn(s \cup {x}) = U \cup {2 * x + 1} /\ 2 * x \notin T /\ 2 * x + 1 \notin U /\ T \subseteq Ticks
    BY <1>4, <2>1, TicksInInsert
  <2>3. U \subseteq Ticks
    BY <2>1, <2>2
  <2> HIDE DEF T, U
  <2>4. Sum(P, U) = P[2 * x] + Sum(P, T) /\ Sum(P, T) \in Nat
    BY <1>1, <2>1, <2>2, SumInsert, SumInNat DEF U
  <2>5. Sum(P, U \cup {2 * x + 1}) = P[2 * x + 1] + Sum(P, U)
    BY <1>1, <2>1, <2>2, <2>3, SumInsert
  <2>6. Sum(A, s \cup {x}) = A[x] + Sum(A, s) /\ Sum(A, s) \in Nat
    BY <1>2, <1>4, <2>1, SumInsert, SumInNat
  <2>7. Sum(B, s \cup {x}) = B[x] + Sum(B, s) /\ Sum(B, s) \in Nat
    BY <1>2, <1>4, <2>1, SumInsert, SumInNat
  <2>8. P[2 * x] + P[2 * x + 1] = A[x] + B[x]
    BY <1>1, <1>2, <2>1 DEF Count
  <2>9. Sum(P, T) = Sum(A, s) + Sum(B, s)
    BY <1>4 DEF T
  <2>10. P[2 * x] \in Nat /\ P[2 * x + 1] \in Nat /\ A[x] \in Nat /\ B[x] \in Nat
    BY <1>1, <1>2, <2>1
  <2>11. Sum(P, TicksIn(s \cup {x})) = Sum(A, s \cup {x}) + Sum(B, s \cup {x})
    <3>1. Sum(P, TicksIn(s \cup {x})) = P[2 * x + 1] + (P[2 * x] + (Sum(A, s) + Sum(B, s)))
      BY <2>2, <2>4, <2>5, <2>9, Zenon
    <3>2. Sum(A, s \cup {x}) + Sum(B, s \cup {x}) = (A[x] + Sum(A, s)) + (B[x] + Sum(B, s))
      BY <2>6, <2>7, Zenon
    <3>3. P[2 * x + 1] + (P[2 * x] + (Sum(A, s) + Sum(B, s))) = (A[x] + Sum(A, s)) + (B[x] + Sum(B, s))
      BY <2>6, <2>7, <2>8, <2>10
    <3> QED BY <3>1, <3>2, <3>3, Zenon
  <2> QED BY <2>11
<1>5. IsFiniteSet(H)
  BY <1>2
<1> HIDE DEF G
<1>6. H \in G
  BY <1>3, <1>4, <1>5, SubsetInduction
<1> QED BY <1>6 DEF G, P, A, B

\* The events of a table at the ticks from a up to b.
RawOf(e, a, b) == Sum(TicksOf(e), a .. b - 1)

LEMMA RawIs ==
  ASSUME NEW a, NEW b
  PROVE  Raw(a, b) = RawOf(events, a, b) /\ Raw(a, b)' = RawOf(events', a', b')
BY StoredIs, StoredIsNext DEF Raw, RawOf, Sum

\* The window that ends at t is the raw edge before its first full hour, the full
\* hours, and the raw edge after them.
StartEdge(e, t, w) == RawOf(e, WindowStart(t, w), 2 * FullStart(t, w))
Middle(e, t, w) == RawOf(e, 2 * FullStart(t, w), 2 * HourOf(t))
CurrentEdge(e, t, w) == RawOf(e, 2 * HourOf(t), t)
Whole(e, t, w) == RawOf(e, WindowStart(t, w), t)

LEMMA WindowFacts ==
  ASSUME NEW t \in Clock, NEW w \in Widths
  PROVE  /\ WindowStart(t, w) \in Nat /\ FullStart(t, w) \in Nat /\ HourOf(t) \in Nat
         /\ WindowStart(t, w) <= 2 * FullStart(t, w) /\ 2 * FullStart(t, w) <= 2 * HourOf(t)
         /\ 2 * HourOf(t) <= t /\ t \in Nat /\ t <= MaxTick
         /\ FullHours(t, w) \subseteq Hours
<1> DEFINE s == WindowStart(t, w)
<1>1. t \in Nat /\ t >= StartTick /\ t <= MaxTick /\ w \in Nat /\ w >= 1 /\ w <= Window
  BY ClockFacts DEF Clock, Widths
<1>2. s = t - 2 * w /\ s \in Nat
  BY <1>1 DEF WindowStart
<1>3. FullStart(t, w) = (s \div 2) + (s % 2) /\ HourOf(t) = t \div 2
  BY DEF FullStart, HourOf
<1>4. s % 2 = t % 2 /\ s = 2 * (s \div 2) + (s % 2) /\ t = 2 * (t \div 2) + (t % 2)
      /\ s % 2 \in 0 .. 1 /\ s \div 2 \in Nat /\ t \div 2 \in Nat
  BY <1>1, <1>2
<1> HIDE DEF s
<1>5. /\ FullStart(t, w) \in Nat /\ HourOf(t) \in Nat
      /\ s <= 2 * FullStart(t, w) /\ 2 * FullStart(t, w) <= 2 * HourOf(t) /\ 2 * HourOf(t) <= t
  BY <1>1, <1>2, <1>3, <1>4
<1>6. HourOf(t) <= MaxHour /\ MaxHour \in Nat
  BY ClockFacts DEF RunHours
<1>7. FullHours(t, w) \subseteq Hours
  BY <1>5, <1>6 DEF FullHours, Hours
<1> QED BY <1>1, <1>2, <1>5, <1>7 DEF s

LEMMA WindowTicks ==
  ASSUME NEW t \in Clock, NEW w \in Widths
  PROVE  WindowStart(t, w) .. t - 1 \subseteq Ticks
<1>1. \A u \in WindowStart(t, w) .. t - 1 : u \in Nat /\ u <= MaxTick
  BY WindowFacts
<1>2. \A u \in Nat : u <= MaxTick => u \in Ticks
  BY ClockFacts DEF Ticks, MaxHour
<1> QED BY <1>1, <1>2

\* The events of a window, from the three parts.
LEMMA WindowSplit ==
  ASSUME NEW e \in EventTypes, NEW t \in Clock, NEW w \in Widths
  PROVE  /\ Whole(e, t, w) = (StartEdge(e, t, w) + Middle(e, t, w)) + CurrentEdge(e, t, w)
         /\ Middle(e, t, w) = Sum(HourCounts(e, "node"), FullHours(t, w))
                              + Sum(HourCounts(e, "null"), FullHours(t, w))
         /\ StartEdge(e, t, w) \in Nat /\ Middle(e, t, w) \in Nat /\ CurrentEdge(e, t, w) \in Nat
<1> DEFINE s == WindowStart(t, w)
           f == FullStart(t, w)
           c == HourOf(t)
           P == TicksOf(e)
           S == s .. 2 * f - 1
           M == 2 * f .. 2 * c - 1
           E == 2 * c .. t - 1
           H == FullHours(t, w)
<1>1. /\ s \in Nat /\ f \in Nat /\ c \in Nat /\ s <= 2 * f /\ 2 * f <= 2 * c /\ 2 * c <= t
      /\ H \subseteq Hours /\ t \in Nat
  BY WindowFacts
<1>2. \A T : T \subseteq Ticks => IsFiniteSet(T) /\ NatOn(P, T) /\ Sum(P, T) \in Nat
  BY TickSums, SumInNat
<1>3. /\ Whole(e, t, w) = Sum(P, s .. t - 1) /\ StartEdge(e, t, w) = Sum(P, S)
      /\ Middle(e, t, w) = Sum(P, M) /\ CurrentEdge(e, t, w) = Sum(P, E)
  BY DEF Whole, StartEdge, Middle, CurrentEdge, RawOf
<1>4. Sum(P, TicksIn(H)) = Sum(HourCounts(e, "node"), H) + Sum(HourCounts(e, "null"), H)
  BY <1>1, TicksAndHours
<1>5. H = f .. c - 1
  BY DEF FullHours
<1>6. s .. t - 1 \subseteq Ticks
  BY WindowTicks
<1> HIDE DEF s, f, c, P, H
<1>7. TicksIn(H) = M
  <2>1. M \subseteq s .. t - 1
    BY <1>1
  <2>2. ASSUME NEW u \in Ticks PROVE HourOf(u) \in f .. c - 1 <=> u \in M
    <3>1. u \in Nat
      BY ClockFacts DEF Ticks
    <3>2. u = 2 * (u \div 2) + (u % 2) /\ u % 2 \in 0 .. 1 /\ u \div 2 \in Nat
      BY <3>1
    <3> QED BY <1>1, <3>1, <3>2 DEF HourOf
  <2> QED BY <1>5, <1>6, <2>1, <2>2 DEF TicksIn
<1>8. /\ s .. t - 1 = (S \cup M) \cup E
      /\ S \cap M = {} /\ (S \cup M) \cap E = {}
      /\ S \subseteq s .. t - 1 /\ M \subseteq s .. t - 1 /\ E \subseteq s .. t - 1
      /\ S \cup M \subseteq s .. t - 1
  BY <1>1
<1> HIDE DEF S, M, E
<1>9. S \subseteq Ticks /\ M \subseteq Ticks /\ E \subseteq Ticks /\ S \cup M \subseteq Ticks
  BY <1>6, <1>8
<1>10. Sum(P, (S \cup M) \cup E) = Sum(P, S \cup M) + Sum(P, E)
  BY <1>2, <1>8, <1>9, SumUnion
<1>11. Sum(P, S \cup M) = Sum(P, S) + Sum(P, M)
  BY <1>2, <1>8, <1>9, SumUnion
<1>12. Whole(e, t, w) = (Sum(P, S) + Sum(P, M)) + Sum(P, E)
  BY <1>3, <1>8, <1>10, <1>11, Zenon
<1>13. Sum(P, S) \in Nat /\ Sum(P, M) \in Nat /\ Sum(P, E) \in Nat
  BY <1>2, <1>9
<1> QED BY <1>3, <1>4, <1>7, <1>12, <1>13, Zenon DEF H

\* The rows of the full hours against their events.
LEMMA RolledUpFacts ==
  ASSUME HonestInv, NEW k \in Keys, NEW H \in SUBSET Hours,
         \A h \in H : Recent(h, now) /\ <<"hourly", h>> \notin excused
  PROVE  /\ Sum(HourlyOf(rows, k), H) \in Nat /\ Sum(HourCounts(events, k), H) \in Nat
         /\ Sum(HourlyOf(rows, k), H) <= Sum(HourCounts(events, k), H)
         /\ H \subseteq clean => Sum(HourlyOf(rows, k), H) = Sum(HourCounts(events, k), H)
<1>0. rows \in RowTypes /\ events \in EventTypes
  BY DEF HonestInv, HourInv, RowsInv, RunInv, Basic, Types
<1> DEFINE F == HourlyOf(rows, k)
           C == HourCounts(events, k)
<1>1. IsFiniteSet(H) /\ NatOn(F, H) /\ NatOn(C, H)
  BY <1>0, HourlyFacts, HourCountFacts
<1>2. ASSUME NEW h \in H
      PROVE  F[h] = Total(HourRows(rows, h, k)) /\ C[h] = Count(events, h, k) /\ C[h] \in Nat
  BY <1>0, HourlyFacts, HourCountFacts DEF HourRows
<1>3. ASSUME NEW h \in H PROVE F[h] <= C[h]
  <2>1. Total(HourRows(rows, h, k)) <= Count(events, h, k)
    BY DEF HonestInv, RowsAtMost
  <2> QED BY <1>2, <2>1
<1>4. ASSUME NEW h \in H, h \in clean PROVE F[h] = C[h]
  <2>1. HourRows(rows, h, k) = RowsOf(Count(events, h, k))
    BY <1>4 DEF HonestInv, HourInv, CleanExact
  <2>2. Count(events, h, k) \in Nat
    BY <1>0, CountFacts
  <2>3. Total(HourRows(rows, h, k)) = Count(events, h, k)
    BY <2>1, <2>2, TotalOfRows
  <2> QED BY <1>2, <2>3
<1> HIDE DEF F, C
<1>5. Sum(F, H) \in Nat /\ Sum(C, H) \in Nat /\ Sum(F, H) <= Sum(C, H)
  BY <1>1, <1>3, SumInNat, SumMonotone
<1>6. H \subseteq clean => Sum(F, H) = Sum(C, H)
  BY <1>1, <1>4, SumCongruent
<1> QED BY <1>5, <1>6 DEF F, C


\* No overlap spoiled a full hour of the window, and retention at t does not
\* reach into it; then its parts only grow.
Unspoilt(at, w, X, t) ==
  /\ \A h \in FullHours(at, w) : <<"hourly", h>> \notin X
  /\ WindowStart(at, w) >= t - TicksPerDay * EventDays

LEMMA RawGrows ==
  ASSUME Basic, [Next]_vars, NEW a \in Nat, NEW b, a .. b - 1 \subseteq Ticks,
         a >= now - TicksPerDay * EventDays
  PROVE  RawOf(events, a, b) <= RawOf(events', a, b)
<1> DEFINE P == TicksOf(events)
           Q == TicksOf(events')
           T == a .. b - 1
<1>0. events \in EventTypes /\ events' \in EventTypes /\ now \in Nat
  BY NextBasic, ClockFacts DEF Basic, Types
<1>1. /\ \A t \in Ticks : P[t] = events[t]["node"] + events[t]["null"]
      /\ \A t \in Ticks : events[t]["node"] \in Nat /\ events[t]["null"] \in Nat
      /\ IsFiniteSet(T) /\ NatOn(P, T)
  BY <1>0, TickSums
<1>2. /\ \A t \in Ticks : Q[t] = events'[t]["node"] + events'[t]["null"]
      /\ \A t \in Ticks : events'[t]["node"] \in Nat /\ events'[t]["null"] \in Nat
      /\ NatOn(Q, T)
  BY <1>0, TickSums
<1> HIDE DEF P, Q
<1>3. ASSUME NEW t \in T PROVE P[t] <= Q[t]
  <2>0. t \in Ticks /\ t \in Int /\ t >= a
    OBVIOUS
  <2>1. CASE StoreEvent
    <3>1. PICK u \in Ticks :
            /\ events'[u]["node"] = events[u]["node"] + 1
            /\ events'[u]["null"] = events[u]["null"]
            /\ \A x \in Ticks : x # u => events'[x] = events[x]
      BY <2>1, StoreEventFacts
    <3>2. CASE t = u
      BY <1>1, <1>2, <2>0, <3>1, <3>2
    <3>3. CASE t # u
      <4>1. events'[t] = events[t]
        BY <2>0, <3>1, <3>3
      <4>2. P[t] = Q[t] /\ P[t] \in Nat
        BY <1>1, <1>2, <2>0, <4>1
      <4> QED BY <4>2
    <3> QED BY <3>2, <3>3
  <2>2. CASE DeleteNode
    <3>1. events'[t]["node"] = 0 /\ events'[t]["null"] = events[t]["null"] + events[t]["node"]
      BY <2>0, <2>2, DeleteNodeEvents
    <3> QED BY <1>1, <1>2, <2>0, <3>1
  <2>3. CASE RetainEvents
    <3>1. ~(t < Cutoff(EventDays))
      BY <1>0, <2>0, RetentionReach DEF Cutoff
    <3>2. events'[t] = events[t]
      BY <2>0, <2>3, <3>1 DEF RetainEvents
    <3> QED BY <1>1, <1>2, <2>0, <3>2
  <2>4. CASE UNCHANGED events
    BY <1>1, <1>2, <2>0, <2>4
  <2> QED BY <2>1, <2>2, <2>3, <2>4, EventSteps
<1> HIDE DEF T
<1>4. Sum(P, T) <= Sum(Q, T)
  BY <1>1, <1>2, <1>3, SumMonotone
<1> QED BY <1>4 DEF RawOf, P, Q, T

LEMMA PartsGrow ==
  ASSUME Basic, [Next]_vars, NEW at \in Clock, NEW w \in Widths, Unspoilt(at, w, excused', now')
  PROVE  /\ Unspoilt(at, w, excused, now)
         /\ StartEdge(events, at, w) <= StartEdge(events', at, w)
         /\ Middle(events, at, w) <= Middle(events', at, w)
         /\ CurrentEdge(events, at, w) <= CurrentEdge(events', at, w)
         /\ Whole(events, at, w) <= Whole(events', at, w)
<1> DEFINE s == WindowStart(at, w)
           f == 2 * FullStart(at, w)
           c == 2 * HourOf(at)
<1>1. /\ s \in Nat /\ f \in Nat /\ c \in Nat /\ at \in Nat /\ s <= f /\ f <= c /\ c <= at
      /\ s .. at - 1 \subseteq Ticks
  BY WindowFacts, WindowTicks
<1>2. now' >= now /\ now \in Nat /\ now' \in Nat /\ TicksPerDay * EventDays \in Nat
  <2>1. now \in Clock /\ now' \in Clock
    BY NextBasic DEF Basic, Types
  <2>2. now' = now \/ now' = now + 1
    BY EventSteps DEF Tick
  <2> QED BY <2>1, <2>2, ClockFacts, RetentionReach
<1>3. excused \subseteq excused'
  BY ExcusedGrows
<1>4. s >= now - TicksPerDay * EventDays
  BY <1>1, <1>2 DEF Unspoilt
<1>5. Unspoilt(at, w, excused, now)
  BY <1>3, <1>4 DEF Unspoilt
<1> HIDE DEF s, f, c
<1>6. /\ s .. f - 1 \subseteq Ticks /\ f .. c - 1 \subseteq Ticks /\ c .. at - 1 \subseteq Ticks
      /\ f >= now - TicksPerDay * EventDays /\ c >= now - TicksPerDay * EventDays
  <2>1. s .. f - 1 \subseteq s .. at - 1 /\ f .. c - 1 \subseteq s .. at - 1 /\ c .. at - 1 \subseteq s .. at - 1
    BY <1>1
  <2> QED BY <1>1, <1>2, <1>4, <2>1
<1>7. RawOf(events, s, f) <= RawOf(events', s, f)
  BY <1>1, <1>4, <1>6, RawGrows
<1>8. RawOf(events, f, c) <= RawOf(events', f, c)
  BY <1>1, <1>6, RawGrows
<1>9. RawOf(events, c, at) <= RawOf(events', c, at)
  BY <1>1, <1>6, RawGrows
<1>10. RawOf(events, s, at) <= RawOf(events', s, at)
  BY <1>1, <1>4, RawGrows
<1> QED BY <1>5, <1>7, <1>8, <1>9, <1>10 DEF StartEdge, Middle, CurrentEdge, Whole, s, f, c

\* What a request has added up lies between what is missing to its floor and the
\* events of the parts it has read.
ViewTypes ==
  [stage : {"off", "asked", "rolled", "edged", "shown"}, w : Widths \cup {0}, asked : Nat,
   at : Nat, total : Nat, floor : Nat]
EntryTypes == [live : BOOLEAN, at : Nat, total : Nat, floor : Nat]

Within(q, e) ==
  /\ q.stage = "rolled" => /\ q.total <= Middle(e, q.at, q.w)
                           /\ q.floor <= (StartEdge(e, q.at, q.w) + q.total) + CurrentEdge(e, q.at, q.w)
  /\ q.stage = "edged" => /\ q.total <= StartEdge(e, q.at, q.w) + Middle(e, q.at, q.w)
                          /\ q.floor <= q.total + CurrentEdge(e, q.at, q.w)
  /\ q.stage = "shown" => q.floor <= q.total /\ q.total <= Whole(e, q.at, q.w)

ViewOK(q, e, X, t) ==
  q.stage # "off" =>
    /\ q.w \in Widths /\ q.at \in Clock
    /\ IF q.stage = "shown" THEN HourOf(q.at) = HourOf(q.asked) ELSE q.asked = q.at
    /\ Unspoilt(q.at, q.w, X, t) => Within(q, e)

EntryOK(w, c, e, X, t) ==
  c.live =>
    /\ c.at \in Clock /\ HourOf(c.at) = HourOf(t)
    /\ Unspoilt(c.at, w, X, t) => c.floor <= c.total /\ c.total <= Whole(e, c.at, w)

DashTypes == view \in [Viewers -> ViewTypes] /\ cache \in [Widths -> EntryTypes]
ViewsOK == \A v \in Viewers : ViewOK(view[v], events, excused, now)
EntriesOK == \A w \in Widths : EntryOK(w, cache[w], events, excused, now)

DashInv == HonestInv /\ DashTypes /\ ViewsOK /\ EntriesOK

LEMMA HonestFacts ==
  ASSUME HonestInv
  PROVE  Basic /\ Types /\ events \in EventTypes /\ rows \in RowTypes /\ now \in Clock /\ now \in Nat
BY ClockFacts DEF HonestInv, HourInv, RowsInv, RunInv, Basic, Types

LEMMA ViewKept ==
  ASSUME HonestInv, [Next]_vars, NEW q \in ViewTypes, ViewOK(q, events, excused, now)
  PROVE  ViewOK(q, events', excused', now')
<1>a. Basic /\ Basic'
  BY HonestFacts, NextBasic
<1>0. Basic /\ events \in EventTypes /\ events' \in EventTypes
  BY <1>a DEF Basic, Types
<1> SUFFICES ASSUME q.stage # "off", Unspoilt(q.at, q.w, excused', now') PROVE Within(q, events')
  BY DEF ViewOK
<1>1. q.w \in Widths /\ q.at \in Clock /\ q.total \in Nat /\ q.floor \in Nat
  BY DEF ViewOK, ViewTypes
<1>2. /\ Unspoilt(q.at, q.w, excused, now)
      /\ StartEdge(events, q.at, q.w) <= StartEdge(events', q.at, q.w)
      /\ Middle(events, q.at, q.w) <= Middle(events', q.at, q.w)
      /\ CurrentEdge(events, q.at, q.w) <= CurrentEdge(events', q.at, q.w)
      /\ Whole(events, q.at, q.w) <= Whole(events', q.at, q.w)
  BY <1>0, <1>1, PartsGrow
<1>3. Within(q, events)
  BY <1>2 DEF ViewOK
<1>4. /\ StartEdge(events, q.at, q.w) \in Nat /\ Middle(events, q.at, q.w) \in Nat
      /\ CurrentEdge(events, q.at, q.w) \in Nat
      /\ Whole(events, q.at, q.w) = (StartEdge(events, q.at, q.w) + Middle(events, q.at, q.w))
                                    + CurrentEdge(events, q.at, q.w)
  BY <1>0, <1>1, WindowSplit
<1>5. /\ StartEdge(events', q.at, q.w) \in Nat /\ Middle(events', q.at, q.w) \in Nat
      /\ CurrentEdge(events', q.at, q.w) \in Nat
      /\ Whole(events', q.at, q.w) = (StartEdge(events', q.at, q.w) + Middle(events', q.at, q.w))
                                    + CurrentEdge(events', q.at, q.w)
  BY <1>0, <1>1, WindowSplit
<1> QED BY <1>1, <1>2, <1>3, <1>4, <1>5 DEF Within

LEMMA EntryKept ==
  ASSUME HonestInv, [Next]_vars, NEW w \in Widths, NEW c \in EntryTypes,
         EntryOK(w, c, events, excused, now), HourOf(c.at) = HourOf(now')
  PROVE  EntryOK(w, c, events', excused', now')
<1>a. Basic /\ Basic'
  BY HonestFacts, NextBasic
<1>0. Basic /\ events \in EventTypes /\ events' \in EventTypes
  BY <1>a DEF Basic, Types
<1> SUFFICES ASSUME c.live, Unspoilt(c.at, w, excused', now')
             PROVE  c.floor <= c.total /\ c.total <= Whole(events', c.at, w)
  BY DEF EntryOK
<1>1. c.at \in Clock /\ c.total \in Nat /\ c.floor \in Nat
  BY DEF EntryOK, EntryTypes
<1>2. Unspoilt(c.at, w, excused, now) /\ Whole(events, c.at, w) <= Whole(events', c.at, w)
  BY <1>0, <1>1, PartsGrow
<1>3. c.floor <= c.total /\ c.total <= Whole(events, c.at, w)
  BY <1>2 DEF EntryOK
<1>4. Whole(events, c.at, w) \in Nat /\ Whole(events', c.at, w) \in Nat
  BY <1>0, <1>1, WindowSplit
<1> QED BY <1>1, <1>2, <1>3, <1>4

\* The steps of a request.
LEMMA AskStep ==
  ASSUME DashInv, NEW v \in Viewers, NEW w \in Widths, Ask(v, w)
  PROVE  DashTypes' /\ ViewsOK' /\ EntriesOK'
<1>0. now \in Clock /\ now \in Nat
  BY HonestFacts DEF DashInv
<1>1. UNCHANGED <<now, events, excused>>
  BY DEF Ask, vars
<1> DEFINE q == [stage |-> "asked", w |-> w, asked |-> now, at |-> now, total |-> 0, floor |-> 0]
<1>2. view' = [view EXCEPT ![v] = q] /\ cache' = [cache EXCEPT ![w] = NoEntry]
  BY DEF Ask
<1>3. q \in ViewTypes /\ NoEntry \in EntryTypes
  BY <1>0 DEF ViewTypes, EntryTypes, NoEntry
<1>4. ViewOK(q, events, excused, now)
  BY <1>0 DEF ViewOK, Within
<1>5. EntryOK(w, NoEntry, events, excused, now)
  BY DEF EntryOK, NoEntry
<1> HIDE DEF q
<1>6. DashTypes'
  BY <1>2, <1>3 DEF DashInv, DashTypes
<1>7. ViewsOK'
  BY <1>1, <1>2, <1>4 DEF DashInv, DashTypes, ViewsOK
<1>8. EntriesOK'
  BY <1>1, <1>2, <1>5 DEF DashInv, DashTypes, EntriesOK
<1> QED BY <1>6, <1>7, <1>8

LEMMA AskCachedStep ==
  ASSUME DashInv, NEW v \in Viewers, NEW w \in Widths, AskCached(v, w)
  PROVE  DashTypes' /\ ViewsOK' /\ EntriesOK'
<1>0. now \in Clock /\ now \in Nat
  BY HonestFacts DEF DashInv
<1>1. UNCHANGED <<now, events, excused>> /\ cache' = cache /\ cache[w].live
  BY DEF AskCached, vars
<1>2. cache[w] \in EntryTypes /\ EntryOK(w, cache[w], events, excused, now)
  BY DEF DashInv, DashTypes, EntriesOK
<1> DEFINE q == [stage |-> "shown", w |-> w, asked |-> now, at |-> cache[w].at,
                 total |-> cache[w].total, floor |-> cache[w].floor]
<1>3. view' = [view EXCEPT ![v] = q]
  BY DEF AskCached
<1>4. q \in ViewTypes
  BY <1>0, <1>2 DEF ViewTypes, EntryTypes
<1>5. ViewOK(q, events, excused, now)
  BY <1>1, <1>2 DEF ViewOK, EntryOK, Within
<1> HIDE DEF q
<1>6. DashTypes'
  BY <1>1, <1>3, <1>4 DEF DashInv, DashTypes
<1>7. ViewsOK'
  BY <1>1, <1>3, <1>5 DEF DashInv, DashTypes, ViewsOK
<1>8. EntriesOK'
  BY <1>1 DEF DashInv, EntriesOK
<1> QED BY <1>6, <1>7, <1>8

LEMMA ReadRollupsStep ==
  ASSUME DashInv, NEW v \in Viewers, ReadRollups(v)
  PROVE  DashTypes' /\ ViewsOK' /\ EntriesOK'
<1>0. now \in Clock /\ now \in Nat /\ events \in EventTypes /\ rows \in RowTypes
  BY HonestFacts DEF DashInv
<1>1. UNCHANGED <<now, events, excused>> /\ cache' = cache /\ view[v].stage = "asked"
  BY DEF ReadRollups, vars
<1> DEFINE t == view[v].at
           w == view[v].w
           H == FullHours(t, w)
           total == RolledUp(H)
           floor == IF H \subseteq clean THEN Raw(WindowStart(t, w), t) ELSE 0
           q == [view[v] EXCEPT !.stage = "rolled", !.total = total, !.floor = floor]
<1>2. view[v] \in ViewTypes /\ view[v].asked = t /\ t \in Clock /\ w \in Widths
  BY <1>1 DEF DashInv, DashTypes, ViewsOK, ViewOK
<1>3. view' = [view EXCEPT ![v] = q]
  BY <1>2 DEF ReadRollups
<1>4. floor = IF H \subseteq clean THEN Whole(events, t, w) ELSE 0
  BY RawIs DEF Whole
<1>5. /\ Whole(events, t, w) = (StartEdge(events, t, w) + Middle(events, t, w)) + CurrentEdge(events, t, w)
      /\ Middle(events, t, w) = Sum(HourCounts(events, "node"), H) + Sum(HourCounts(events, "null"), H)
      /\ StartEdge(events, t, w) \in Nat /\ Middle(events, t, w) \in Nat /\ CurrentEdge(events, t, w) \in Nat
  BY <1>0, <1>2, WindowSplit
<1>6. H \in SUBSET Hours
  BY <1>2, WindowFacts
<1>7. total = Sum(HourlyOf(rows, "node"), H) + Sum(HourlyOf(rows, "null"), H)
  BY DEF RolledUp, Sum, Hourly, HourlyOf
<1>8. total \in Nat
  <2>1. \A k \in Keys : IsFiniteSet(H) /\ NatOn(HourlyOf(rows, k), H)
    BY <1>0, <1>6, HourlyFacts
  <2>2. \A k \in Keys : Sum(HourlyOf(rows, k), H) \in Nat
    BY <2>1, SumInNat
  <2>3. "node" \in Keys /\ "null" \in Keys
    BY DEF Keys
  <2> HIDE DEF H, total
  <2>4. Sum(HourlyOf(rows, "node"), H) \in Nat /\ Sum(HourlyOf(rows, "null"), H) \in Nat
    BY <2>2, <2>3
  <2> QED BY <1>7, <2>4
<1>9. ASSUME Unspoilt(t, w, excused, now)
      PROVE  total <= Middle(events, t, w) /\ (H \subseteq clean => total = Middle(events, t, w))
  <2>1. ASSUME NEW h \in H PROVE Recent(h, now) /\ <<"hourly", h>> \notin excused
    <3>1. h \in Int /\ h >= FullStart(t, w) /\ FullStart(t, w) \in Nat /\ WindowStart(t, w) \in Nat
          /\ WindowStart(t, w) <= 2 * FullStart(t, w)
      BY <1>2, WindowFacts DEF FullHours
    <3>2. WindowStart(t, w) >= now - TicksPerDay * EventDays /\ <<"hourly", h>> \notin excused
      BY <1>9 DEF Unspoilt
    <3> HIDE DEF t, w, H
    <3> QED BY <1>0, <3>1, <3>2, RetentionReach DEF Recent
  <2>2. ASSUME NEW k \in Keys
        PROVE  /\ Sum(HourlyOf(rows, k), H) \in Nat /\ Sum(HourCounts(events, k), H) \in Nat
               /\ Sum(HourlyOf(rows, k), H) <= Sum(HourCounts(events, k), H)
               /\ H \subseteq clean => Sum(HourlyOf(rows, k), H) = Sum(HourCounts(events, k), H)
    <3> HIDE DEF H
    <3> QED BY <1>6, <2>1, RolledUpFacts DEF DashInv
  <2>3. "node" \in Keys /\ "null" \in Keys
    BY DEF Keys
  <2> HIDE DEF total, H, t, w
  <2> QED BY <1>5, <1>7, <2>2, <2>3
<1>10. floor \in Nat
  <2> HIDE DEF floor, t, w, H
  <2> QED BY <1>4, <1>5
<1> HIDE DEF total, floor
<1>11. /\ q \in ViewTypes /\ q.stage = "rolled" /\ q.w = w /\ q.at = t /\ q.asked = view[v].asked
       /\ q.total = total /\ q.floor = floor
  BY <1>2, <1>8, <1>10 DEF ViewTypes
<1>12. ViewOK(q, events, excused, now)
  <2>1. ASSUME Unspoilt(t, w, excused, now)
        PROVE  /\ total <= Middle(events, t, w)
               /\ floor <= (StartEdge(events, t, w) + total) + CurrentEdge(events, t, w)
    <3> HIDE DEF t, w, H
    <3> QED BY <1>4, <1>5, <1>8, <1>9, <2>1
  <2> HIDE DEF q
  <2>2. Unspoilt(q.at, q.w, excused, now) => Within(q, events)
    BY <1>11, <2>1 DEF Within
  <2> QED BY <1>2, <1>11, <2>2 DEF ViewOK
<1> HIDE DEF q
<1>13. DashTypes'
  BY <1>1, <1>3, <1>11 DEF DashInv, DashTypes
<1>14. ViewsOK'
  BY <1>1, <1>3, <1>12 DEF DashInv, DashTypes, ViewsOK
<1>15. EntriesOK'
  BY <1>1 DEF DashInv, EntriesOK
<1> QED BY <1>13, <1>14, <1>15

LEMMA ReadStartEdgeStep ==
  ASSUME DashInv, NEW v \in Viewers, ReadStartEdge(v)
  PROVE  DashTypes' /\ ViewsOK' /\ EntriesOK'
<1>0. now \in Clock /\ now \in Nat /\ events \in EventTypes
  BY HonestFacts DEF DashInv
<1>1. UNCHANGED <<now, events, excused>> /\ cache' = cache /\ view[v].stage = "rolled"
  BY DEF ReadStartEdge, vars
<1> DEFINE p == view[v]
           t == p.at
           w == p.w
           total == p.total + Raw(WindowStart(t, w), 2 * FullStart(t, w))
           q == [p EXCEPT !.stage = "edged", !.total = total]
<1>2. /\ p \in ViewTypes /\ p.asked = t /\ t \in Clock /\ w \in Widths
      /\ Unspoilt(t, w, excused, now) => Within(p, events)
  BY <1>1 DEF DashInv, DashTypes, ViewsOK, ViewOK
<1>3. view' = [view EXCEPT ![v] = q]
  BY <1>2 DEF ReadStartEdge
<1>4. total = p.total + StartEdge(events, t, w)
  BY RawIs DEF StartEdge
<1>5. /\ StartEdge(events, t, w) \in Nat /\ Middle(events, t, w) \in Nat /\ CurrentEdge(events, t, w) \in Nat
      /\ p.total \in Nat /\ p.floor \in Nat
  BY <1>0, <1>2, WindowSplit DEF ViewTypes
<1> HIDE DEF total
<1>6. total \in Nat
  BY <1>4, <1>5
<1>7. /\ q \in ViewTypes /\ q.stage = "edged" /\ q.w = w /\ q.at = t /\ q.asked = p.asked
      /\ q.total = total /\ q.floor = p.floor
  BY <1>2, <1>6 DEF ViewTypes
<1>8. ASSUME Unspoilt(t, w, excused, now)
      PROVE  /\ total <= StartEdge(events, t, w) + Middle(events, t, w)
             /\ p.floor <= total + CurrentEdge(events, t, w)
  <2>1. /\ p.total <= Middle(events, t, w)
        /\ p.floor <= (StartEdge(events, t, w) + p.total) + CurrentEdge(events, t, w)
    BY <1>1, <1>2, <1>8 DEF Within
  <2> QED BY <1>4, <1>5, <2>1
<1> HIDE DEF q
<1>9. ViewOK(q, events, excused, now)
  <2>1. Unspoilt(q.at, q.w, excused, now) => Within(q, events)
    BY <1>7, <1>8 DEF Within
  <2> QED BY <1>2, <1>7, <2>1 DEF ViewOK
<1>10. DashTypes'
  BY <1>1, <1>3, <1>7 DEF DashInv, DashTypes
<1>11. ViewsOK'
  BY <1>1, <1>3, <1>9 DEF DashInv, DashTypes, ViewsOK
<1>12. EntriesOK'
  BY <1>1 DEF DashInv, EntriesOK
<1> QED BY <1>10, <1>11, <1>12

LEMMA ReadCurrentEdgeStep ==
  ASSUME DashInv, NEW v \in Viewers, ReadCurrentEdge(v)
  PROVE  DashTypes' /\ ViewsOK' /\ EntriesOK'
<1>0. now \in Clock /\ now \in Nat /\ events \in EventTypes
  BY HonestFacts DEF DashInv
<1>1. UNCHANGED <<now, events, excused>> /\ view[v].stage = "edged"
  BY DEF ReadCurrentEdge, vars
<1> DEFINE p == view[v]
           t == p.at
           w == p.w
           total == p.total + Raw(2 * HourOf(t), t)
           q == [p EXCEPT !.stage = "shown", !.total = total]
           c == [live |-> TRUE, at |-> t, total |-> total, floor |-> p.floor]
<1>2. /\ p \in ViewTypes /\ p.asked = t /\ t \in Clock /\ w \in Widths
      /\ Unspoilt(t, w, excused, now) => Within(p, events)
  BY <1>1 DEF DashInv, DashTypes, ViewsOK, ViewOK
<1>3. /\ view' = [view EXCEPT ![v] = q]
      /\ cache' = IF HourOf(t) = HourOf(now) THEN [cache EXCEPT ![w] = c] ELSE cache
  BY <1>2 DEF ReadCurrentEdge
<1>4. total = p.total + CurrentEdge(events, t, w)
  BY RawIs DEF CurrentEdge
<1>5. /\ StartEdge(events, t, w) \in Nat /\ Middle(events, t, w) \in Nat /\ CurrentEdge(events, t, w) \in Nat
      /\ Whole(events, t, w) = (StartEdge(events, t, w) + Middle(events, t, w)) + CurrentEdge(events, t, w)
      /\ p.total \in Nat /\ p.floor \in Nat /\ t \in Nat
  BY <1>0, <1>2, WindowSplit DEF ViewTypes
<1> HIDE DEF total
<1>6. total \in Nat
  BY <1>4, <1>5
<1>7. /\ q \in ViewTypes /\ q.stage = "shown" /\ q.w = w /\ q.at = t /\ q.asked = p.asked
      /\ q.total = total /\ q.floor = p.floor
  BY <1>2, <1>6 DEF ViewTypes
<1>8. ASSUME Unspoilt(t, w, excused, now)
      PROVE  p.floor <= total /\ total <= Whole(events, t, w)
  <2>1. /\ p.total <= StartEdge(events, t, w) + Middle(events, t, w)
        /\ p.floor <= p.total + CurrentEdge(events, t, w)
    BY <1>1, <1>2, <1>8 DEF Within
  <2> QED BY <1>4, <1>5, <2>1
<1> HIDE DEF q
<1>9. ViewOK(q, events, excused, now)
  <2>1. Unspoilt(q.at, q.w, excused, now) => Within(q, events)
    BY <1>7, <1>8 DEF Within
  <2> QED BY <1>2, <1>7, <2>1 DEF ViewOK
<1>10. c \in EntryTypes /\ (HourOf(t) = HourOf(now) => EntryOK(w, c, events, excused, now))
  BY <1>2, <1>5, <1>6, <1>8 DEF EntryOK, EntryTypes
<1> HIDE DEF c
<1>11. DashTypes'
  BY <1>2, <1>3, <1>7, <1>10 DEF DashInv, DashTypes
<1>12. ViewsOK'
  BY <1>1, <1>3, <1>9 DEF DashInv, DashTypes, ViewsOK
<1>13. EntriesOK'
  BY <1>1, <1>2, <1>3, <1>10 DEF DashInv, DashTypes, EntriesOK
<1> QED BY <1>11, <1>12, <1>13

LEMMA NoViewOK ==
  ASSUME NEW e, NEW X, NEW t
  PROVE  NoView \in ViewTypes /\ ViewOK(NoView, e, X, t)
BY DEF NoView, ViewTypes, ViewOK

LEMMA RequestFailsStep ==
  ASSUME DashInv, NEW v \in Viewers, RequestFails(v)
  PROVE  DashTypes' /\ ViewsOK' /\ EntriesOK'
<1>1. UNCHANGED <<now, events, excused>> /\ cache' = cache /\ view' = [view EXCEPT ![v] = NoView]
  BY DEF RequestFails, vars
<1>2. DashTypes'
  BY <1>1, NoViewOK DEF DashInv, DashTypes
<1>3. ViewsOK'
  BY <1>1, NoViewOK DEF DashInv, DashTypes, ViewsOK
<1>4. EntriesOK'
  BY <1>1 DEF DashInv, EntriesOK
<1> QED BY <1>2, <1>3, <1>4

\* The steps of the rollups and of the clock, seen from a request.
LEMMA BesideStep ==
  ASSUME DashInv, [Next]_vars, UNCHANGED <<now, dash>>
  PROVE  DashTypes' /\ ViewsOK' /\ EntriesOK'
<1>1. view' = view /\ cache' = cache /\ now' = now
  BY DEF dash
<1>2. DashTypes'
  BY <1>1 DEF DashInv, DashTypes
<1>3. ASSUME NEW v \in Viewers PROVE ViewOK(view[v], events', excused', now')
  BY ViewKept DEF DashInv, DashTypes, ViewsOK
<1>4. ASSUME NEW w \in Widths PROVE EntryOK(w, cache[w], events', excused', now')
  <2>1. cache[w] \in EntryTypes /\ EntryOK(w, cache[w], events, excused, now) /\ HonestInv
    BY DEF DashInv, DashTypes, EntriesOK
  <2>2. CASE cache[w].live
    <3>1. HourOf(cache[w].at) = HourOf(now')
      BY <1>1, <2>1, <2>2 DEF EntryOK
    <3> QED BY <2>1, <3>1, EntryKept
  <2>3. CASE ~cache[w].live
    BY <2>3 DEF EntryOK
  <2> QED BY <2>2, <2>3
<1> QED BY <1>1, <1>2, <1>3, <1>4 DEF ViewsOK, EntriesOK

LEMMA DashTickStep ==
  ASSUME DashInv, DashTick
  PROVE  DashTypes' /\ ViewsOK' /\ EntriesOK'
<1>0. Tick /\ [Next]_vars /\ now' = now + 1
  BY DEF DashTick, Tick, Next
<1>1. /\ view' = [v \in Viewers |-> IF Idle(v) THEN NoView ELSE view[v]]
      /\ cache' = [w \in Widths |-> IF StillKeyed(cache[w]) THEN cache[w] ELSE NoEntry]
  BY DEF DashTick
<1>2. NoEntry \in EntryTypes /\ \A w : EntryOK(w, NoEntry, events', excused', now')
  BY DEF NoEntry, EntryTypes, EntryOK
<1>3. DashTypes'
  BY <1>1, <1>2, NoViewOK DEF DashInv, DashTypes
<1>4. ASSUME NEW v \in Viewers PROVE ViewOK(view'[v], events', excused', now')
  <2>1. ViewOK(view[v], events', excused', now')
    BY <1>0, ViewKept DEF DashInv, DashTypes, ViewsOK
  <2>2. view'[v] = view[v] \/ view'[v] = NoView
    BY <1>1
  <2> QED BY <2>1, <2>2, NoViewOK
<1>5. ASSUME NEW w \in Widths PROVE EntryOK(w, cache'[w], events', excused', now')
  <2>1. cache[w] \in EntryTypes /\ EntryOK(w, cache[w], events, excused, now) /\ HonestInv
    BY DEF DashInv, DashTypes, EntriesOK
  <2>2. CASE StillKeyed(cache[w])
    <3>1. HourOf(cache[w].at) = HourOf(now')
      BY <1>0, <2>2 DEF StillKeyed
    <3>2. EntryOK(w, cache[w], events', excused', now')
      BY <1>0, <2>1, <3>1, EntryKept
    <3> QED BY <1>1, <2>2, <3>2
  <2>3. CASE ~StillKeyed(cache[w])
    BY <1>1, <1>2, <2>3
  <2> QED BY <2>2, <2>3
<1> QED BY <1>3, <1>4, <1>5 DEF ViewsOK, EntriesOK

\* What the dashboard does leaves the tables alone.
LEMMA DashNextCases ==
  ASSUME [DashNext]_<<vars, dash>>
  PROVE  /\ [Next]_vars
         /\ \/ UNCHANGED <<now, dash>>
            \/ DashTick
            \/ \E v \in Viewers, w \in Widths : Ask(v, w) \/ AskCached(v, w)
            \/ \E v \in Viewers : \/ ReadRollups(v) \/ ReadStartEdge(v)
                                  \/ ReadCurrentEdge(v) \/ RequestFails(v)
<1>1. CASE UNCHANGED <<vars, dash>>
  BY <1>1 DEF vars
<1>2. CASE \E r \in Runs : Start(r) /\ UNCHANGED dash
  BY <1>2 DEF Next, Start
<1>3. CASE \E r \in Runs : RunStep(r) /\ UNCHANGED dash
  <2>1. PICK r \in Runs : RunStep(r) /\ UNCHANGED dash
    BY <1>3
  <2>2. UNCHANGED now
    BY <2>1 DEF RunStep, ReadDay, Lookup, Commit, Fail
  <2> QED BY <2>1, <2>2 DEF Next
<1>4. CASE (StoreEvent \/ DeleteNode \/ RetainEvents \/ RetainRollups \/ RetentionFails) /\ UNCHANGED dash
  BY <1>4 DEF Next, StoreEvent, DeleteNode, RetainEvents, RetainRollups, RetentionFails
<1>5. CASE DashTick
  BY <1>5 DEF DashTick, Next
<1>6. CASE \E v \in Viewers, w \in Widths : Ask(v, w) \/ AskCached(v, w)
  <2>1. UNCHANGED vars
    BY <1>6 DEF Ask, AskCached
  <2> QED BY <1>6, <2>1, Zenon
<1>7. CASE \E v \in Viewers : ReadRollups(v) \/ ReadStartEdge(v) \/ ReadCurrentEdge(v) \/ RequestFails(v)
  <2>1. UNCHANGED vars
    BY <1>7, Zenon DEF ReadRollups, ReadStartEdge, ReadCurrentEdge, RequestFails
  <2> QED BY <1>7, <2>1, Zenon
<1> QED BY <1>1, <1>2, <1>3, <1>4, <1>5, <1>6, <1>7 DEF DashNext

LEMMA DashInvStep == ASSUME DashInv, [DashNext]_<<vars, dash>> PROVE DashInv'
<1>1. [Next]_vars /\ HonestInv'
  BY DashNextCases, HonestInvStep DEF DashInv
<1>2. DashTypes' /\ ViewsOK' /\ EntriesOK'
  BY <1>1, DashNextCases, BesideStep, DashTickStep, AskStep, AskCachedStep, ReadRollupsStep,
     ReadStartEdgeStep, ReadCurrentEdgeStep, RequestFailsStep
<1> QED BY <1>1, <1>2 DEF DashInv

LEMMA InitDashInv == ASSUME DashInit PROVE DashInv
<1>1. HonestInv
  BY InitHonestInv DEF DashInit
<1>2. view = [v \in Viewers |-> NoView] /\ cache = [w \in Widths |-> NoEntry]
  BY DEF DashInit
<1>3. NoEntry \in EntryTypes /\ \A w : EntryOK(w, NoEntry, events, excused, now)
  BY DEF NoEntry, EntryTypes, EntryOK
<1> QED BY <1>1, <1>2, <1>3, NoViewOK DEF DashInv, DashTypes, ViewsOK, EntriesOK

LEMMA Honest == ASSUME DashInv PROVE StatsHonest
<1> SUFFICES ASSUME NEW v \in Viewers, view[v].stage = "shown"
             PROVE  /\ HourOf(view[v].at) = HourOf(view[v].asked)
                    /\ Sound(view[v]) =>
                         /\ view[v].floor <= view[v].total
                         /\ view[v].total <= Raw(WindowStart(view[v].at, view[v].w), view[v].at)
  BY DEF StatsHonest
<1>1. ViewOK(view[v], events, excused, now)
  BY DEF DashInv, ViewsOK
<1>2. Sound(view[v]) => Unspoilt(view[v].at, view[v].w, excused, now)
  BY DEF Sound, Unspoilt, Cutoff
<1>3. Raw(WindowStart(view[v].at, view[v].w), view[v].at) = Whole(events, view[v].at, view[v].w)
  BY RawIs DEF Whole
<1> QED BY <1>1, <1>2, <1>3 DEF ViewOK, Within

\* The rollups under the dashboard's eyes are the rollups of the other theorems.
THEOREM DashboardReads == DashSpec => Spec
<1>1. DashInit => Init
  BY DEF DashInit
<1>2. [DashNext]_<<vars, dash>> => [Next]_vars
  BY DashNextCases
<1> QED BY <1>1, <1>2, PTL DEF DashSpec, Spec

\* For every window, any number of requests at a time, and whatever the runs,
\* ingest and retention commit between the SELECTs of one: an answer, fresh or
\* from the cache, is for the hour it was asked in, counts no event twice and, if
\* the full hours were rolled up when it read their rows, misses no event of the
\* window that was stored by then.
THEOREM DashboardHonest == DashSpec => []StatsHonest
BY InitDashInv, DashInvStep, Honest, PTL DEF DashSpec
=============================================================================
