----------------------------- MODULE TotalsProofs -----------------------------
(***************************************************************************)
(* What the proofs need of SumOf: a sum does not depend on the order in    *)
(* which it is taken, so one term more, less or changed is a difference.   *)
(***************************************************************************)
EXTENDS Totals, FiniteSetTheorems, WellFoundedInduction, TLAPS

------------------------------------------------------------------------------
\* A property that a set has if all its proper subsets have it, all subsets of a finite
\* set have: a least subset without it could not be.
LEMMA SubsetInduction ==
  ASSUME NEW S, IsFiniteSet(S), NEW G,
         \A T \in SUBSET S : (\A U \in SUBSET T : U # T => U \in G) => T \in G
  PROVE  \A T \in SUBSET S : T \in G
<1> DEFINE Bad == {T \in SUBSET S : T \notin G}
           R   == StrictSubsetOrdering(S)
<1>1. SUFFICES ASSUME Bad # {} PROVE FALSE
  OBVIOUS
<1>2. IsWellFoundedOn(R, SUBSET S)
  BY FS_StrictSubsetOrderingWellFounded, FS_FiniteSubsetsOfFinite
<1>3. PICK T \in Bad : \A U \in Bad : <<U, T>> \notin R
  <2>1. Bad \subseteq SUBSET S
    OBVIOUS
  <2> HIDE DEF Bad, R
  <2> QED BY <1>1, <1>2, <2>1, WFMin
<1>4. ASSUME NEW U \in SUBSET T, U # T
      PROVE  U \in G
  <2>1. U \in SUBSET S /\ <<U, T>> \in R
    BY <1>4 DEF StrictSubsetOrdering
  <2> QED BY <1>3, <2>1
<1> QED BY <1>3, <1>4

------------------------------------------------------------------------------
\* A function that adds up f over the subsets of S, in whatever order.

Adds(g, f, S) ==
  /\ g \in [SUBSET S -> Int]
  /\ g[{}] = 0
  /\ \A T \in SUBSET S : \A x \in T : g[T] = f[x] + g[T \ {x}]

LEMMA AddsOneMore ==
  ASSUME NEW T, NEW y \in T, NEW f, \A x \in T : f[x] \in Int, NEW g, Adds(g, f, T \ {y})
  PROVE  \E h : Adds(h, f, T)
<1> DEFINE h == [U \in SUBSET T |-> IF y \in U THEN f[y] + g[U \ {y}] ELSE g[U]]
<1>1. \A U \in SUBSET T : U \ {y} \in SUBSET (T \ {y}) /\ (y \notin U => U \in SUBSET (T \ {y}))
  OBVIOUS
<1>2. h \in [SUBSET T -> Int]
  BY <1>1 DEF Adds
<1>3. h[{}] = 0
  BY DEF Adds
<1>4. ASSUME NEW U \in SUBSET T, NEW x \in U
      PROVE  h[U] = f[x] + h[U \ {x}]
  <2>1. CASE x = y
    <3>1. U \ {x} \in SUBSET T /\ y \notin U \ {x}
      BY <2>1
    <3> QED BY <2>1, <3>1
  <2>2. CASE x # y /\ y \notin U
    <3>1. g[U] = f[x] + g[U \ {x}]
      BY <1>1, <2>2 DEF Adds
    <3>2. U \ {x} \in SUBSET T
      OBVIOUS
    <3> QED BY <2>2, <3>1, <3>2
  <2>3. CASE x # y /\ y \in U
    <3> DEFINE V == U \ {y}
               W == U \ {x}
    <3>1. V \in SUBSET (T \ {y}) /\ x \in V /\ V \ {x} = W \ {y} /\ y \in W
      BY <2>3
    <3>2. g[V] = f[x] + g[V \ {x}]
      BY <3>1 DEF Adds
    <3>3. W \in SUBSET T /\ V \ {x} \in SUBSET (T \ {y})
      BY <3>1
    <3>4. h[U] = f[y] + g[V] /\ h[W] = f[y] + g[W \ {y}]
      BY <2>3, <3>1, <3>3
    <3>5. f[x] \in Int /\ f[y] \in Int /\ g[V \ {x}] \in Int
      BY <3>3 DEF Adds
    <3> HIDE DEF V, W, h
    <3>a. V \ {x} = W \ {y}
      BY <3>1
    <3>b. h[U] = f[y] + (f[x] + g[W \ {y}]) /\ h[W] = f[y] + g[W \ {y}] /\ g[W \ {y}] \in Int
      BY <3>2, <3>4, <3>5, <3>a
    <3>6. h[U] = f[x] + h[W]
      BY <3>5, <3>b
    <3> QED BY <3>6 DEF W
  <2> QED BY <2>1, <2>2, <2>3
<1> HIDE DEF h
<1>5. Adds(h, f, T)
  BY <1>2, <1>3, <1>4 DEF Adds
<1> QED BY <1>5

LEMMA AddsExists ==
  ASSUME NEW S, IsFiniteSet(S), NEW f, \A x \in S : f[x] \in Int
  PROVE  \E g : Adds(g, f, S)
<1> DEFINE G == {T \in SUBSET S : \E g : Adds(g, f, T)}
<1>1. ASSUME NEW T \in SUBSET S, \A U \in SUBSET T : U # T => U \in G
      PROVE  T \in G
  <2>1. CASE T = {}
    <3> DEFINE g == [U \in SUBSET {} |-> 0]
    <3>1. g \in [SUBSET {} -> Int] /\ g[{}] = 0
      OBVIOUS
    <3> HIDE DEF g
    <3>2. Adds(g, f, {})
      BY <3>1 DEF Adds
    <3> QED BY <2>1, <3>2
  <2>2. CASE T # {}
    <3>1. PICK y \in T : TRUE
      BY <2>2
    <3>2. T \ {y} \in G
      BY <1>1
    <3>3. PICK g : Adds(g, f, T \ {y})
      BY <3>2
    <3>4. \A x \in T : f[x] \in Int
      OBVIOUS
    <3> HIDE DEF G
    <3>5. \E h : Adds(h, f, T)
      BY <3>1, <3>3, <3>4, AddsOneMore
    <3> QED BY <3>5 DEF G
  <2> QED BY <2>1, <2>2
<1>2. S \in SUBSET S
  OBVIOUS
<1> HIDE DEF G
<1>3. S \in G
  BY <1>1, <1>2, SubsetInduction
<1> QED BY <1>3 DEF G

------------------------------------------------------------------------------
\* SumOf is what such a function says of the whole set.

Picked(s) == CHOOSE x \in s : TRUE

\* The equation of the fold.
Folds(it, f, S) ==
  it = [s \in SUBSET S |-> IF s = {} THEN 0 ELSE f[Picked(s)] + it[s \ {Picked(s)}]]

LEMMA Unfolded ==
  ASSUME NEW f, NEW S
  PROVE  SumOf(f, S) = (CHOOSE it : Folds(it, f, S))[S]
BY Zenon DEF SumOf, MapThenSumSet, MapThenFoldSet, Folds, Picked

LEMMA PickedIn ==
  ASSUME NEW s, s # {}
  PROVE  Picked(s) \in s
BY DEF Picked

LEMMA AddsFolds ==
  ASSUME NEW S, NEW f, NEW g, Adds(g, f, S)
  PROVE  Folds(g, f, S)
<1>1. ASSUME NEW s \in SUBSET S
      PROVE  g[s] = IF s = {} THEN 0 ELSE f[Picked(s)] + g[s \ {Picked(s)}]
  BY PickedIn DEF Adds
<1>2. g = [s \in SUBSET S |-> g[s]]
  BY DEF Adds
<1> QED BY <1>1, <1>2 DEF Folds

LEMMA FoldsAdds ==
  ASSUME NEW S, IsFiniteSet(S), NEW f, NEW g, Adds(g, f, S), NEW it, Folds(it, f, S)
  PROVE  \A T \in SUBSET S : it[T] = g[T]
<1> DEFINE G == {T \in SUBSET S : it[T] = g[T]}
<1>1. ASSUME NEW T \in SUBSET S, \A U \in SUBSET T : U # T => U \in G
      PROVE  T \in G
  <2>1. it[T] = IF T = {} THEN 0 ELSE f[Picked(T)] + it[T \ {Picked(T)}]
    BY DEF Folds
  <2>2. g[T] = IF T = {} THEN 0 ELSE f[Picked(T)] + g[T \ {Picked(T)}]
    BY PickedIn DEF Adds
  <2>3. T # {} => T \ {Picked(T)} \in SUBSET T /\ T \ {Picked(T)} # T
    BY PickedIn
  <2>4. T # {} => it[T \ {Picked(T)}] = g[T \ {Picked(T)}]
    BY <1>1, <2>3
  <2> QED BY <2>1, <2>2, <2>4
<1> HIDE DEF G
<1>2. \A T \in SUBSET S : T \in G
  BY <1>1, SubsetInduction
<1> QED BY <1>2 DEF G

LEMMA SumAdds ==
  ASSUME NEW S, IsFiniteSet(S), NEW f, NEW g, Adds(g, f, S)
  PROVE  SumOf(f, S) = g[S]
<1> DEFINE it == CHOOSE i : Folds(i, f, S)
<1>1. Folds(it, f, S)
  BY AddsFolds, Zenon
<1>2. SumOf(f, S) = it[S]
  BY Unfolded
<1> HIDE DEF it
<1> QED BY <1>1, <1>2, FoldsAdds

\* What holds of all subsets of S holds of those of a part of it.
LEMMA AddsPart ==
  ASSUME NEW S, NEW f, NEW g, Adds(g, f, S), NEW T \in SUBSET S
  PROVE  Adds([U \in SUBSET T |-> g[U]], f, T)
<1> DEFINE h == [U \in SUBSET T |-> g[U]]
<1>1. h \in [SUBSET T -> Int] /\ h[{}] = 0
  BY DEF Adds
<1>2. ASSUME NEW U \in SUBSET T, NEW x \in U
      PROVE  h[U] = f[x] + h[U \ {x}]
  <2>1. U \in SUBSET S /\ U \ {x} \in SUBSET T
    OBVIOUS
  <2>2. g[U] = f[x] + g[U \ {x}]
    BY <2>1 DEF Adds
  <2> QED BY <2>1, <2>2
<1> HIDE DEF h
<1>3. Adds(h, f, T)
  BY <1>1, <1>2 DEF Adds
<1> QED BY <1>3 DEF h

------------------------------------------------------------------------------
\* The lemmas the other modules cite.

LEMMA SumEmpty ==
  ASSUME NEW f
  PROVE  SumOf(f, {}) = 0
<1>1. IsFiniteSet({})
  BY FS_EmptySet
<1>2. PICK g : Adds(g, f, {})
  BY <1>1, AddsExists
<1> QED BY <1>1, <1>2, SumAdds DEF Adds

\* Nothing but zeros.
LEMMA SumZeros ==
  ASSUME NEW S, IsFiniteSet(S), NEW f, \A x \in S : f[x] = 0
  PROVE  SumOf(f, S) = 0
<1> DEFINE g == [T \in SUBSET S |-> 0]
<1>1. g \in [SUBSET S -> Int] /\ g[{}] = 0 /\ g[S] = 0
  OBVIOUS
<1>2. \A T \in SUBSET S : \A x \in T : g[T] = f[x] + g[T \ {x}]
  OBVIOUS
<1> HIDE DEF g
<1>3. Adds(g, f, S)
  BY <1>1, <1>2 DEF Adds
<1> QED BY <1>1, <1>3, SumAdds

LEMMA SumType ==
  ASSUME NEW S, IsFiniteSet(S), NEW f, \A x \in S : f[x] \in Int
  PROVE  SumOf(f, S) \in Int
<1>1. PICK g : Adds(g, f, S)
  BY AddsExists
<1>2. SumOf(f, S) = g[S]
  BY <1>1, SumAdds
<1> QED BY <1>1, <1>2 DEF Adds

\* One term apart.
LEMMA SumSplit ==
  ASSUME NEW S, IsFiniteSet(S), NEW f, \A x \in S : f[x] \in Int, NEW y \in S
  PROVE  SumOf(f, S) = f[y] + SumOf(f, S \ {y})
<1>1. PICK g : Adds(g, f, S)
  BY AddsExists
<1> DEFINE T == S \ {y}
           h == [U \in SUBSET T |-> g[U]]
<1>2. T \in SUBSET S /\ IsFiniteSet(T)
  BY FS_Subset
<1>3. h[T] = g[T]
  OBVIOUS
<1>4. Adds(h, f, T)
  <2> HIDE DEF T
  <2> QED BY <1>1, <1>2, AddsPart
<1> HIDE DEF h
<1>5. SumOf(f, T) = g[T]
  BY <1>2, <1>3, <1>4, SumAdds
<1>6. SumOf(f, S) = g[S]
  BY <1>1, SumAdds
<1>7. g[S] = f[y] + g[T]
  BY <1>1 DEF Adds
<1> QED BY <1>5, <1>6, <1>7

\* Terms that are no debts.
LEMMA SumNatural ==
  ASSUME NEW S, IsFiniteSet(S), NEW f, \A x \in S : f[x] \in Nat
  PROVE  SumOf(f, S) \in Nat
<1> DEFINE G == {T \in SUBSET S : SumOf(f, T) \in Nat}
<1>1. ASSUME NEW T \in SUBSET S, \A U \in SUBSET T : U # T => U \in G
      PROVE  T \in G
  <2>1. CASE T = {}
    BY <2>1, SumEmpty
  <2>2. ASSUME NEW y \in T
        PROVE  T \in G
    <3>1. T \ {y} \in G
      BY <1>1, <2>2
    <3>2. IsFiniteSet(T) /\ \A x \in T : f[x] \in Int
      BY FS_Subset
    <3>3. SumOf(f, T) = f[y] + SumOf(f, T \ {y})
      BY <2>2, <3>2, SumSplit
    <3> QED BY <2>2, <3>1, <3>3
  <2> QED BY <2>1, <2>2
<1> HIDE DEF G
<1>2. \A T \in SUBSET S : T \in G
  BY <1>1, SubsetInduction
<1> QED BY <1>2 DEF G

\* The same terms.
LEMMA SumSame ==
  ASSUME NEW S, IsFiniteSet(S), NEW f, \A x \in S : f[x] \in Int,
         NEW h, \A x \in S : h[x] = f[x]
  PROVE  SumOf(h, S) = SumOf(f, S)
<1>1. PICK g : Adds(g, f, S)
  BY AddsExists
<1>2. Adds(g, h, S)
  BY <1>1 DEF Adds
<1> QED BY <1>1, <1>2, SumAdds

\* One term changed.
LEMMA SumChanged ==
  ASSUME NEW S, IsFiniteSet(S), NEW y \in S,
         NEW f, \A x \in S : f[x] \in Int,
         NEW h, \A x \in S : h[x] \in Int, \A x \in S \ {y} : h[x] = f[x]
  PROVE  SumOf(h, S) = SumOf(f, S) - f[y] + h[y]
<1> DEFINE T == S \ {y}
<1>1. IsFiniteSet(T) /\ (\A x \in T : f[x] \in Int) /\ (\A x \in T : h[x] = f[x])
  BY FS_Subset
<1>2. SumOf(f, S) = f[y] + SumOf(f, T) /\ SumOf(h, S) = h[y] + SumOf(h, T)
  BY SumSplit
<1> HIDE DEF T
<1>3. SumOf(h, T) = SumOf(f, T) /\ SumOf(f, T) \in Int
  BY <1>1, SumSame, SumType
<1> QED BY <1>2, <1>3

\* The terms of a part are those of the whole where the others count for nothing.
LEMMA SumWhere ==
  ASSUME NEW S, IsFiniteSet(S), NEW f, \A x \in S : f[x] \in Int, NEW D
  PROVE  SumOf(f, S \cap D) = SumOf([x \in S |-> IF x \in D THEN f[x] ELSE 0], S)
<1> DEFINE h == [x \in S |-> IF x \in D THEN f[x] ELSE 0]
           G == {T \in SUBSET S : SumOf(f, T \cap D) = SumOf(h, T)}
<1>1. \A x \in S : h[x] = (IF x \in D THEN f[x] ELSE 0) /\ h[x] \in Int
  OBVIOUS
<1> HIDE DEF h
<1>2. ASSUME NEW T \in SUBSET S, \A U \in SUBSET T : U # T => U \in G
      PROVE  T \in G
  <2>1. CASE T = {}
    <3>1. {} \cap D = {}
      OBVIOUS
    <3>2. SumOf(f, {}) = 0 /\ SumOf(h, {}) = 0
      BY SumEmpty
    <3>3. SumOf(f, T \cap D) = SumOf(h, T)
      BY <2>1, <3>1, <3>2
    <3> QED BY <3>3
  <2>2. CASE T # {}
    <3>1. PICK y \in T : TRUE
      BY <2>2
    <3> DEFINE R == T \ {y}
    <3>2. SumOf(f, R \cap D) = SumOf(h, R)
      BY <1>2, <3>1
    <3>3. IsFiniteSet(T) /\ IsFiniteSet(T \cap D) /\ IsFiniteSet(R)
      BY FS_Subset
    <3>4. SumOf(h, T) = h[y] + SumOf(h, R)
      BY <1>1, <3>1, <3>3, SumSplit
    <3>5. SumOf(h, R) \in Int
      BY <1>1, <3>3, SumType
    <3>6. CASE y \in D
      <4>1. SumOf(f, T \cap D) = f[y] + SumOf(f, (T \cap D) \ {y})
        BY <3>1, <3>3, <3>6, SumSplit
      <4>2. (T \cap D) \ {y} = R \cap D
        OBVIOUS
      <4> HIDE DEF R
      <4>3. SumOf(f, T \cap D) = SumOf(h, T)
        BY <1>1, <3>1, <3>2, <3>4, <3>6, <4>1, <4>2
      <4> QED BY <4>3
    <3>7. CASE y \notin D
      <4>1. T \cap D = R \cap D
        BY <3>7
      <4>2. h[y] = 0
        BY <1>1, <3>1, <3>7
      <4> HIDE DEF R
      <4>3. SumOf(f, T \cap D) = SumOf(h, T)
        BY <3>2, <3>4, <3>5, <4>1, <4>2
      <4> QED BY <4>3
    <3> QED BY <3>6, <3>7
  <2> QED BY <2>1, <2>2
<1> HIDE DEF G
<1>3. S \in G
  BY <1>2, SubsetInduction
<1> QED BY <1>3 DEF G, h
==============================================================================
