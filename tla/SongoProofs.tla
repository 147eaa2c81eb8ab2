------------------------------ MODULE SongoProofs ------------------------------
(***************************************************************************)
(* Theorems about Songo, for a board of any size, any number of seeds and  *)
(* any thresholds the assumption allows.                                   *)
(***************************************************************************)
EXTENDS Songo, FiniteSetTheorems, TLAPS

------------------------------------------------------------------------------
\* Holes.

\* The board is the two camps, which have no hole in common.
LEMMA TwoCamps ==
  /\ Camp \in Nat \ {0} /\ Trous = 2 * Camp /\ Trous \in Nat \ {0}
  /\ IsFiniteSet(Holes) /\ Cardinality(Holes) = Trous
  /\ \A p \in Joueurs :
       /\ 1 - p \in Joueurs
       /\ CampOf(p) \subseteq Holes
       /\ CampOf(p) \cup CampOf(1 - p) = Holes
       /\ CampOf(p) \cap CampOf(1 - p) = {}
       /\ Case7(p) \in CampOf(p)
<1>1. Camp \in Nat \ {0} /\ Trous = 2 * Camp /\ Trous \in Nat \ {0}
  BY BoardAssumption DEF Trous
<1>2. IsFiniteSet(Holes) /\ Cardinality(Holes) = Trous
  BY <1>1, FS_Interval DEF Holes
<1>3. CampOf(0) = 0..(Camp - 1) /\ CampOf(1) = Camp..(2 * Camp - 1)
  BY <1>1 DEF CampOf, Debut, Fin
<1>4. Case7(0) = Camp - 1 /\ Case7(1) = 2 * Camp - 1
  BY <1>1 DEF Case7, Debut, Fin
<1>5. ASSUME NEW p \in Joueurs
      PROVE  /\ 1 - p \in Joueurs
             /\ CampOf(p) \subseteq Holes
             /\ CampOf(p) \cup CampOf(1 - p) = Holes
             /\ CampOf(p) \cap CampOf(1 - p) = {}
             /\ Case7(p) \in CampOf(p)
  BY <1>1, <1>3, <1>4 DEF Joueurs, Holes
<1>6. QED
  BY <1>1, <1>2, <1>5

\* Every seed falls on the board.
LEMMA DestinationType ==
  ASSUME NEW move \in Holes, NEW k \in Nat, NEW p \in Joueurs
  PROVE  GetDestinationHole(move, k, p) \in Holes
<1>1. (move + k) % Trous \in Holes
  BY TwoCamps DEF Holes
<1>2. ASSUME k > Boucle
      PROVE  Debut(1 - p) + ((k - Boucle - 1) % Camp) \in Holes
  <2>1. k - Boucle - 1 \in Int
    BY TwoCamps DEF Boucle
  <2>2. (k - Boucle - 1) % Camp \in 0..(Camp - 1)
    BY <2>1, TwoCamps
  <2>3. Debut(1 - p) \in {0, Camp}
    BY TwoCamps DEF Debut, Joueurs
  <2>4. QED
    BY <2>2, <2>3, TwoCamps DEF Holes
<1>3. QED
  BY <1>1, <1>2 DEF GetDestinationHole

------------------------------------------------------------------------------
\* Counting seeds.

\* The seeds Seeds counts.
Pairs(b, holes) == UNION {{i} \X (1..b[i]) : i \in holes}

Boards == [Holes -> Nat]

\* A hole with n seeds is n pairs.
LEMMA OneHole ==
  ASSUME NEW i, NEW n \in Nat
  PROVE  /\ IsFiniteSet({i} \X (1..n))
         /\ Cardinality({i} \X (1..n)) = n
<1>1. IsFiniteSet({i}) /\ Cardinality({i}) = 1
  BY FS_Singleton
<1>2. IsFiniteSet(1..n) /\ Cardinality(1..n) = n
  BY FS_Interval
<1>3. /\ IsFiniteSet({i} \X (1..n))
      /\ Cardinality({i} \X (1..n)) = Cardinality({i}) * Cardinality(1..n)
  BY <1>1, <1>2, FS_Product, Zenon
<1>4. QED
  BY <1>1, <1>2, <1>3

\* Seeds is a number.
LEMMA SeedsType ==
  ASSUME NEW b \in Boards, NEW holes \in SUBSET Holes
  PROVE  /\ IsFiniteSet(Pairs(b, holes))
         /\ Seeds(b, holes) = Cardinality(Pairs(b, holes))
         /\ Seeds(b, holes) \in Nat
<1> DEFINE cell(i) == {i} \X (1..b[i])
           f == [i \in holes |-> cell(i)]
<1>1. IsFiniteSet(holes)
  BY TwoCamps, FS_Subset
<1>2. \A i \in holes : IsFiniteSet(cell(i))
  <2>1. TAKE i \in holes
  <2>2. b[i] \in Nat
    BY DEF Boards
  <2>3. QED
    BY <2>2, OneHole
<1>3. f \in Surjection(holes, {cell(i) : i \in holes})
  BY DEF Surjection
<1>4. IsFiniteSet({cell(i) : i \in holes})
  <2> HIDE DEF f, cell
  <2>1. QED
    BY <1>1, <1>3, FS_Surjection
<1>5. IsFiniteSet(UNION {cell(i) : i \in holes})
  <2>1. \A T \in {cell(i) : i \in holes} : IsFiniteSet(T)
    BY <1>2
  <2> HIDE DEF cell
  <2>2. QED
    BY <1>4, <2>1, FS_UNION
<1>6. IsFiniteSet(Pairs(b, holes))
  BY <1>5 DEF Pairs
<1>7. QED
  BY <1>6, FS_CardinalityType DEF Seeds, Pairs

\* The seeds of two parts of the board add up.
LEMMA SeedsSplit ==
  ASSUME NEW b \in Boards, NEW A \in SUBSET Holes, NEW B \in SUBSET Holes,
         A \cap B = {}
  PROVE  Seeds(b, A \cup B) = Seeds(b, A) + Seeds(b, B)
<1>1. Pairs(b, A \cup B) = Pairs(b, A) \cup Pairs(b, B)
  BY DEF Pairs
<1>2. Pairs(b, A) \cap Pairs(b, B) = {}
  BY DEF Pairs
<1>3. IsFiniteSet(Pairs(b, A)) /\ IsFiniteSet(Pairs(b, B))
  BY SeedsType
<1>4. Cardinality(Pairs(b, A) \cup Pairs(b, B)) =
        Cardinality(Pairs(b, A)) + Cardinality(Pairs(b, B)) - Cardinality({})
  BY <1>2, <1>3, FS_Union
<1>5. Seeds(b, A \cup B) = Cardinality(Pairs(b, A) \cup Pairs(b, B))
  BY <1>1 DEF Seeds, Pairs
<1>6. /\ Seeds(b, A) = Cardinality(Pairs(b, A)) /\ Seeds(b, A) \in Nat
      /\ Seeds(b, B) = Cardinality(Pairs(b, B)) /\ Seeds(b, B) \in Nat
  BY SeedsType
<1>7. Cardinality({}) = 0
  BY FS_EmptySet
<1>8. QED
  BY <1>4, <1>5, <1>6, <1>7

\* Only the contents of the holes matter.
LEMMA SeedsSame ==
  ASSUME NEW b, NEW c, NEW A, \A i \in A : b[i] = c[i]
  PROVE  Seeds(b, A) = Seeds(c, A)
<1>1. {{i} \X (1..b[i]) : i \in A} = {{i} \X (1..c[i]) : i \in A}
  OBVIOUS
<1>2. QED
  BY <1>1 DEF Seeds

\* The seeds of one hole.
LEMMA SeedsOfHole ==
  ASSUME NEW b \in Boards, NEW i \in Holes
  PROVE  Seeds(b, {i}) = b[i]
<1>1. UNION {{j} \X (1..b[j]) : j \in {i}} = {i} \X (1..b[i])
  OBVIOUS
<1>2. QED
  BY <1>1, OneHole DEF Seeds, Boards

\* Changing one hole changes the seeds of the board by the difference.
LEMMA SeedsExcept ==
  ASSUME NEW b \in Boards, NEW c \in Boards, NEW i \in Holes,
         \A j \in Holes \ {i} : c[j] = b[j]
  PROVE  Seeds(c, Holes) = Seeds(b, Holes) - b[i] + c[i]
<1>1. (Holes \ {i}) \cup {i} = Holes /\ (Holes \ {i}) \cap {i} = {}
  OBVIOUS
<1>2. ASSUME NEW x \in Boards
      PROVE  Seeds(x, Holes) = Seeds(x, Holes \ {i}) + x[i]
  <2>1. Seeds(x, (Holes \ {i}) \cup {i}) = Seeds(x, Holes \ {i}) + Seeds(x, {i})
    BY <1>1, SeedsSplit
  <2>2. QED
    BY <1>1, <2>1, SeedsOfHole
<1>3. /\ Seeds(b, Holes) = Seeds(b, Holes \ {i}) + b[i]
      /\ Seeds(c, Holes) = Seeds(c, Holes \ {i}) + c[i]
  BY <1>2
<1>4. Seeds(c, Holes \ {i}) = Seeds(b, Holes \ {i})
  BY SeedsSame
<1>5. Seeds(b, Holes \ {i}) \in Nat /\ b[i] \in Nat /\ c[i] \in Nat
  BY SeedsType DEF Boards
<1>6. QED
  BY <1>3, <1>4, <1>5

\* Emptying some holes takes out the seeds they had.
LEMMA SeedsEmptied ==
  ASSUME NEW b \in Boards, NEW A \in SUBSET Holes
  PROVE  LET c == [i \in Holes |-> IF i \in A THEN 0 ELSE b[i]]
         IN  c \in Boards /\ Seeds(c, Holes) = Seeds(b, Holes) - Seeds(b, A)
<1> DEFINE c == [i \in Holes |-> IF i \in A THEN 0 ELSE b[i]]
<1>1. c \in Boards
  BY DEF Boards
<1>2. (Holes \ A) \cup A = Holes /\ (Holes \ A) \cap A = {}
  OBVIOUS
<1>3. Seeds(b, Holes) = Seeds(b, Holes \ A) + Seeds(b, A)
  BY <1>2, SeedsSplit
<1>4. Seeds(c, Holes) = Seeds(c, Holes \ A) + Seeds(c, A)
  BY <1>1, <1>2, SeedsSplit
<1>5. Seeds(c, Holes \ A) = Seeds(b, Holes \ A)
  BY SeedsSame
<1>6. Seeds(c, A) = 0
  <2>1. \A i \in A : {i} \X (1..c[i]) = {}
    BY 1..0 = {}
  <2>2. Pairs(c, A) = {}
    BY <2>1 DEF Pairs
  <2>3. QED
    BY <2>2, <1>1, SeedsType, FS_EmptySet
<1>7. Seeds(b, Holes \ A) \in Nat /\ Seeds(b, A) \in Nat
  BY SeedsType
<1>8. QED
  BY <1>1, <1>3, <1>4, <1>5, <1>6, <1>7

------------------------------------------------------------------------------
\* Sowing.

\* Board c after dropping the seeds K, seed k in hole d[k].
Dropped(c, d, K) ==
  [i \in Holes |-> c[i] + Cardinality({k \in K : d[k] = i})]

\* Dropping some seeds gives a board.
LEMMA DroppedType ==
  ASSUME NEW c \in Boards, NEW n \in Nat, NEW d, NEW K \in SUBSET (1..n)
  PROVE  Dropped(c, d, K) \in Boards
<1>1. ASSUME NEW i \in Holes
      PROVE  Cardinality({k \in K : d[k] = i}) \in Nat
  <2>1. IsFiniteSet(1..n)
    BY FS_Interval
  <2>2. {k \in K : d[k] = i} \in SUBSET (1..n)
    OBVIOUS
  <2>3. IsFiniteSet({k \in K : d[k] = i})
    BY <2>1, <2>2, FS_Subset
  <2>4. QED
    BY <2>3, FS_CardinalityType
<1>2. QED
  BY <1>1 DEF Dropped, Boards

\* One more seed is one more in its hole, and nothing elsewhere.
LEMMA DropOne ==
  ASSUME NEW c \in Boards, NEW n \in Nat, NEW d \in [1..n -> Holes],
         NEW K \in SUBSET (1..n), NEW k \in K
  PROVE  LET J == K \ {k}
         IN  Seeds(Dropped(c, d, K), Holes) = Seeds(Dropped(c, d, J), Holes) + 1
<1> DEFINE J == K \ {k}
           x == Dropped(c, d, J)
           y == Dropped(c, d, K)
           in(L, i) == {l \in L : d[l] = i}
<1>1. J \in SUBSET (1..n) /\ d[k] \in Holes
  OBVIOUS
<1>2. x \in Boards /\ y \in Boards
  BY <1>1, DroppedType
<1>3. \A j \in Holes \ {d[k]} : y[j] = x[j]
  <2>1. TAKE j \in Holes \ {d[k]}
  <2>2. in(K, j) = in(J, j)
    OBVIOUS
  <2>3. QED
    BY <2>2 DEF Dropped
<1>4. y[d[k]] = x[d[k]] + 1
  <2>1. in(K, d[k]) = in(J, d[k]) \cup {k} /\ k \notin in(J, d[k])
    OBVIOUS
  <2>2. IsFiniteSet(in(J, d[k]))
    <3>1. IsFiniteSet(1..n)
      BY FS_Interval
    <3>2. in(J, d[k]) \in SUBSET (1..n)
      OBVIOUS
    <3> HIDE DEF in
    <3>3. QED
      BY <3>1, <3>2, FS_Subset
  <2>3. Cardinality(in(J, d[k])) \in Nat
    BY <2>2, FS_CardinalityType
  <2>4. Cardinality(in(K, d[k])) = Cardinality(in(J, d[k])) + 1
    <3> HIDE DEF in
    <3>1. QED
      BY <2>1, <2>2, FS_AddElement
  <2>5. c[d[k]] \in Nat
    BY <1>1 DEF Boards
  <2>6. /\ x[d[k]] = c[d[k]] + Cardinality(in(J, d[k]))
        /\ y[d[k]] = c[d[k]] + Cardinality(in(K, d[k]))
    BY <1>1 DEF Dropped
  <2>7. QED
    BY <2>3, <2>4, <2>5, <2>6
<1>5. x[d[k]] \in Nat /\ Seeds(x, Holes) \in Nat
  BY <1>1, <1>2, SeedsType DEF Boards
<1>6. Seeds(y, Holes) = Seeds(x, Holes) - x[d[k]] + y[d[k]]
  <2> HIDE DEF x, y
  <2>1. QED
    BY <1>1, <1>2, <1>3, SeedsExcept
<1>7. QED
  BY <1>4, <1>5, <1>6

\* Every seed dropped is on the board: a least set of seeds for which this
\* fails is not empty, and fails already without one of its seeds.
LEMMA AllDropped ==
  ASSUME NEW c \in Boards, NEW n \in Nat, NEW d \in [1..n -> Holes]
  PROVE  Seeds(Dropped(c, d, 1..n), Holes) = Seeds(c, Holes) + n
<1> DEFINE Good(K) == Seeds(Dropped(c, d, K), Holes) = Seeds(c, Holes) + Cardinality(K)
           Bad == {K \in SUBSET (1..n) : ~Good(K)}
           R == StrictSubsetOrdering(1..n)
<1>1. IsFiniteSet(1..n) /\ Cardinality(1..n) = n
  BY FS_Interval
<1>2. Bad = {}
  <2>1. SUFFICES ASSUME Bad # {} PROVE FALSE
    OBVIOUS
  <2>2. IsWellFoundedOn(R, SUBSET (1..n))
    BY <1>1, FS_StrictSubsetOrderingWellFounded, FS_FiniteSubsetsOfFinite
  <2>3. PICK K \in Bad : \A J \in Bad : <<J, K>> \notin R
    <3>1. Bad \subseteq SUBSET (1..n)
      OBVIOUS
    <3> HIDE DEF Bad, R
    <3>2. QED
      BY <2>1, <2>2, <3>1, WFMin
  <2>4. CASE K = {}
    <3>1. \A i \in Holes : Cardinality({k \in {} : d[k] = i}) = 0
      <4>1. \A i \in Holes : {k \in {} : d[k] = i} = {}
        OBVIOUS
      <4>2. QED
        BY <4>1, FS_EmptySet
    <3>2. \A i \in Holes : Dropped(c, d, {})[i] = c[i]
      BY <3>1 DEF Dropped, Boards
    <3>3. Seeds(Dropped(c, d, {}), Holes) = Seeds(c, Holes)
      BY <3>2, SeedsSame
    <3>4. Seeds(c, Holes) \in Nat /\ Cardinality({}) = 0
      BY SeedsType, FS_EmptySet
    <3>5. QED
      BY <2>4, <3>3, <3>4
  <2>5. CASE K # {}
    <3>1. PICK k \in K : TRUE
      BY <2>5
    <3>2. K \ {k} \in SUBSET (1..n) /\ <<K \ {k}, K>> \in R
      BY <3>1 DEF StrictSubsetOrdering
    <3>3. Good(K \ {k})
      BY <2>3, <3>2
    <3>4. Seeds(Dropped(c, d, K), Holes) = Seeds(Dropped(c, d, K \ {k}), Holes) + 1
      BY DropOne
    <3>5. Cardinality(K) = Cardinality(K \ {k}) + 1 /\ Cardinality(K \ {k}) \in Nat
      <4>1. IsFiniteSet(K)
        BY <1>1, FS_Subset
      <4>2. IsFiniteSet(K \ {k}) /\ Cardinality(K \ {k}) = Cardinality(K) - 1
        BY <4>1, <3>1, FS_RemoveElement
      <4>3. Cardinality(K) \in Nat /\ Cardinality(K \ {k}) \in Nat
        BY <4>1, <4>2, FS_CardinalityType
      <4>4. QED
        BY <4>2, <4>3
    <3>6. Seeds(c, Holes) \in Nat
      BY SeedsType
    <3>7. QED
      BY <3>3, <3>4, <3>5, <3>6
  <2>6. QED
    BY <2>4, <2>5
<1>3. Good(1..n)
  BY <1>2
<1>4. QED
  BY <1>1, <1>3

\* A sowing leaves on the board what was on it.
LEMMA SownConserves ==
  ASSUME NEW b \in Boards, NEW move \in Holes, NEW p \in Joueurs
  PROVE  /\ Sown(b, move, p) \in Boards
         /\ Seeds(Sown(b, move, p), Holes) = Seeds(b, Holes)
         /\ \A i \in Holes \ {move} : Sown(b, move, p)[i] >= b[i]
<1> DEFINE c == [i \in Holes |-> IF i = move THEN 0 ELSE b[i]]
           d == [k \in 1..b[move] |-> GetDestinationHole(move, k, p)]
<1>1. b[move] \in Nat /\ c \in Boards
  BY DEF Boards
<1>2. d \in [1..b[move] -> Holes]
  BY <1>1, DestinationType
<1>3. Sown(b, move, p) = Dropped(c, d, 1..b[move])
  <2>1. \A i \in Holes :
          Sowing(b, move, p, {i}) = {k \in 1..b[move] : d[k] = i}
    BY DEF Sowing
  <2>2. QED
    BY <2>1 DEF Sown, Dropped
<1>4. Sown(b, move, p) \in Boards
  <2> HIDE DEF c, d
  <2>1. 1..b[move] \in SUBSET (1..b[move])
    OBVIOUS
  <2>2. QED
    BY <1>1, <1>3, <2>1, DroppedType
<1>5. Seeds(Sown(b, move, p), Holes) = Seeds(c, Holes) + b[move]
  <2> HIDE DEF c, d
  <2>1. QED
    BY <1>1, <1>2, <1>3, AllDropped
<1>6. Seeds(c, Holes) = Seeds(b, Holes) - b[move]
  <2>1. \A j \in Holes \ {move} : c[j] = b[j]
    OBVIOUS
  <2>2. c[move] = 0
    OBVIOUS
  <2> HIDE DEF c
  <2>3. Seeds(c, Holes) = Seeds(b, Holes) - b[move] + c[move]
    BY <1>1, <2>1, SeedsExcept
  <2>4. Seeds(b, Holes) \in Nat
    BY SeedsType
  <2>5. QED
    BY <2>2, <2>3, <2>4, <1>1
<1>7. Seeds(b, Holes) \in Nat
  BY SeedsType
<1>8. ASSUME NEW i \in Holes \ {move}
      PROVE  Sown(b, move, p)[i] >= b[i]
  <2>1. Sown(b, move, p)[i] = b[i] + Cardinality(Sowing(b, move, p, {i}))
    BY DEF Sown
  <2>2. Cardinality(Sowing(b, move, p, {i})) \in Nat
    <3>1. IsFiniteSet(1..b[move]) /\ Sowing(b, move, p, {i}) \in SUBSET (1..b[move])
      BY <1>1, FS_Interval DEF Sowing
    <3>2. QED
      BY <3>1, FS_Subset, FS_CardinalityType
  <2>3. b[i] \in Nat
    BY DEF Boards
  <2>4. QED
    BY <2>1, <2>2, <2>3
<1>9. QED
  BY <1>1, <1>4, <1>5, <1>6, <1>7, <1>8

------------------------------------------------------------------------------
\* A move.

\* The moves that are legal are holes of the player who is to move, and never
\* the trap of hole 7 unless the opponent is starving.
LEMMA LegalMoves ==
  ASSUME NEW b \in Boards, NEW p \in Joueurs, NEW move \in GetCoupsLegaux(b, p)
  PROVE  /\ move \in CampOf(p) /\ move \in Holes
         /\ ~EstFamine(b, p) => ~Penalty(b, move, p)
<1>1. move \in CampOf(p)
  BY DEF GetCoupsLegaux, Nourrissants
<1>2. ~EstFamine(b, p) => ~Penalty(b, move, p)
  BY DEF GetCoupsLegaux
<1>3. QED
  BY <1>1, <1>2, TwoCamps

\* What is captured is in the opponent's camp.
LEMMA CapturesType ==
  ASSUME NEW b, NEW last, NEW p \in Joueurs
  PROVE  Captures(b, last, p) \in SUBSET CampOf(1 - p)
BY DEF Captures, Cascade

Stores == [Joueurs -> Nat]

All(b, g) == Seeds(b, Holes) + g[0] + g[1]

\* Putting n more in a store.
LEMMA Stored ==
  ASSUME NEW g \in Stores, NEW p \in Joueurs, NEW n \in Nat
  PROVE  LET h == [g EXCEPT ![p] = @ + n]
         IN  h \in Stores /\ h[0] + h[1] = g[0] + g[1] + n
<1> DEFINE h == [g EXCEPT ![p] = @ + n]
<1>1. g[0] \in Nat /\ g[1] \in Nat /\ g[p] + n \in Nat
  BY DEF Stores, Joueurs
<1>2. h \in Stores
  BY <1>1 DEF Stores
<1>3. h[0] + h[1] = g[0] + g[1] + n
  BY <1>1 DEF Stores, Joueurs
<1>4. QED
  BY <1>2, <1>3

\* A move keeps the types and the number of seeds.
LEMMA MoveConserves ==
  ASSUME NEW b \in Boards, NEW g \in Stores, NEW p \in Joueurs, NEW move \in Holes
  PROVE  LET after == AppliquerCoup(b, g, p, move)
         IN  /\ after.plateau \in Boards /\ after.greniers \in Stores
             /\ All(after.plateau, after.greniers) = All(b, g)
<1> DEFINE after == AppliquerCoup(b, g, p, move)
<1>1. 1 - p \in Joueurs /\ b[move] \in Nat /\ Seeds(b, Holes) \in Nat
  BY TwoCamps, SeedsType DEF Boards
<1>2. g[0] \in Nat /\ g[1] \in Nat
  BY DEF Stores, Joueurs
<1>3. CASE Penalty(b, move, p)
  <2> DEFINE c == [b EXCEPT ![move] = 0]
             h == [g EXCEPT ![1 - p] = @ + b[move]]
  <2>1. after.plateau = c /\ after.greniers = h
    BY <1>3 DEF AppliquerCoup, Penalised
  <2>2. c \in Boards /\ c[move] = 0 /\ \A j \in Holes \ {move} : c[j] = b[j]
    BY DEF Boards
  <2>3. h \in Stores /\ h[0] + h[1] = g[0] + g[1] + b[move]
    BY <1>1, Stored
  <2> HIDE DEF c, h
  <2>4. Seeds(c, Holes) = Seeds(b, Holes) - b[move]
    <3>1. Seeds(c, Holes) = Seeds(b, Holes) - b[move] + c[move]
      BY <2>2, SeedsExcept
    <3>2. c[move] = 0
      BY <2>2
    <3>3. QED
      BY <3>1, <3>2, <1>1
  <2>5. h[0] \in Nat /\ h[1] \in Nat
    BY <2>3 DEF Stores, Joueurs
  <2>6. All(c, h) = All(b, g)
    <3>1. h[0] + h[1] = g[0] + g[1] + b[move]
      BY <2>3
    <3>2. QED
      BY <3>1, <2>4, <2>5, <1>1, <1>2 DEF All
  <2>7. QED
    BY <2>1, <2>2, <2>3, <2>6
<1>4. CASE ~Penalty(b, move, p)
  <2> DEFINE sown == Sown(b, move, p)
             taken == Captures(sown, GetDestinationHole(move, b[move], p), p)
             c == [i \in Holes |-> IF i \in taken THEN 0 ELSE sown[i]]
             h == [g EXCEPT ![p] = @ + Seeds(sown, taken)]
  <2>1. after.plateau = c /\ after.greniers = h
    BY <1>4 DEF AppliquerCoup, Harvested
  <2>2. sown \in Boards /\ Seeds(sown, Holes) = Seeds(b, Holes)
    BY SownConserves
  <2>3. taken \in SUBSET Holes
    <3> HIDE DEF sown
    <3>1. taken \in SUBSET CampOf(1 - p)
      BY CapturesType
    <3>2. QED
      BY <3>1, <1>1, TwoCamps
  <2> HIDE DEF sown, taken
  <2>4. c \in Boards /\ Seeds(c, Holes) = Seeds(sown, Holes) - Seeds(sown, taken)
    BY <2>2, <2>3, SeedsEmptied
  <2>5. Seeds(sown, taken) \in Nat
    BY <2>2, <2>3, SeedsType
  <2>6. h \in Stores /\ h[0] + h[1] = g[0] + g[1] + Seeds(sown, taken)
    BY <2>5, Stored
  <2> HIDE DEF c, h
  <2>7. h[0] \in Nat /\ h[1] \in Nat
    BY <2>6 DEF Stores, Joueurs
  <2>8. All(c, h) = All(b, g)
    BY <2>2, <2>4, <2>5, <2>6, <2>7, <1>1, <1>2 DEF All
  <2>9. QED
    BY <2>1, <2>4, <2>6, <2>8
<1>5. QED
  BY <1>3, <1>4

\* Solidarity: a move of a player whose opponent is not starving leaves him
\* something, and gives nothing to his store.
LEMMA Solidarity ==
  ASSUME NEW b \in Boards, NEW g \in Stores, NEW p \in Joueurs,
         NEW move \in GetCoupsLegaux(b, p), ~EstFamine(b, p)
  PROVE  LET after == AppliquerCoup(b, g, p, move)
         IN  /\ ~EstFamine(after.plateau, p)
             /\ after.greniers[1 - p] = g[1 - p]
<1> DEFINE after == AppliquerCoup(b, g, p, move)
           sown == Sown(b, move, p)
           last == GetDestinationHole(move, b[move], p)
           taken == Captures(sown, last, p)
<1>1. ~Penalty(b, move, p) /\ move \in CampOf(p) /\ move \in Holes
  BY LegalMoves
<1>2. /\ after.plateau = [i \in Holes |-> IF i \in taken THEN 0 ELSE sown[i]]
      /\ after.greniers = [g EXCEPT ![p] = @ + Seeds(sown, taken)]
  BY <1>1 DEF AppliquerCoup, Harvested
<1>3. after.greniers[1 - p] = g[1 - p]
  <2>1. 1 - p # p /\ 1 - p \in Joueurs
    BY DEF Joueurs
  <2> HIDE DEF after, sown, taken
  <2>2. QED
    BY <1>2, <2>1 DEF Stores
<1>4. CampOf(1 - p) \subseteq Holes \ {move}
  BY <1>1, TwoCamps
<1>5. PICK j \in CampOf(1 - p) : b[j] # 0
  BY DEF EstFamine
<1>6. sown[j] > 0
  <2>1. b[j] \in Nat /\ sown[j] >= b[j] /\ sown \in Boards
    BY <1>1, <1>4, SownConserves DEF Boards
  <2>2. sown[j] \in Nat
    BY <2>1, <1>4 DEF Boards
  <2>3. QED
    BY <1>5, <2>1, <2>2
<1>7. \E i \in CampOf(1 - p) : i \notin taken /\ sown[i] > 0
  <2> HIDE DEF sown, last
  <2>1. CASE taken = {}
    BY <1>6, <2>1
  <2>2. CASE taken # {}
    BY <2>2 DEF Captures
  <2>3. QED
    BY <2>1, <2>2
<1>8. PICK i \in CampOf(1 - p) : i \notin taken /\ sown[i] > 0
  BY <1>7
<1>9. after.plateau[i] = sown[i]
  <2> HIDE DEF after, sown, taken
  <2>1. QED
    BY <1>2, <1>4, <1>8
<1>10. ~EstFamine(after.plateau, p)
  <2> HIDE DEF after, sown, taken
  <2>1. QED
    BY <1>8, <1>9 DEF EstFamine
<1>11. QED
  BY <1>3, <1>10

------------------------------------------------------------------------------
\* The theorems.

IInv == TypeOK /\ SeedsConserved

LEMMA InitIInv == Init => IInv
<1> SUFFICES ASSUME Init PROVE IInv
  OBVIOUS
<1>1. GrainesParTrou \in Nat
  BY BoardAssumption
<1>2. TypeOK
  BY <1>1 DEF Init, TypeOK, Joueurs
<1>3. Seeds(plateau, Holes) = Total
  <2>1. UNION {{i} \X (1..plateau[i]) : i \in Holes} = Holes \X (1..GrainesParTrou)
    BY DEF Init
  <2>2. IsFiniteSet(1..GrainesParTrou) /\ Cardinality(1..GrainesParTrou) = GrainesParTrou
    BY <1>1, FS_Interval
  <2>3. Cardinality(Holes \X (1..GrainesParTrou)) = Trous * GrainesParTrou
    <3>1. IsFiniteSet(Holes) /\ Cardinality(Holes) = Trous
      BY TwoCamps
    <3>2. Cardinality(Holes \X (1..GrainesParTrou))
            = Cardinality(Holes) * Cardinality(1..GrainesParTrou)
      BY <2>2, <3>1, FS_Product, Zenon
    <3>3. QED
      BY <2>2, <3>1, <3>2
  <2>4. QED
    BY <2>1, <2>3 DEF Seeds, Total
<1>4. Total \in Nat
  BY <1>1, TwoCamps DEF Total
<1>5. greniers[0] = 0 /\ greniers[1] = 0
  BY DEF Init, Joueurs
<1>6. SeedsConserved
  BY <1>3, <1>4, <1>5 DEF SeedsConserved
<1>7. QED
  BY <1>2, <1>6 DEF IInv

\* A step is a legal move of the player who is to move.
LEMMA Steps ==
  ASSUME TypeOK, Next
  PROVE  \E move \in Holes : ApplyMove(move)
BY DEF Next, Play, PlayWorst

LEMMA NextIInv == IInv /\ [Next]_vars => IInv'
<1> SUFFICES ASSUME IInv, [Next]_vars PROVE IInv'
  OBVIOUS
<1>1. plateau \in Boards /\ greniers \in Stores /\ joueur \in Joueurs
  BY DEF IInv, TypeOK, Boards, Stores
<1>2. CASE Next
  <2>1. PICK move \in Holes : ApplyMove(move)
    BY <1>2, Steps DEF IInv
  <2> DEFINE after == AppliquerCoup(plateau, greniers, joueur, move)
  <2>2. plateau' = after.plateau /\ greniers' = after.greniers /\ joueur' = 1 - joueur
    BY <2>1 DEF ApplyMove
  <2>3. /\ after.plateau \in Boards /\ after.greniers \in Stores
        /\ All(after.plateau, after.greniers) = All(plateau, greniers)
    BY <1>1, MoveConserves
  <2> HIDE DEF after
  <2>4. TypeOK'
    BY <1>1, <2>2, <2>3 DEF TypeOK, Boards, Stores, Joueurs, Holes
  <2>5. SeedsConserved'
    BY <2>2, <2>3 DEF IInv, SeedsConserved, All, Seeds, Holes
  <2>6. QED
    BY <2>4, <2>5 DEF IInv
<1>3. CASE UNCHANGED vars
  BY <1>3 DEF vars, IInv, TypeOK, SeedsConserved, Seeds
<1>4. QED
  BY <1>2, <1>3

\* The board and the stores keep their types and the seeds their number.
THEOREM InductiveInvariant == Spec => []IInv
<1>1. Init => IInv
  BY InitIInv
<1>2. IInv /\ [Next]_vars => IInv'
  BY NextIInv
<1>3. QED
  BY <1>1, <1>2, PTL DEF Spec

\* No hole and no store goes below zero.
THEOREM TypeCorrect == Spec => []TypeOK
<1>1. IInv => TypeOK
  BY DEF IInv
<1>2. QED
  BY <1>1, InductiveInvariant, PTL

\* appliquer_coup never loses or makes a seed, on a board of any size.
THEOREM NoSeedIsLost == Spec => []SeedsConserved
<1>1. IInv => SeedsConserved
  BY DEF IInv
<1>2. QED
  BY <1>1, InductiveInvariant, PTL

\* Solidarity: an opponent who had seeds is never left with none.
THEOREM NobodyIsEmptied == Spec => NeverEmptied
<1>1. ASSUME IInv, [Next]_vars
      PROVE  [~EstFamine(plateau, joueur) => ~EstFamine(plateau', joueur)]_vars
  <2>1. plateau \in Boards /\ greniers \in Stores /\ joueur \in Joueurs
    BY <1>1 DEF IInv, TypeOK, Boards, Stores
  <2>2. CASE Next
    <3>1. PICK move \in Holes : ApplyMove(move)
      BY <1>1, <2>2, Steps DEF IInv
    <3>2. QED
      BY <3>1, <2>1, Solidarity DEF ApplyMove
  <2>3. QED
    BY <1>1, <2>2
<1>2. QED
  BY <1>1, InductiveInvariant, PTL DEF Spec, NeverEmptied

\* A legal move only gives seeds to the opponent's store when he is starving.
THEOREM NothingIsGiven == Spec => NothingForFree
<1>1. ASSUME IInv, [Next]_vars
      PROVE  [~EstFamine(plateau, joueur)
                => greniers'[1 - joueur] = greniers[1 - joueur]]_vars
  <2>1. plateau \in Boards /\ greniers \in Stores /\ joueur \in Joueurs
    BY <1>1 DEF IInv, TypeOK, Boards, Stores
  <2>2. CASE Next
    <3>1. PICK move \in Holes : ApplyMove(move)
      BY <1>1, <2>2, Steps DEF IInv
    <3>2. QED
      BY <3>1, <2>1, Solidarity DEF ApplyMove
  <2>3. QED
    BY <1>1, <2>2
<1>2. QED
  BY <1>1, InductiveInvariant, PTL DEF Spec, NothingForFree

\* Stopping at the threshold or for want of a move never changes who wins.
THEOREM TheWinnerHasMore == Spec => []WinnerHasMore
<1>1. ASSUME IInv
      PROVE  WinnerHasMore
  <2> DEFINE H(p) == Holdings(plateau, greniers, p)
  <2>1. plateau \in Boards /\ greniers \in Stores /\ joueur \in Joueurs
    BY <1>1 DEF IInv, TypeOK, Boards, Stores
  <2>2. \A p \in Joueurs :
          /\ greniers[p] \in Nat /\ Seeds(plateau, CampOf(p)) \in Nat
          /\ H(p) = greniers[p] + Seeds(plateau, CampOf(p))
    BY <2>1, TwoCamps, SeedsType DEF Stores, Holdings
  <2>3. Seeds(plateau, Holes) = Seeds(plateau, CampOf(0)) + Seeds(plateau, CampOf(1))
    <3>1. 0 \in Joueurs /\ 1 \in Joueurs /\ 1 - 0 = 1
      BY DEF Joueurs
    <3>2. /\ CampOf(0) \cup CampOf(1) = Holes /\ CampOf(0) \cap CampOf(1) = {}
          /\ CampOf(0) \in SUBSET Holes /\ CampOf(1) \in SUBSET Holes
      BY <3>1, TwoCamps
    <3>3. Seeds(plateau, CampOf(0) \cup CampOf(1))
            = Seeds(plateau, CampOf(0)) + Seeds(plateau, CampOf(1))
      BY <2>1, <3>2, SeedsSplit
    <3>4. QED
      BY <3>2, <3>3
  <2>4. Seeds(plateau, Holes) \in Nat
    BY <2>1, SeedsType
  <2>5. H(0) + H(1) = Total
    BY <1>1, <2>2, <2>3 DEF IInv, SeedsConserved, Joueurs
  <2>6. \A p \in Joueurs : H(p) \in Nat
    BY <2>2
  <2>7. \A p \in Joueurs : p \in Won(greniers) => H(p) > H(1 - p)
    <3>1. TAKE p \in Joueurs
    <3>2. HAVE p \in Won(greniers)
    <3>3. greniers[p] >= SeuilVictoire
      BY <3>2 DEF Won
    <3>4. H(p) >= SeuilVictoire /\ 2 * SeuilVictoire > Total /\ SeuilVictoire \in Nat
      BY <3>3, <2>2, BoardAssumption
    <3>5. H(p) + H(1 - p) = Total
      BY <2>5, <2>6 DEF Joueurs
    <3>6. 1 - p \in Joueurs
      BY DEF Joueurs
    <3>7. QED
      BY <3>4, <3>5, <3>6, <2>6
  <2>8. ASSUME NEW p \in Joueurs
        PROVE  p \in Winner(plateau, greniers) <=> H(p) > H(1 - p)
    <3>1. 1 - p \in Joueurs /\ 1 - (1 - p) = p /\ H(p) \in Nat /\ H(1 - p) \in Nat
      BY <2>6 DEF Joueurs
    <3>2. CASE Won(greniers) = {}
      BY <3>2 DEF Winner, Ahead
    <3>3. CASE Won(greniers) # {}
      <4>1. PICK q \in Joueurs : q \in Won(greniers)
        BY <3>3 DEF Won
      <4>2. Winner(plateau, greniers) = Won(greniers)
        BY <3>3 DEF Winner
      <4>3. CASE q = p
        BY <4>1, <4>2, <4>3, <2>7
      <4>4. CASE q = 1 - p
        <5>1. H(1 - p) > H(p)
          BY <4>1, <4>4, <3>1, <2>7
        <5>2. p \notin Won(greniers)
          BY <5>1, <3>1, <2>7
        <5>3. QED
          BY <4>2, <5>1, <5>2, <3>1
      <4>5. QED
        BY <4>3, <4>4 DEF Joueurs
    <3>4. QED
      BY <3>2, <3>3
  <2>9. QED
    BY <2>8 DEF WinnerHasMore
<1>2. QED
  BY <1>1, InductiveInvariant, PTL
==============================================================================
