--------------------------------- MODULE Songo ---------------------------------
(***************************************************************************)
(* The rules of Songo: games/songo/engine/rules.py and SongoModule         *)
(* (module.py).  A game is a board, two stores and whose turn it is.  A    *)
(* function of the code that changes a board in place is an operator that  *)
(* gives the new one.  Seeds are numbered in the order they are sown, so   *)
(* that a loop over the seeds becomes the set of seeds that fall in a hole.*)
(***************************************************************************)
EXTENDS Integers, FiniteSets

CONSTANTS
  Camp,            \* Holes of a player (TAILLE_CAMP, 7 in the code).
  GrainesParTrou,  \* Seeds in each hole at the start (5).
  SeuilVictoire,   \* A store with so many seeds wins (40).
  SeuilRarete      \* With fewer seeds on the board the game ends (10).

Trous == 2 * Camp
Total == Trous * GrainesParTrou
Boucle == Trous - 1

ASSUME BoardAssumption ==
  /\ Camp \in Nat \ {0} /\ GrainesParTrou \in Nat \ {0}
  /\ SeuilVictoire \in Nat /\ SeuilRarete \in Nat
  /\ 2 * SeuilVictoire > Total

VARIABLES
  plateau,   \* The seeds in each hole: player 0 has the first Camp holes.
  greniers,  \* The store of each player.
  joueur     \* The player to move.

vars == <<plateau, greniers, joueur>>

Joueurs == {0, 1}
Holes == 0..(Trous - 1)
Debut(p) == p * Camp
Fin(p) == Debut(p) + Camp - 1
CampOf(p) == Debut(p)..Fin(p)
Case7(p) == Fin(p)

\* The number of seeds in some holes: seed n of hole i is the pair of the two.
Seeds(b, holes) == Cardinality(UNION {{i} \X (1..b[i]) : i \in holes})

Init ==
  /\ plateau = [i \in Holes |-> GrainesParTrou]
  /\ greniers = [p \in Joueurs |-> 0]
  /\ joueur = 0

------------------------------------------------------------------------------
\* Sowing.

\* get_destination_hole: where the last of some seeds falls.  They go around the
\* board for a lap that skips the first hole, then (Ouragan) into the opponent's
\* camp only.  The loops of a sowing drop their k-th seed where k seeds end.
GetDestinationHole(move, graines, p) ==
  IF graines > Boucle THEN Debut(1 - p) + ((graines - Boucle - 1) % Camp)
                      ELSE (move + graines) % Trous

\* Of the seeds of a move, those that fall in some holes.
Sowing(b, move, p, holes) ==
  {k \in 1..b[move] : GetDestinationHole(move, k, p) \in holes}

\* The board after the sowing of a move, before any capture.
Sown(b, move, p) ==
  [i \in Holes |-> (IF i = move THEN 0 ELSE b[i])
                      + Cardinality(Sowing(b, move, p, {i}))]

\* simuler_nourrissage: the seeds of the move that fall in the opponent's camp.
\* Those of a penalty are counted as well.
SimulerNourrissage(b, move, p) ==
  Cardinality(Sowing(b, move, p, CampOf(1 - p)))

------------------------------------------------------------------------------
\* A move.

EstFamine(b, p) == \A i \in CampOf(1 - p) : b[i] = 0

Penalty(b, move, p) == move = Case7(p) /\ b[move] \in {1, 2}

\* The moves with the most to eat for a starved opponent; one that feeds a
\* whole camp's worth has priority, whatever the others feed.
Nourrissants(b, p) ==
  LET feed(m) == SimulerNourrissage(b, m, p)
      feeding == {m \in CampOf(p) : feed(m) > 0}
      plenty  == {m \in feeding : feed(m) >= Camp}
  IN IF plenty # {} THEN plenty
     ELSE {m \in feeding : \A n \in feeding : feed(n) <= feed(m)}

GetCoupsLegaux(b, p) ==
  IF EstFamine(b, p)
    THEN Nourrissants(b, p)
    ELSE {m \in CampOf(p) : b[m] > 0 /\ ~Penalty(b, m, p)}

Takeable(b, i) == b[i] \in 2..4

\* The cascade: from the last hole back through the opponent's camp, as long as
\* there are 2 to 4 seeds.
Cascade(b, last, p) ==
  {i \in CampOf(1 - p) : i <= last /\ \A j \in i..last : Takeable(b, j)}

\* Mutant of Captures: no solidarity.
CapturesUnbound(b, last, p) ==
  IF last \in CampOf(1 - p) \ {Debut(1 - p)} THEN Cascade(b, last, p) ELSE {}

\* What the last seed takes: nothing outside the opponent's camp or in its first
\* hole, and (solidarity) not all that is in the camp.
Captures(b, last, p) ==
  IF /\ last \in CampOf(1 - p) \ {Debut(1 - p)}
     /\ \E i \in CampOf(1 - p) \ Cascade(b, last, p) : b[i] > 0
    THEN Cascade(b, last, p)
    ELSE {}

\* Mutant of Penalised: the seeds stay on the board.
PenalisedTwice(b, g, p, move) ==
  [plateau |-> b, greniers |-> [g EXCEPT ![1 - p] = @ + b[move]]]

\* The trap of hole 7: its 1 or 2 seeds go to the opponent's store.
Penalised(b, g, p, move) ==
  [plateau  |-> [b EXCEPT ![move] = 0],
   greniers |-> [g EXCEPT ![1 - p] = @ + b[move]]]

\* A sowing and its captures.
Harvested(b, g, p, move) ==
  LET sown  == Sown(b, move, p)
      taken == Captures(sown, GetDestinationHole(move, b[move], p), p)
  IN [plateau  |-> [i \in Holes |-> IF i \in taken THEN 0 ELSE sown[i]],
      greniers |-> [g EXCEPT ![p] = @ + Seeds(sown, taken)]]

\* appliquer_coup: the board and the stores after a move.
AppliquerCoup(b, g, p, move) ==
  IF Penalty(b, move, p) THEN Penalised(b, g, p, move) ELSE Harvested(b, g, p, move)

------------------------------------------------------------------------------
\* The end.

\* A player's store and the seeds left in his camp.
Holdings(b, g, p) == g[p] + Seeds(b, CampOf(p))

\* Mutant of Ahead: only the stores are compared.
AheadInStore(b, g) == {p \in Joueurs : g[p] > g[1 - p]}

\* Who is ahead when each pockets what is left in his camp: at most one.
Ahead(b, g) == {p \in Joueurs : Holdings(b, g, p) > Holdings(b, g, 1 - p)}

Won(g) == {p \in Joueurs : g[p] >= SeuilVictoire}

Rare(b) == Seeds(b, Holes) < SeuilRarete

\* is_terminal: check_fin_partie, or a player with no legal move.
IsTerminal(b, g, p) == Won(g) # {} \/ Rare(b) \/ GetCoupsLegaux(b, p) = {}

\* winner: {} for a draw.
Winner(b, g) == IF Won(g) # {} THEN Won(g) ELSE Ahead(b, g)

------------------------------------------------------------------------------
\* worst_move: the least gain at once, then the least index.
Gain(b, g, p, move) ==
  LET after == AppliquerCoup(b, g, p, move).greniers
  IN after[p] - after[1 - p]

WorstMoves(b, g, p) ==
  {m \in GetCoupsLegaux(b, p) :
     \A n \in GetCoupsLegaux(b, p) :
       \/ Gain(b, g, p, m) < Gain(b, g, p, n)
       \/ Gain(b, g, p, m) = Gain(b, g, p, n) /\ m <= n}

\* apply_move.
ApplyMove(move) ==
  LET after == AppliquerCoup(plateau, greniers, joueur, move)
  IN /\ move \in GetCoupsLegaux(plateau, joueur)
     /\ plateau' = after.plateau
     /\ greniers' = after.greniers
     /\ joueur' = 1 - joueur

Over == IsTerminal(plateau, greniers, joueur)

\* A player or the AI plays.
Play(move) == ~Over /\ ApplyMove(move)

\* A timer plays.
PlayWorst(move) ==
  ~Over /\ move \in WorstMoves(plateau, greniers, joueur) /\ ApplyMove(move)

Next == \E move \in Holes : Play(move) \/ PlayWorst(move)

Spec == Init /\ [][Next]_vars

------------------------------------------------------------------------------
\* Properties.

\* Every variable stays in its type: no hole and no store goes below zero.
TypeOK ==
  /\ plateau \in [Holes -> Nat]
  /\ greniers \in [Joueurs -> Nat]
  /\ joueur \in Joueurs

\* No move loses or makes a seed, whether it sows, laps, captures, gives up a
\* capture or is penalised.
SeedsConserved == Seeds(plateau, Holes) + greniers[0] + greniers[1] = Total

\* Solidarity: no move leaves nothing to an opponent who had seeds, whatever he
\* had been fed before the cascade.
NeverEmptied ==
  [][~EstFamine(plateau, joueur) => ~EstFamine(plateau', joueur)]_vars

\* No legal move gives seeds to the opponent's store, unless he is starving.
NothingForFree ==
  [][~EstFamine(plateau, joueur) => greniers'[1 - joueur] = greniers[1 - joueur]]_vars

\* The obligation to feed: a move never leaves nothing to an opponent who had
\* nothing.
FeedsTheStarved ==
  [][EstFamine(plateau, joueur) => ~EstFamine(plateau', joueur)]_vars

\* However a game ends (threshold, scarcity, or a player without a legal move),
\* the winner has more than the other once each pockets what is in his camp, and
\* a draw is a tie: stopping at the threshold never takes the win from who would
\* have had it.
WinnerHasMore ==
  Over => \A p \in Joueurs :
            p \in Winner(plateau, greniers)
              <=> Holdings(plateau, greniers, p) > Holdings(plateau, greniers, 1 - p)
==============================================================================
