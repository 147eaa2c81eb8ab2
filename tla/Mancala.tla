------------------------------- MODULE Mancala -------------------------------
(***************************************************************************)
(* The rules a second time, as the prototype of docs/PoC/Mancala-main has  *)
(* them: utils/gameLogic.ts, which its server, its pages and its worker    *)
(* share, and utils/gameAnimation.ts, which plays the same move one seed   *)
(* after the other on the screen.  The prototype was translated by hand    *)
(* into rules.py (module Songo); MCSongo checks that the two agree.  A     *)
(* loop that drops seeds is a fold over the holes it visits, in order.     *)
(* Both engines are checked at the size Camp; the prototype writes case 7  *)
(* and the first holes as the literals 6, 13, 0 and 7.                     *)
(***************************************************************************)
EXTENDS Integers, Sequences
LOCAL INSTANCE SequencesExt
LOCAL INSTANCE FiniteSetsExt

CONSTANTS
  Camp,           \* TAILLE_CAMP.
  SeuilVictoire,  \* SEUIL_VICTOIRE.
  SeuilRarete     \* SEUIL_RARETE.

TotalTrous == 2 * Camp
GrainesBoucle == TotalTrous - 1

DebutCamp(joueur) == IF joueur = 0 THEN 0 ELSE Camp
AdvStart(joueur) == DebutCamp(1 - joueur)
InAdvCamp(i, joueur) == i \in AdvStart(joueur)..(AdvStart(joueur) + Camp - 1)
SeventhHole(joueur) == DebutCamp(joueur) + Camp - 1

SumOver(plateau, holes) == MapThenSumSet(LAMBDA i : plateau[i], holes)
CampHoles(joueur) == DebutCamp(joueur)..(DebutCamp(joueur) + Camp - 1)

------------------------------------------------------------------------------
\* getDestinationHole, shown as the preview of a move.
GetDestinationHole(move, graines, joueur) ==
  IF graines > GrainesBoucle
    THEN AdvStart(joueur) + ((graines - GrainesBoucle - 1) % Camp)
    ELSE (move + graines) % TotalTrous

\* The holes the seeds of a move fall in, in order: a lap, then the opponent's
\* camp over and over.
Path(move, graines, joueur) ==
  [k \in 1..graines |->
     IF k <= GrainesBoucle THEN (move + k) % TotalTrous
                           ELSE AdvStart(joueur) + ((k - GrainesBoucle - 1) % Camp)]

EstFamine(plateau, joueur) == SumOver(plateau, CampHoles(1 - joueur)) = 0

\* simulerNourrissage: the seeds past a lap count without a look at their hole.
SimulerNourrissage(plateau, move, joueur) ==
  LET graines == plateau[move]
      lap     == SubSeq(Path(move, graines, joueur), 1,
                        IF graines > GrainesBoucle THEN GrainesBoucle ELSE graines)
      beyond  == IF graines > GrainesBoucle THEN graines - GrainesBoucle ELSE 0
  IN Len(SelectSeq(lap, LAMBDA i : InAdvCamp(i, joueur))) + beyond

Trap(plateau, move, joueur) == move = SeventhHole(joueur) /\ plateau[move] \in {1, 2}

\* The moves that feed a starved opponent: those of a camp's worth or more, or
\* else those that feed most.
Feeding(plateau, joueur, base) ==
  LET count(m)     == SimulerNourrissage(plateau, m, joueur)
      nourrissants == {m \in base : count(m) > 0}
      priorite7    == {m \in nourrissants : count(m) >= Camp}
      maxFeed      == Max({count(m) : m \in nourrissants})
  IN CASE nourrissants = {} -> {}
       [] priorite7 # {}    -> priorite7
       [] OTHER             -> {m \in nourrissants : count(m) = maxFeed}

\* Mutant of GetCoupsLegaux: a camp's worth of food has no priority.
CoupsLegauxMostOnly(plateau, joueur) ==
  LET base     == {m \in CampHoles(joueur) : plateau[m] > 0}
      count(m) == SimulerNourrissage(plateau, m, joueur)
  IN IF EstFamine(plateau, joueur)
       THEN {m \in base : count(m) > 0 /\ \A n \in base : count(n) <= count(m)}
       ELSE {m \in base : ~Trap(plateau, m, joueur)}

GetCoupsLegaux(plateau, joueur) ==
  LET base == {m \in CampHoles(joueur) : plateau[m] > 0}
  IN IF EstFamine(plateau, joueur)
       THEN Feeding(plateau, joueur, base)
       ELSE {m \in base : ~Trap(plateau, m, joueur)}

------------------------------------------------------------------------------
\* A move.

Drop(plateau, i) == [plateau EXCEPT ![i] = @ + 1]

\* The board after the first n seeds of a move have been dropped.
SownUpTo(plateau, joueur, move, n) ==
  FoldLeft(Drop, [plateau EXCEPT ![move] = 0],
           SubSeq(Path(move, plateau[move], joueur), 1, n))

\* The capture loop: back from the last hole as long as the hole is the
\* opponent's and holds 2 to 4 seeds, which are taken in that order.
CaptureRun(plateau, joueur, last) ==
  LET back[i \in 0..TotalTrous] ==
        LET hole == (last - i + TotalTrous) % TotalTrous
        IN IF i < TotalTrous /\ InAdvCamp(hole, joueur) /\ plateau[hole] \in 2..4
             THEN <<hole>> \o back[i + 1]
             ELSE <<>>
  IN IF InAdvCamp(last, joueur) /\ last # AdvStart(joueur) THEN back[0] ELSE <<>>

\* What is captured once solidarity has been looked at: not all that is there.
Captures(plateau, joueur, last) ==
  LET run          == CaptureRun(plateau, joueur, last)
      totalCapture == SumOver(plateau, {run[k] : k \in 1..Len(run)})
      totalAdv     == SumOver(plateau, CampHoles(1 - joueur))
  IN IF totalAdv = totalCapture THEN <<>> ELSE run

Taken(pg, joueur, c) ==
  [plateau  |-> [pg.plateau EXCEPT ![c] = 0],
   greniers |-> [pg.greniers EXCEPT ![joueur] = @ + pg.plateau[c]]]

LastHole(plateau, joueur, move) ==
  Path(move, plateau[move], joueur)[plateau[move]]

Trapped(plateau, greniers, joueur, move) ==
  [plateau  |-> [plateau EXCEPT ![move] = 0],
   greniers |-> [greniers EXCEPT ![1 - joueur] = @ + plateau[move]]]

\* appliquerCoup.
AppliquerCoup(plateau, greniers, joueur, move) ==
  LET sown == SownUpTo(plateau, joueur, move, plateau[move])
      last == LastHole(plateau, joueur, move)
  IN IF Trap(plateau, move, joueur)
       THEN Trapped(plateau, greniers, joueur, move)
       ELSE FoldLeft(LAMBDA pg, c : Taken(pg, joueur, c),
                     [plateau |-> sown, greniers |-> greniers],
                     Captures(sown, joueur, last))

\* checkFinPartie: the winner, 2 for a draw, -1 while the game goes on.
CheckFinPartie(plateau, greniers) ==
  LET g(j) == greniers[j] + SumOver(plateau, CampHoles(j))
      rest == SumOver(plateau, 0..(TotalTrous - 1))
  IN IF greniers[0] >= SeuilVictoire THEN 0
     ELSE IF greniers[1] >= SeuilVictoire THEN 1
     ELSE IF rest >= SeuilRarete THEN -1
     ELSE IF g(0) > g(1) THEN 0 ELSE IF g(1) > g(0) THEN 1 ELSE 2

------------------------------------------------------------------------------
\* appliquerCoupAnime: the boards and stores it puts on the screen, one after the
\* other.  A session that ends in the middle cuts the sequence short (module
\* LocalGame).

\* Mutant of CaptureFrames: the store is credited after the hole is emptied.
CaptureFramesLate(plateau, greniers, joueur, run) ==
  [k \in 1..Len(run) |->
     FoldLeft(LAMBDA pg, c : [Taken(pg, joueur, c) EXCEPT !.greniers[joueur] =
                                @ - pg.plateau[c]],
              [plateau |-> plateau, greniers |-> greniers], SubSeq(run, 1, k))]

CaptureFrames(plateau, greniers, joueur, run) ==
  [k \in 1..Len(run) |->
     FoldLeft(LAMBDA pg, c : Taken(pg, joueur, c),
              [plateau |-> plateau, greniers |-> greniers], SubSeq(run, 1, k))]

Frames(plateau, greniers, joueur, move) ==
  LET graines == plateau[move]
      sown(n) == [plateau  |-> SownUpTo(plateau, joueur, move, n),
                  greniers |-> greniers]
      run     == Captures(sown(graines).plateau, joueur,
                          LastHole(plateau, joueur, move))
  IN IF Trap(plateau, move, joueur)
       THEN <<Trapped(plateau, greniers, joueur, move)>>
       ELSE [n \in 1..(graines + 1) |-> sown(n - 1)]
              \o CaptureFrames(sown(graines).plateau, greniers, joueur, run)

==============================================================================
