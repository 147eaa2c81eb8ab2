------------------------------ MODULE AlphaBeta ------------------------------
(***************************************************************************)
(* The search of the prototype's worker (workers/aiWorker.ts alphaBeta):   *)
(* alpha-beta with a transposition table, over the rules of Mancala.  The  *)
(* table is threaded through the search: a call takes it and returns it    *)
(* with the score and the move.  Its key is the hash of the board and of   *)
(* whose turn it is, with the difference of the stores; two boards are     *)
(* assumed not to share a hash (utils/zobrist.ts draws 32-bit numbers).    *)
(* Scores are doubled, so that half a point is a number.                   *)
(***************************************************************************)
EXTENDS Integers, Sequences, FiniteSets
LOCAL INSTANCE SequencesExt
LOCAL INSTANCE FiniteSetsExt

CONSTANTS Camp, SeuilVictoire, SeuilRarete,
          TTMaxSize   \* TT_MAX_SIZE: a full table is emptied.

LOCAL INSTANCE Mancala

Infinity == 1000000
NoMove == -1

\* getZobristHash: seeds past 149 are not told apart.
ZobristHash(plateau, joueur) ==
  <<[i \in DOMAIN plateau |-> Min({plateau[i], 149})], joueur>>

StateKey(plateau, greniers, joueur) ==
  <<ZobristHash(plateau, joueur), greniers[0] - greniers[1]>>

EmptyTable == [k \in {} |-> 0]

\* safeSetTT.
SafeSetTT(tt, key, entry) ==
  LET kept == IF Cardinality(DOMAIN tt) >= TTMaxSize THEN EmptyTable ELSE tt
  IN [k \in DOMAIN kept \cup {key} |-> IF k = key THEN entry ELSE kept[k]]

------------------------------------------------------------------------------
\* The value of a position where the search stops.

FinalScore(fin, profondeur, ia) ==
  CASE fin = ia     -> 2 * (1000 + profondeur)
    [] fin = 1 - ia -> -2 * (1000 + profondeur)
    [] OTHER        -> 0

LeafScore(plateau, greniers, ia) ==
  2 * (greniers[ia] - greniers[1 - ia])
    + Quantify(CampHoles(ia), LAMBDA i : plateau[i] \in 5..12)

BlockedScore(plateau, greniers, ia) ==
  LET g(j) == greniers[j] + SumOver(plateau, CampHoles(j))
  IN 2 * (g(ia) - g(1 - ia))

Stops(pg, joueur, profondeur) ==
  \/ CheckFinPartie(pg.plateau, pg.greniers) # -1
  \/ profondeur = 0
  \/ GetCoupsLegaux(pg.plateau, joueur) = {}

StopScore(pg, profondeur, ia) ==
  LET fin == CheckFinPartie(pg.plateau, pg.greniers)
  IN IF fin # -1 THEN FinalScore(fin, profondeur, ia)
     ELSE IF profondeur = 0 THEN LeafScore(pg.plateau, pg.greniers, ia)
     ELSE BlockedScore(pg.plateau, pg.greniers, ia)

After(pg, joueur, move) == AppliquerCoup(pg.plateau, pg.greniers, joueur, move)

\* The moves in the order they are tried: the one the table remembers, then those
\* that win most seeds at once; the sort is stable.
Ordered(pg, joueur, ttMove) ==
  LET key(m) == IF m = ttMove THEN 10000
                ELSE After(pg, joueur, m).greniers[joueur] - pg.greniers[joueur]
  IN SetToSortSeq(GetCoupsLegaux(pg.plateau, joueur),
                  LAMBDA m, n : key(m) > key(n) \/ (key(m) = key(n) /\ m < n))

------------------------------------------------------------------------------
\* Mutant of Probe: an entry of any depth will do.
ProbeAnyDepth(tt, key, profondeur, alpha, beta) ==
  IF key \in DOMAIN tt /\ tt[key].flag = "EXACT"
    THEN [hit |-> TRUE, alpha |-> alpha, beta |-> beta,
          move |-> tt[key].bestMove, score |-> tt[key].score]
    ELSE [hit |-> FALSE, alpha |-> alpha, beta |-> beta, move |-> NoMove, score |-> 0]

\* What the table says of a position: an answer, or a narrower window.
Probe(tt, key, profondeur, alpha, beta) ==
  IF key \notin DOMAIN tt
    THEN [hit |-> FALSE, alpha |-> alpha, beta |-> beta, move |-> NoMove, score |-> 0]
    ELSE LET e   == tt[key]
             a   == IF e.flag = "LOWER" THEN Max({alpha, e.score}) ELSE alpha
             b   == IF e.flag = "UPPER" THEN Min({beta, e.score}) ELSE beta
         IN IF e.depth < profondeur
              THEN [hit |-> FALSE, alpha |-> alpha, beta |-> beta, move |-> e.bestMove, score |-> 0]
              ELSE [hit |-> e.flag = "EXACT" \/ a >= b, alpha |-> a, beta |-> b,
                    move |-> e.bestMove, score |-> e.score]

\* The flag of a value.  The window is read as the loop leaves it: a minimising
\* node has lowered high to its own value, and files an exact value as a lower
\* bound.
Flag(value, low, high) ==
  IF value <= low THEN "UPPER" ELSE IF value >= high THEN "LOWER" ELSE "EXACT"

\* Before the first move, and after one: the best value and move, the window and
\* the table.
Start(tt, coups, window, max) ==
  [tt |-> tt, score |-> IF max THEN -Infinity ELSE Infinity, bestMove |-> coups[1],
   alpha |-> window.alpha, beta |-> window.beta]

Improved(found, move, below, max) ==
  LET better == IF max THEN below.score > found.score ELSE below.score < found.score
  IN [tt       |-> below.tt,
      score    |-> IF better THEN below.score ELSE found.score,
      bestMove |-> IF better THEN move ELSE found.bestMove,
      alpha    |-> IF max THEN Max({found.alpha, below.score}) ELSE found.alpha,
      beta     |-> IF max THEN found.beta ELSE Min({found.beta, below.score})]

\* What was found is filed, and is the answer.
Filed(key, profondeur, alpha, found) ==
  [tt       |-> SafeSetTT(found.tt, key,
                  [depth |-> profondeur, score |-> found.score, bestMove |-> found.bestMove,
                   flag |-> Flag(found.score, alpha, found.beta)]),
   score    |-> found.score,
   bestMove |-> found.bestMove]

RECURSIVE Search(_, _, _, _, _, _, _, _)
RECURSIVE TryMoves(_, _, _, _, _, _, _)

\* The loop over the moves; beta <= alpha ends it.
TryMoves(moves, found, pg, joueur, profondeur, max, ia) ==
  IF moves = <<>> \/ found.beta <= found.alpha THEN found
  ELSE TryMoves(Tail(moves),
                Improved(found, Head(moves),
                         Search(found.tt, After(pg, joueur, Head(moves)), 1 - joueur,
                                profondeur - 1, found.alpha, found.beta, ~max, ia),
                         max),
                pg, joueur, profondeur, max, ia)

\* The position's answer, given what the table says of it and its moves in order.
Resolved(tt, key, probe, coups, pg, joueur, profondeur, max, ia) ==
  CASE probe.hit -> [tt |-> tt, score |-> probe.score, bestMove |-> probe.move]
    [] ~probe.hit /\ Stops(pg, joueur, profondeur) ->
         [tt |-> tt, score |-> StopScore(pg, profondeur, ia), bestMove |-> NoMove]
    [] OTHER ->
         Filed(key, profondeur, probe.alpha,
               TryMoves(coups, Start(tt, coups, probe, max), pg, joueur, profondeur, max, ia))

\* alphaBeta.
Search(tt, pg, joueur, profondeur, alpha, beta, max, ia) ==
  LET key   == StateKey(pg.plateau, pg.greniers, joueur)
      probe == Probe(tt, key, profondeur, alpha, beta)
  IN Resolved(tt, key, probe, Ordered(pg, joueur, probe.move), pg, joueur, profondeur, max, ia)

------------------------------------------------------------------------------
\* What a search should find: the value of a position, without window or table.
RECURSIVE Minimax(_, _, _, _)
Minimax(pg, joueur, profondeur, ia) ==
  LET value(Best(_)) == Best({Minimax(After(pg, joueur, m), 1 - joueur, profondeur - 1, ia) :
                               m \in GetCoupsLegaux(pg.plateau, joueur)})
  IN CASE Stops(pg, joueur, profondeur)                  -> StopScore(pg, profondeur, ia)
       [] ~Stops(pg, joueur, profondeur) /\ joueur = ia -> value(Max)
       [] OTHER                                          -> value(Min)

\* A call from the page: the whole window, maximising for the player to move.
Calculate(tt, pg, joueur, profondeur) ==
  Search(tt, pg, joueur, profondeur, -Infinity, Infinity, TRUE, joueur)

\* The Grand Maitre: depth after depth, the table emptied before the first one
\* only, the last move found (useAITurn.ts).
RECURSIVE Deepen(_, _, _)
Deepen(pg, joueur, d) ==
  Calculate(IF d = 1 THEN EmptyTable ELSE Deepen(pg, joueur, d - 1).tt, pg, joueur, d)
==============================================================================
