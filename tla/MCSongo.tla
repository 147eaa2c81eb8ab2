------------------------------- MODULE MCSongo -------------------------------
(***************************************************************************)
(* Songo on a small board, whose size and thresholds a .cfg gives, beside  *)
(* the prototype's engine on the same positions.                           *)
(***************************************************************************)
EXTENDS Songo, Sequences

Poc == INSTANCE Mancala

\* The table of the search is so small that it is emptied in mid-search.
Ai == INSTANCE AlphaBeta WITH TTMaxSize <- 8

\* The positions and the depth the search is checked at.
Endgame == Seeds(plateau, Holes) \in 4..7
Depth == 4

PocFin == Poc!CheckFinPartie(plateau, greniers)

\* On every position a game can reach, rules.py and
\* gameLogic.ts allow the same moves, make the same boards and stores of them,
\* show the same hole as the last one, and end the game alike.
RulesAgree ==
  /\ Poc!GetCoupsLegaux(plateau, joueur) = GetCoupsLegaux(plateau, joueur)
  /\ \A m \in GetCoupsLegaux(plateau, joueur) :
       /\ Poc!AppliquerCoup(plateau, greniers, joueur, m)
            = AppliquerCoup(plateau, greniers, joueur, m)
       /\ Poc!GetDestinationHole(m, plateau[m], joueur)
            = GetDestinationHole(m, plateau[m], joueur)
  /\ PocFin = -1 <=> Won(greniers) = {} /\ ~Rare(plateau)
  /\ PocFin # -1 =>
       Winner(plateau, greniers) = IF PocFin = 2 THEN {} ELSE {PocFin}

\* The animation ends on the board that the server and the AI compute at once,
\* and no frame of it shows a seed twice: what is on the board and in the stores
\* only grows towards the whole.
AnimationAgrees ==
  \A m \in GetCoupsLegaux(plateau, joueur) :
    LET frames   == Poc!Frames(plateau, greniers, joueur, m)
        shown(k) == Seeds(frames[k].plateau, Holes)
                      + frames[k].greniers[0] + frames[k].greniers[1]
    IN /\ frames[Len(frames)] = AppliquerCoup(plateau, greniers, joueur, m)
       /\ shown(Len(frames)) = Total
       /\ \A k \in 1..(Len(frames) - 1) : shown(k) <= shown(k + 1)

\* The two engines agree, and so does what the prototype shows of a move.
EnginesAgree == RulesAgree /\ AnimationAgrees

\* Neither the window nor the table of the search changes what it finds: deepened
\* step by step with the table kept from one depth to the next, as for the Grand
\* Maitre, it gives the value of the plain minimax at each depth, although the
\* table also answers with what was stored at another place of the tree, as a
\* bound or in an earlier pass; and the move it returns is one of that value.
SearchIsMinimax ==
  Endgame /\ ~Over =>
    \A d \in 1..Depth :
      LET pg    == [plateau |-> plateau, greniers |-> greniers]
          found == Ai!Deepen(pg, joueur, d)
      IN /\ found.score = Ai!Minimax(pg, joueur, d, joueur)
         /\ found.bestMove \in GetCoupsLegaux(plateau, joueur)
         /\ found.score = Ai!Minimax(AppliquerCoup(plateau, greniers, joueur, found.bestMove),
                                     1 - joueur, d - 1, joueur)
==============================================================================
