-------------------------------- MODULE MCPage ---------------------------------
(***************************************************************************)
(* The parts of a page for TLC.  They share no state that their modules    *)
(* keep, so their steps are not interleaved: part is the one a behaviour   *)
(* is of, the others stay as they begin.                                   *)
(***************************************************************************)
EXTENDS PageParts

CONSTANTS Iterations, RolloutDepth

VARIABLES tree, part

Position(a, b, c, d, e, f, sud, nord) ==
  [plateau  |-> [i \in 0..5 |-> <<a, b, c, d, e, f>>[i + 1]],
   greniers |-> [j \in 0..1 |-> <<sud, nord>>[j + 1]], joueur |-> 1]

\* Positions of the small board: the opening, endgames, a camp without a move, a
\* starved opponent, and games already over.
Positions ==
  {Position(2, 2, 2, 2, 2, 2, 0, 0), Position(1, 1, 1, 1, 1, 1, 2, 2),
   Position(0, 2, 1, 1, 0, 3, 2, 1), Position(1, 1, 0, 2, 3, 0, 3, 2),
   Position(0, 0, 0, 1, 1, 1, 3, 3), Position(0, 0, 1, 3, 0, 3, 3, 1),
   Position(1, 2, 1, 1, 2, 1, 3, 0), Position(2, 1, 3, 0, 0, 0, 3, 3)}

Search == INSTANCE Mcts WITH Camp <- 3, SeuilVictoire <- 7, SeuilRarete <- 2

Parts == {"local", "data", "saved", "master", "ai", "search", "ranks", "served"}

PageInit ==
  /\ part \in Parts
  /\ Init /\ LocalInit /\ Saved!Init /\ Master!Init /\ Ai!Init /\ Search!Init
  /\ Ranks!Init /\ Served!Init
  /\ part # "data" => page.starting = None
  /\ part # "saved" => cloud = {} /\ ~store.local
  /\ part # "search" => tree[1].state = Position(2, 2, 2, 2, 2, 2, 0, 0)

PageNext ==
  /\ \/ part = "local" /\ LocalNext
     \/ part = "data" /\ Next
     \/ part = "saved" /\ Saved!Next
     \/ part = "master" /\ Master!Next
     \/ part = "ai" /\ Ai!Next
     \/ part = "search" /\ Search!Iterate
     \/ part = "ranks" /\ Ranks!Next
     \/ part = "served" /\ Served!Next
  /\ part # "local" => UNCHANGED localVars
  /\ part # "data" => UNCHANGED <<docs, page, ghost>>
  /\ part # "saved" => UNCHANGED <<cloud, store>>
  /\ part # "master" => UNCHANGED <<api, calls>>
  /\ part # "ai" => UNCHANGED <<desk, worker>>
  /\ part # "search" => UNCHANGED tree
  /\ part # "ranks" => UNCHANGED <<clock, list, rank>>
  /\ part # "served" => UNCHANGED <<match, boards, inbox>>
  /\ UNCHANGED part

pageVars == <<app, save, docs, page, ghost, cloud, store, api, calls, desk, worker,
              tree, clock, list, rank, match, boards, inbox, part>>

\* The fairness of LocalGame.
PageFairness ==
  /\ WF_localVars(part = "local" /\ EndMove)
  /\ WF_localVars(part = "local" /\ MachineAnswers)
  /\ WF_localVars(part = "local" /\ TimeUp)

PageSpec == PageInit /\ [][PageNext]_pageVars /\ PageFairness

------------------------------------------------------------------------------
\* The other properties are UserData's, LocalGame's and those of PageParts.

\* The tree search keeps its accounts.
TreeAccounts == part = "search" => Search!TreeAccounts
==============================================================================
