------------------------------ MODULE PageParts -------------------------------
(***************************************************************************)
(* The parts of a page that share no state with each other, nor with its   *)
(* accounts and its game: the saved games, the commentator, the worker,    *)
(* the ranking, and the board of a match.                                  *)
(***************************************************************************)
EXTENDS UserData, LocalGame

CONSTANTS Commentators, Others, Keys, CacheSize, Cooldown,
          MaxBoards, MaxDepth, MaxVersion, MaxTime, RankTTL

VARIABLES cloud, store, api, calls, desk, worker, clock, list, rank, match, boards, inbox

Saved == INSTANCE SavedGame
Master == INSTANCE Gemini
Ai == INSTANCE Engine
Ranks == INSTANCE Ranking
Served == INSTANCE BoardPage

------------------------------------------------------------------------------
\* The properties of the parts; each is explained where it is stated.

\* A game is offered for loading when there is one to load.
SaveOffered == Saved!SaveOffered

\* An open breaker lets out no more than the calls asleep when it opened.
BreakerHolds == Master!BreakerHolds

\* The transposition table serves one player at a time.
TableOfOnePlayer == Ai!TableOfOnePlayer

\* A cache of the ranking shows nothing older than its time to live.
CachesHonest == Ranks!CachesHonest

\* A connected board shows the latest position sent to anyone.
CaughtUp == Served!CaughtUp
==============================================================================
