\* A page of the prototype and the board of a match, each part on its own.
SPECIFICATION PageSpec
CONSTANTS
  Modes = {"PvE", "PvP", "Apprenti", "Tournoi"}
  Rounds = {2}
  MaxMoves = 3
  MaxExtra = 1
  None = None
  Users = {ua, ub}
  MaxResults = 3
  Commentators = {c1, c2}
  Others = {o1}
  Keys = {k1}
  CacheSize = 1
  Cooldown = 2
  MaxBoards = 4
  MaxDepth = 3
  MaxVersion = 3
  MaxTime = 4
  RankTTL = 2
  Iterations = 6
  RolloutDepth = 3
INVARIANTS HistoryReplays ScoredOnce HintIsCurrent FiguresTrue SaveOffered BreakerHolds TableOfOnePlayer TreeAccounts CachesHonest CaughtUp
PROPERTIES MachineTurnEnds
\* A game that is over, or a tree that is full, has nothing left to do.
CHECK_DEADLOCK FALSE
