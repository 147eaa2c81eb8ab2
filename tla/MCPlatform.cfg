\* Every game on a small board, with the thresholds in proportion; the house's
\* wallet is the last in the order; realtime matches; virtual money.
SPECIFICATION PlatformSpec
CONSTANTS
  Camp = 3
  GrainesParTrou = 2
  SeuilVictoire = 7
  SeuilRarete = 2
  p1 = p1
  p2 = p2
  Users = {p1, p2}
  House = house
  Matches = {1, 2}
  Rank <- HouseLast
  Procs = {t1, t2, t3}
  Operations = {"vs_house", "single", "join", "merge", "settle", "refund"}
  s1 = s1
  s2 = s2
  MaxMoves = 3
  MaxDrops = 1
  Welcome = 4
  Stakes = {1, 2}
  HouseFunds = 4
  Threshold = 2
  PerTranche = 1
  Cap = 3
INVARIANTS SeedsConserved WinnerHasMore EnginesAgree SearchIsMinimax NoInterlock CapHolds ClosedStaysEmpty
PROPERTIES NeverEmptied EveryTurnEnds
\* A game or a match that is over has nothing left to do.
CHECK_DEADLOCK FALSE
