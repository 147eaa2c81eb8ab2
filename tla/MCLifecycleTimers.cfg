\* Every kind of match, one connection at a time, tasks lost and processes dead.
SPECIFICATION Spec
CONSTANTS
  s1 = s1
  s2 = s2
  s3 = s3
  Sockets = {s1, s3}
  Owner <- MCOwner
  Games <- AllGames
  MaxMoves = 3
  Overlap = FALSE
  MaxDrops = 2
  MaxFaults = 1
INVARIANTS TimerArmed
PROPERTIES TurnGetsItsTime GraceIsWhole PresentNotForced OverIsOver
\* Once the match is over and its tasks have run there is nothing left to do.
CHECK_DEADLOCK FALSE
