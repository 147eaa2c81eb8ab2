\* A player may open a connection before the server knows that another is gone.
SPECIFICATION Spec
CONSTANTS
  s1 = s1
  s2 = s2
  s3 = s3
  Sockets = {s1, s2, s3}
  Owner <- MCOwner
  Games <- RealtimeGames
  MaxMoves = 3
  Overlap = TRUE
  MaxDrops = 2
  MaxFaults = 0
PROPERTIES PresentNotForced
\* Once the match is over and its tasks have run there is nothing left to do.
CHECK_DEADLOCK FALSE
