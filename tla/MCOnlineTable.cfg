CONSTANTS
  h = h
  g = g
  r1 = r1
  none = none
  None = none
  Players = {h, g}
  RoomIds = {r1}
  Hosts = {h}
  Guests = {g}
  Totals = {2}
  Stakes = {TRUE, FALSE}
  MaxManche = 3
  MaxWire = 2
  Fates <- MCFates
  Reals <- MCReals
SPECIFICATION Spec
INVARIANTS ScoresEarned FirstRoundsPaid ToldOfTheEnd MovesAccounted
CONSTRAINTS NothingLeftToPay ThirdRound
CHECK_DEADLOCK FALSE
