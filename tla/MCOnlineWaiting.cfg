CONSTANTS
  h = h
  g = g
  r1 = r1
  none = none
  None = none
  Players = {h, g}
  RoomIds = {r1}
  Hosts = {h}
  Guests = {g}
  Totals = {1, 3}
  Stakes = {TRUE, FALSE}
  MaxManche = 3
  MaxWire = 2
  Fates <- MCFates
  Reals <- JustPages
SPECIFICATION Spec
INVARIANT WaitingRoomLives
CHECK_DEADLOCK FALSE
