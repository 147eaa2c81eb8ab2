\* Every kind of match: lobby, private, against the house, training, merged by one
\* auto_pair worker; both pockets; a rake that rounds to 0 or to 1; codes that expire and are
\* drawn again.
SPECIFICATION Spec
CONSTANTS
  Players = {p1, p2, p3}
  House = house
  NoOne = noOne
  NoCode = noCode
  Codes = {c1, c2}
  MaxMatches = 2
  Bets = {3, 5}
  Formats = {songo}
  Kinds = {"REAL", "BONUS"}
  RakePercents = {10}
  Modes = {"AI", "TRAINING", "AUTO", "INVITE_CODE"}
  Transfers = {5}
  Workers = {w1}
  StartBalance <- MCStartBalance
  MaxFunding = 5
  PlayerFunds = 5
  HouseFunds = 5
  FundedPockets = {"REAL", "BONUS"}
SYMMETRY Symmetry
INVARIANTS TypeOK EscrowBacked Reconciled NeverStuck
PROPERTIES KeepsTheWager InvitedOnly
