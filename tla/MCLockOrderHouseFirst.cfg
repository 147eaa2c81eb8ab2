\* The wallet of the house has the least id; ids are random.
SPECIFICATION LocksSpec
CONSTANTS
  p1 = p1
  p2 = p2
  Users = {p1, p2}
  House = house
  Matches = {1, 2}
  Procs = {t1, t2, t3}
  Rank <- HouseFirst
  Operations = {"vs_house", "single", "join", "merge", "settle", "refund"}
SYMMETRY Symmetry
INVARIANTS NoInterlock
