\* Deposits, withdrawals and reviews; one process may die at any point; verify races
\* with replayed callbacks, as the sandbox and as a provider that knows its orders.
SPECIFICATION Spec
CONSTANTS
  Users = {u1}
  MaxIntents = 2
  Amounts = {3, 5}
  Keys = {k1}
  NoKey = noKey
  Threshold = 4
  BonusPercent = 50
  Requests = {r1, r2}
  Verifiers = {v1}
  Providers = {"sandbox", "mobile_money"}
  MaxCrashes = 1
SYMMETRY Symmetry
INVARIANTS CountedOnce OnePerKey PayoutsBackedAlive EndsAsDecided
\* When every intent id is used and closed there is nothing left to do.
CHECK_DEADLOCK FALSE
