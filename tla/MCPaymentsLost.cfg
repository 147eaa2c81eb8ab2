\* The callback of a deposit is lost, and no process dies.
SPECIFICATION ServedSpec
CONSTANTS
  Users = {u1}
  MaxIntents = 1
  Amounts = {5}
  Keys = {k1}
  NoKey = noKey
  Threshold = 0
  BonusPercent = 50
  Requests = {r1}
  Verifiers = {v1}
  Providers = {"mobile_money"}
  MaxCrashes = 0
PROPERTIES PaidIsCredited
CHECK_DEADLOCK FALSE
