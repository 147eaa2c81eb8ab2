\* The process dies between initiate_payout and the commit of withdraw.
SPECIFICATION Spec
CONSTANTS
  Users = {u1}
  MaxIntents = 2
  Amounts = {5}
  Keys = {k1}
  NoKey = noKey
  Threshold = 0
  BonusPercent = 50
  Requests = {r1}
  Verifiers = {v1}
  Providers = {"mobile_money"}
  MaxCrashes = 1
INVARIANTS PayoutsBacked
CHECK_DEADLOCK FALSE
