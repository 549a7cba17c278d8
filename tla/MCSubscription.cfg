SPECIFICATION SubscriptionSpec
CONSTANTS
  MaxSubs = 4
  PaidPlans = {pro, max}
  DefaultPlan = basic
  NoPlan = NoPlan
  Price = 4
  Duration = 2
  RefundMax = 0
  Hooks = {h1, h2}
  MaxRequests = 2
  Horizon = 1
  MaxEvents = 3
  MaxFaults = 1
  MaxSwitches = 1
SYMMETRY HookSymmetry
INVARIANTS RefundCovered PaidFirst NeverWithout
PROPERTIES NoRevival
CHECK_DEADLOCK FALSE
