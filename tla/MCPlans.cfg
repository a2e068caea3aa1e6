CONSTANTS
  r1 = r1
  r2 = r2
  r3 = r3
  Refs = {r1, r2, r3}
  NoRef = NoRef
  MaxActive = 2
  LeaseTicks = 1
  Prepaid = {0, 2}
  Limits = {2}
  Charges = {0, 3}
  Deposits = {4}
  AdminBalances = {}
  MaxMonth = 2
  MaxAdjustments = 1
  MaxUnreserved = 0
  Punctual = TRUE
  basic = basic
  plus = plus
  pro = pro
  order = order
  Plans = {basic, plus, pro}
  Rank <- Tiers
  Durations = {2, 3}
  Terms = {1}
  Calls = {order}
  Serial = TRUE
  MaxGrants = 4
  Horizon = 5
SPECIFICATION PlansSpec
SYMMETRY Symmetry
INVARIANTS TimelineSafety
PROPERTIES GrantsWithinBudget ImplementsBank
CHECK_DEADLOCK FALSE
