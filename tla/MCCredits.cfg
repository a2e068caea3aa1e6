SPECIFICATION FairSpec
CONSTANTS
  u1 = u1
  u2 = u2
  w1 = w1
  w2 = w2
  topUp = topUp
  plan = plan
  giftCard = giftCard
  trial = trial
  Users = {u1, u2}
  Orders = {topUp, plan}
  TopUps = {topUp}
  Codes = {giftCard, trial}
  BalanceCodes = {giftCard}
  Workers = {w1, w2}
  NoRow = NoRow
  NoUser = NoUser
  Amounts = {2}
  OrderTicks = 0
  Terms = {1}
  Limits = {1, 2}
  MaxTime = 1
  MaxFaults = 1
CONSTRAINT OneKind
INVARIANTS CreditedOnce BalanceExplained RedemptionsWithinLimits
PROPERTIES WithinUserLimit Progress
CHECK_DEADLOCK FALSE
