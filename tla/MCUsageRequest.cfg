CONSTANTS
  r1 = r1
  r2 = r2
  Refs = {r1, r2}
  NoRef = NoRef
  MaxActive = 2
  LeaseTicks = 2
  Prepaid = {0}
  Limits = {2}
  Charges = {0, 3}
  Deposits = {2}
  AdminBalances = {}
  MaxMonth = 1
  MaxAdjustments = 1
  MaxUnreserved = 0
  Detached = {r1}
  Interrupted = {r2}
  Repriced = {r1}
  Attempts = 3
  MaxFaults = 2
  MaxCrashes = 1
SPECIFICATION FairRequestSpec
INVARIANTS ReleasedOnlyUnbilled BillableAccountedFor BilledWhatItCost
PROPERTY CallsSettle
CHECK_DEADLOCK FALSE
