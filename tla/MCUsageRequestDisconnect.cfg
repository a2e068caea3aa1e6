CONSTANTS
  r1 = r1
  r2 = r2
  Refs = {r1, r2}
  NoRef = NoRef
  MaxActive = 2
  LeaseTicks = 2
  Prepaid = {0}
  Limits = {2}
  Charges = {0, 3}
  Deposits = {2}
  AdminBalances = {1}
  MaxMonth = 2
  MaxAdjustments = 1
  MaxUnreserved = 0
  Detached = {}
  Interrupted = {r1, r2}
  Repriced = {}
  Attempts = 3
  MaxFaults = 0
  MaxCrashes = 0
SPECIFICATION RequestSpec
INVARIANTS BillableNeverLapses
CHECK_DEADLOCK FALSE
