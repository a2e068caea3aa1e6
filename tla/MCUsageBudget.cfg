CONSTANTS
  r1 = r1
  r2 = r2
  r3 = r3
  Refs = {r1, r2, r3}
  NoRef = NoRef
  MaxActive = 2
  LeaseTicks = 1
  Prepaid = {0, 2}
  Limits = {2}
  Charges = {1, 3}
  Deposits = {3}
  AdminBalances = {1}
  MaxMonth = 2
  MaxAdjustments = 1
  MaxUnreserved = 1
SPECIFICATION Spec
SYMMETRY Symmetry
CONSTRAINT ThreeCalls
INVARIANTS ChargedOnce AuditTrail BilledIsPaid CreditWithinPlan
PROPERTIES GrantWithinBudget ImplementsLeasePool
CHECK_DEADLOCK FALSE
