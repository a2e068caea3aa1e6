SPECIFICATION FairSpec
CONSTANTS
  Processes = {p1, p2}
  Requests = {r1, r2}
  p1 = p1
  p2 = p2
  r1 = r1
  r2 = r2
  NoRequest = NoRequest
  Places <- Either
  MaxCancels = 1
INVARIANT LeaseSafety
PROPERTIES ListIsTrue CancelStops
CHECK_DEADLOCK FALSE
