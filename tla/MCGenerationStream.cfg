SPECIFICATION StreamFairSpec
CONSTANTS
  c1 = c1
  Clients = {c1}
  Starter = c1
  MaxEvents = 3
  ReadLimit = 2
  MaxResumes = 2
  Moderation = {"barrier", "late"}
  MaxSeq = 4
INVARIANTS StreamSafety NothingWithdrawnRetained
PROPERTY ResumesEnd
CHECK_DEADLOCK FALSE
