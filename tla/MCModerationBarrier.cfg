SPECIFICATION FairBarrierSpec
CONSTANTS
  i1 = i1
  o1 = o1
  InputTasks = {i1}
  OutputTasks = {o1}
  MayCrash = TRUE
  MaxFaults = 3
INVARIANTS BarrierSafety
PROPERTIES BarrierProgress KnownBlocksConverge
CHECK_DEADLOCK FALSE
