SPECIFICATION FairSpec
CONSTANTS
  c1 = c1
  c2 = c2
  w1 = w1
  w2 = w2
  Workers = {w1, w2}
  Schedules <- OnceOrUntil
  Grace = 1
  Delays = {1}
  Consents = {c1, c2}
  Legacy = {}
  Horizon = 4
  MaxCommands = 2
  MaxCrashes = 1
  Stalls = TRUE
CONSTRAINT FewCommands
INVARIANT ReminderSafety
PROPERTIES ClaimedIsCurrent RemindersProgress
CHECK_DEADLOCK FALSE
