SPECIFICATION TodoSpec
CONSTANTS
  phone = phone
  tablet = tablet
  s1 = s1
  s2 = s2
  Devices = {phone, tablet}
  StepNames = {s1}
  Steps = {s1, s2}
  MaxOcc = 1
  MaxOps = 6
  MaxMade = 3
  MaxLost = 1
CONSTRAINTS FewLostRemovals PhoneFirst
PROPERTIES OperationsAreSafe SyncIsSafe DevicesAgree
CHECK_DEADLOCK FALSE
