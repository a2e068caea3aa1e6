SPECIFICATION FilesSpec
CONSTANTS
  f1 = f1
  f2 = f2
  w1 = w1
  w2 = w2
  NoWorker = NoWorker
  Files = {f1, f2}
  Workers = {w1, w2}
  MaxRetries = 1
  QueueLimit = 1
  MaxFaults = 2
  MaxCrashes = 1
  MaxLapses = 2
  m1 = m1
  m2 = m2
  host = host
  nohost = nohost
  j1 = j1
  j2 = j2
  admin = admin
  Models = {m1, m2}
  Hosts = {host, nohost}
  FirstModel = m1
  FirstHost = host
  DefaultModel = m2
  NoHost = nohost
  Legacy = Legacy
  Jobs = {j1, j2}
  Patches = {admin}
  MaxPatches = 2
  MaxDeletions = 1
  MaxFailures = 1
  MaxRestarts = 1
  Unsigned = Unsigned
  NoChunks = NoChunks
CONSTRAINTS FewFiles FewDisturbances FewJobs
INVARIANTS QueueSafety IndexSafety
PROPERTIES ReadyIsFinal NoFileIsStuck
CHECK_DEADLOCK FALSE
