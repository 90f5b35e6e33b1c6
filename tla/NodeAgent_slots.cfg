SPECIFICATION Spec
CONSTANTS
  s1 = s1
  s2 = s2
  s3 = s3
  t1 = t1
  t2 = t2
  j1 = j1
  j2 = j2
  None = None
  Servers <- TwoServers
  Threads <- TwoWorkers
  Jobs <- TwoJobs
  MaxInstalls = 1
  MaxDelete = 1
  MaxCrashes = 1
  Requests = {"create", "reinstall", "purge", "remove"}
  Faults = {"create", "spawn", "install"}
  ReuseIds = FALSE
INVARIANT TypeOK
INVARIANT SlotAccounting
INVARIANT InstallCeiling
INVARIANT BuildIsReported
PROPERTY ImplementsPool
\* The environment may stop sending requests.
CHECK_DEADLOCK FALSE
