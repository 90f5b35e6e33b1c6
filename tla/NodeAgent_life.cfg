SPECIFICATION FairSpec
CONSTANTS
  s1 = s1
  s2 = s2
  s3 = s3
  t1 = t1
  t2 = t2
  j1 = j1
  j2 = j2
  None = None
  Servers <- OneServer
  Threads <- TwoWorkers
  Jobs <- TwoJobs
  MaxInstalls = 2
  MaxDelete = 1
  MaxCrashes = 2
  Requests = {"create", "reinstall", "start", "stop", "restart", "kill", "purge", "sweep"}
  Faults = {"create", "spawn", "install", "start", "bot", "drop", "wipe"}
  ReuseIds = FALSE
INVARIANT ContainerHasData
INVARIANT OneBuildPerServer
PROPERTY InstallSettles
\* The environment may stop sending requests.
CHECK_DEADLOCK FALSE
