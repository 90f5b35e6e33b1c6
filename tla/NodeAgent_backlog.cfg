SPECIFICATION BacklogSpec
CONSTANTS
  s1 = s1
  s2 = s2
  s3 = s3
  t1 = t1
  t2 = t2
  j1 = j1
  j2 = j2
  None = None
  Servers <- ThreeServers
  Threads <- TwoWorkers
  Jobs <- OneJob
  MaxInstalls = 1
  MaxDelete = 1
  MaxCrashes = 1
  Requests = {"start", "purge", "rebuild", "reconcile", "sweep"}
  Faults = {"create", "start", "drop", "wipe"}
  ReuseIds = FALSE
INVARIANT LossRecorded
PROPERTY OrphansDrain
\* The owners may stop sending requests.
CHECK_DEADLOCK FALSE
