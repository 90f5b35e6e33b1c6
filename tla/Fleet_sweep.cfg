SPECIFICATION FairSpec
CONSTANTS
  s1 = s1
  s2 = s2
  n1 = n1
  n2 = n2
  p1 = p1
  p2 = p2
  None = None
  Servers <- OneServer
  Nodes <- TwoNodes
  Panels <- OnePanel
  EnvNode = n1
  Quota = 1
  MaxDelete = 1
  Others = TRUE
  Requests = {"deploy", "delete", "account", "remove", "clear", "sweep"}
  Faults = {"create", "timeout", "drop", "queue"}
  MaxOutages = 1
  MaxCrashes = 1
PROPERTY Spared
PROPERTY OrphanSettles
\* The customers and the operator may stop asking for anything.
CHECK_DEADLOCK FALSE
