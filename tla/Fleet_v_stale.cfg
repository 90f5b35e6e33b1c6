SPECIFICATION Spec
CONSTANTS
  s1 = s1
  s2 = s2
  n1 = n1
  n2 = n2
  p1 = p1
  p2 = p2
  None = None
  Servers <- OneServer
  Nodes <- OneNode
  Panels <- OnePanel
  EnvNode = n1
  Quota = 1
  MaxDelete = 1
  Others = TRUE
  Requests = {"deploy", "delete", "sweep"}
  Faults = {}
  MaxOutages = 0
  MaxCrashes = 0
PROPERTY LiveSpared
\* The customers and the operator may stop asking for anything.
CHECK_DEADLOCK FALSE
