SPECIFICATION PanelSpec
CONSTANTS
  s1 = s1
  s2 = s2
  n1 = n1
  p1 = p1
  p2 = p2
  None = None
  Servers <- TwoServers
  Nodes <- OneNode
  Panels <- Peers
  EnvNode = n1
  Quota = 1
  MaxDelete = 1
  Others = FALSE
  Requests = {"deploy", "delete", "remove"}
  Faults = {"create", "timeout", "drop"}
  MaxOutages = 1
  MaxCrashes = 1
  ClientThreads <- Peers
  Addresses = 2
  Methods = {"GET", "POST", "create"}
  MaxFlips = 1
  MaxLost = 1
  Calls <- Peers
  Asked = {"start", "stop", "restart", "image", "startup", "rebuild"}
  MaxFaults = 1
SYMMETRY Symmetry
INVARIANT PanelTypeOK
INVARIANT QuotaHolds
INVARIANT WriteOnce
INVARIANT FailsAsked
INVARIANT PowerSettles
CHECK_DEADLOCK FALSE
