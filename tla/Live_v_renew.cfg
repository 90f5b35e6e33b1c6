SPECIFICATION LiveSpec
CONSTANTS
  sw = sw
  panel = panel
  t1 = t1
  t2 = t2
  Sweepers <- OneSweeper
  Doors <- OneDoor
  Cycle = 2
  Warn = 1
  RenewWindow = 1
  Grace = 2
  Overrun = 1
  TrialEvents = {"renew"}
  MaxPassDeaths = 0
  ClientThreads <- TwoThreads
  Addresses = 2
  Methods = {"GET", "POST"}
  MaxFlips = 0
  MaxLost = 0
  Window = 2
  CloseAt = 2
  Sustain = 3
  CloseFor = 2
  Flood = 2
  e1 = e1
  e2 = e2
  c1 = c1
  c2 = c2
  Engines <- TwoEngines
  Interval = 2
  Limit = 1
  Requests = {"start", "stop", "generate", "save", "erase"}
  Faults = {"upstream", "unnamed", "forbidden", "poll"}
  MaxLosses = 1
  Callers <- TwoCallers
  MaxFetches = 2
PROPERTY RenewalSpares
CHECK_DEADLOCK FALSE
