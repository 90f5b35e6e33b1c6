SPECIFICATION FairSpec
CONSTANTS
  e1 = e1
  e2 = e2
  Engines <- OneEngine
  Interval = 2
  Limit = 1
  Requests = {}
  Faults = {"poll"}
  MaxLosses = 0
PROPERTY Refreshes
