SPECIFICATION AccountsSpec
CONSTANTS
  q1 = q1
  q2 = q2
  b1 = b1
  sw = sw
  panel = panel
  web = web
  v1 = v1
  v2 = v2
  Workers <- Peers
  Cap = 2
  MaxCodes = 2
  SignupRequests = {"register", "complete", "guess", "discard", "login"}
  MaxErrors = 1
  Browsers <- OneBrowser
  Tabs <- Peers
  SessionCap = 1
  MaxSids = 2
  MaxResets = 1
  MaxTimeouts = 1
  Sweepers <- OneSweeper
  Doors <- BothDoors
  Cycle = 2
  Warn = 1
  RenewWindow = 1
  Grace = 2
  Overrun = 1
  TrialEvents = {"renew", "start", "stop", "slots", "upgrade", "downgrade", "extend"}
  MaxPassDeaths = 1
  Tables <- Peers
  MaxRetired = 2
  Careful = TRUE
  MaxKeys = 3
  MaxScriptDeaths = 2
  Visitors <- TwoVisitors
  GateThreads <- Peers
  Window = 3
  IpMax = 4
  Cooldown = 8
  MaxTracked = 1
  SweepEvery = 3
  LastTick = 9
  Burst = 3
SYMMETRY Symmetry
INVARIANT AccountsTypeOK
INVARIANT CodeOnce
INVARIANT GuessBound
INVARIANT NewestStays
INVARIANT CapBound
INVARIANT EndedStaysDead
INVARIANT ResetHolds
INVARIANT NoStacking
INVARIANT AppReads
INVARIANT DoneIsDone
INVARIANT PassedBound
PROPERTY GraceGiven
PROPERTY QuietRenewalSpares
PROPERTY BlockHolds
CHECK_DEADLOCK FALSE
