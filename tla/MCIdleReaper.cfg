\* Five instances in one run, see MCIdleReaper; time counts in base delays.
\* The system may stop: without passes nothing is left to do.
SPECIFICATION FairSpec
CONSTANTS
  b1 = b1
  b2 = b2
  c1 = c1
  c2 = c2
  c3 = c3
  k1 = k1
  Branches = {b1, b2}
  NoBranch = NoBranch
  Ports = {1, 2}
  NoPort = 0
  Clients = {c1, c2, c3}
  Sources = {k1}
  NoSource = NoSource
  Configs <- Instances
  MaxInFly = 2
  Threshold = 1
  MaxDelay = 2
  Window = 2
  MaxConn = 1
  AgeCap = 2
  LeaseTime = 1
INVARIANTS
  TypeOK
  SlotsExact
  DelayNotEvaded
  
PROPERTIES
  BranchNeedsPassword
  IdleSparesConnected
  LeaseEnds
  IdleStops
CHECK_DEADLOCK FALSE
