SPECIFICATION Spec
CONSTANTS
  schema = schema
  d1 = d1
  d2 = d2
  Schemas = {schema}
  Datas = {d1, d2}
  Threads = 1
  Files <- MCFiles
  Sites <- MCSites
  MaxShots = 2
  MaxFaults = 2
  Pools = {"dbpool", "tank"}
  DefaultPool = "dbpool"
  MaxInits = 3
SYMMETRY MCSymmetry
INVARIANT InitPermitsDaemon
PROPERTIES SnapshotsAtRest SnapshotsWhole
CHECK_DEADLOCK FALSE
