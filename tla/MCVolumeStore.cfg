\* One branch, three volumes, two failures, one stop, on every backend.
SPECIFICATION FairSpec
CONSTANTS
  b1 = b1
  Branches = {b1}
  Backends = {"ebs-zfs", "fsx-zfs", "reflink", "apfs"}
  MaxVolumes = 3
  MaxFaults = 2
  MaxStops = 1
INVARIANTS
  TypeOK
  WakesOnItsData
  
PROPERTIES
  OrphansCollected
CHECK_DEADLOCK FALSE
