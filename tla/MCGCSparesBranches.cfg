\* The question of GCSparesBranches alone.
SPECIFICATION Spec
CONSTANTS
  b1 = b1
  Branches = {b1}
  Backends = {"ebs-zfs"}
  MaxVolumes = 2
  MaxFaults = 0
  MaxStops = 0
PROPERTY GCSparesBranches
CHECK_DEADLOCK FALSE
