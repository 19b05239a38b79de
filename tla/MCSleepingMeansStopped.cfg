\* No failure is needed.
SPECIFICATION Spec
CONSTANTS
  Branches = {b1}
  MaxBranches = 0
  MaxRunning = 0
  FaultKinds = {}
  MaxFaults = 0
  MaxDeaths = 0
  MaxCrashes = 0
INVARIANT SleepingMeansStopped
