\* Two branches under max_running = 1; no failure is needed.
SPECIFICATION Spec
CONSTANTS
  Branches = {b1, b2}
  MaxBranches = 0
  MaxRunning = 1
  FaultKinds = {}
  MaxFaults = 0
  MaxDeaths = 0
  MaxCrashes = 0
INVARIANT RunningLimit
