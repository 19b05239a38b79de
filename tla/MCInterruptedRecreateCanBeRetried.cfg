\* One branch and one stop of sashikid; no failure is needed.
SPECIFICATION Spec
CONSTANTS
  Branches = {b1}
  MaxBranches = 0
  MaxRunning = 0
  FaultKinds = {}
  MaxFaults = 0
  MaxDeaths = 0
  MaxCrashes = 1
INVARIANT InterruptedRecreateCanBeRetried
