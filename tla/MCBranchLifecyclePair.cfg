\* Two branches that share max_running = 1; the commands that fail after
\* having changed something, and the ones that break off a recreate.
SPECIFICATION Spec
CONSTANTS
  Branches = {b1, b2}
  MaxBranches = 0
  MaxRunning = 1
  FaultKinds <- AllFaults
  MaxFaults = 1
  MaxDeaths = 0
  MaxCrashes = 1
SYMMETRY BranchSymmetry
INVARIANTS
  LifecycleInv
PROPERTIES
  AdmissionRespected
