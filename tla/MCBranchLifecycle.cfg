\* One branch, every command may fail as a whole, twice; two stops of sashikid.
SPECIFICATION FairSpec
CONSTANTS
  Branches = {b1}
  MaxBranches = 0
  MaxRunning = 0
  FaultKinds <- WholeFaults
  MaxFaults = 2
  MaxDeaths = 1
  MaxCrashes = 2
INVARIANTS
  TypeOK
  RowCoversVolume
  LiveRowHasInit
  NoStrandedTransition
  PromotedSnapshotKept
  InitFromCleanShutdown
  CloneFailureRestores
PROPERTIES
  OldDataOutlivesReplacement
  TransitionsEnd
  ImplementsContract
