\* Four ids that are used over and over, one failure, any number of stops of sashikid.
SPECIFICATION FairSpec
CONSTANTS
  o1 = o1
  o2 = o2
  o3 = o3
  o4 = o4
  t1 = t1
  Ops <- FourOps
  Targets = {t1}
  KindOf <- EachKind
  TargetOf <- OneTarget
  FaultKinds <- AllFaults
  MaxFaults = 1
INVARIANTS
  TypeOK
  ExclusiveWork
  BusyMeansHeld
  FinishedIsOver
  CleanExit
PROPERTIES
  TargetFreed
  OperationsEnd
