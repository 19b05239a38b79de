\* One snapshot besides the imported one, two calls at a time, one branch.
SPECIFICATION FairSpec
CONSTANTS
  d = d
  s1 = s1
  t1 = t1
  t2 = t2
  b1 = b1
  NoSnap = NoSnap
  Snaps <- TwoSnaps
  Default = d
  Tasks = {t1, t2}
  Branches = {b1}
  RequireMasked = TRUE
  RequireValidated = TRUE
INVARIANTS
  TypeOK
  RowsTellTheTruth
  NoStrayValidator
PROPERTIES
  CurrentKept
  PublishPolicy
  RefreshEnds
