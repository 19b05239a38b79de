\* A candidate deleted between its validation and its publication.
SPECIFICATION FairSpec
CONSTANTS
  d = d
  s1 = s1
  t1 = t1
  t2 = t2
  b1 = b1
  NoSnap = NoSnap
  Snaps <- TwoSnaps
  Default = d
  Tasks = {t1, t2}
  Branches = {}
  RequireMasked = TRUE
  RequireValidated = TRUE
PROPERTY PublishedIsRegistered
CHECK_DEADLOCK FALSE
