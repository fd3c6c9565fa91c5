\* One edit by the developer, two sets; two pushes, moved or deleted, runs racing, one re-run.
SPECIFICATION ToolingSpec
CONSTANTS
  t1 = t1
  t2 = t2
  record = record
  p1 = p1
  p2 = p2
  v1 = v1
  v2 = v2
  rc = rc
  one = one
  two = two
  drifted = drifted
  looped = looped
  failing = failing
  Nothing = Nothing
  Tools <- MCTools
  Sources <- MCSources
  Record = record
  Projects <- MCProjects
  Versions <- MCVersions
  MaxEdits = 1
  Commits <- MCCommits
  Says <- MCSays
  TagNames <- MCTagNames
  VersionOf <- MCVersionOf
  MaxPushes = 2
  MaxRetries = 1
SYMMETRY MCSymmetry
INVARIANTS OnlyProvenIsPublished MislabelNeedsTwin DriftHasACause
PROPERTIES SetIsAllOrNothing
CHECK_DEADLOCK FALSE
