\* One invocation at a time, dying anywhere, over a user's crontab.
SPECIFICATION Spec
CONSTANTS
  app = app
  app2 = app2
  j1 = j1
  j2 = j2
  d1 = d1
  d2 = d2
  d3 = d3
  c1 = c1
  c2 = c2
  Absent = Absent
  Torn = Torn
  Procs = {c1}
  Projects = {app, app2}
  Jobs = {j1, j2}
  Defs = {d1, d2, d3}
  Untranslatable = {d3}
  Manifests <- SerialManifests
  UserLines = {u1}
  MarkerPrefix <- Apart
  ManageChoices = {TRUE}
  Exclusive = TRUE
  HandEdits = TRUE
INVARIANTS NoDanglingEntry
PROPERTIES WriteKeepsOthers ApplyConverges NoopApplyIsInert ImplementsTable
