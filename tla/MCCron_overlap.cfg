\* Two invocations at once, no id a prefix of the other.
SPECIFICATION Spec
CONSTANTS
  app = app
  app2 = app2
  j1 = j1
  j2 = j2
  d1 = d1
  d2 = d2
  d3 = d3
  c1 = c1
  c2 = c2
  Absent = Absent
  Torn = Torn
  Procs = {c1, c2}
  Projects = {app, app2}
  Jobs = {j1}
  Defs = {d1}
  Untranslatable = {}
  Manifests <- OverlapManifests
  UserLines = {u1}
  MarkerPrefix <- Apart
  ManageChoices = {TRUE, FALSE}
  Exclusive = FALSE
  HandEdits = FALSE
INVARIANTS OneBlockPerProject
PROPERTIES FreshWriteKeepsOthers
SYMMETRY Symmetry
