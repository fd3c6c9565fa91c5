\* As MCLaunchd: is an enabled job loaded after apply?
SPECIFICATION Spec
CONSTANTS
  j1 = j1
  j2 = j2
  d1 = d1
  d2 = d2
  Absent = Absent
  Torn = Torn
  Procs = {c1}
  Jobs = {j1, j2}
  Defs = {d1, d2}
  Manifests <- ProjectManifests
  ManageChoices = {TRUE}
  Exclusive = TRUE
INVARIANTS ApplyLoads
