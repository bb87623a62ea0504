\* One project whose folder is not there before it is registered, no push.
CONSTANTS
  p1 = p1
  p2 = p2
  web = web
  db = db
  Projects = {p1}
  Services = {web}
  Checked = {}
  MaxCommits = 1
  Found = {"absent"}
SPECIFICATION Spec
INVARIANTS
  CloneTargetIsFree
