\* One project, one service without a healthcheck, and three commits: a push, a
\* forced push and a branch taken back, around deploys, rollbacks and a removal.
CONSTANTS
  p1 = p1
  p2 = p2
  web = web
  db = db
  Projects = {p1}
  Services = {web}
  Checked = {}
  MaxCommits = 3
  Found = {"absent", "repo"}
SPECIFICATION Spec
INVARIANTS
  TypeOK
  SucceededIsBuilt
  RollbackLandsOnTarget
  DeploysThePush
PROPERTIES
  BranchMovesForward
