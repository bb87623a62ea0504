\* One folder name, one slug, no deliveries: what registration queues.
CONSTANTS
  r1 = r1
  r2 = r2
  Folder = {"blog"}
  Candidates <- SameSlug
  Hooked = {}
  Request = {r1, r2}
  Limit = 1
  MaxProject = 2
  MaxRow = 1
  MaxWindow = 1
SPECIFICATION Spec
INVARIANTS
  FirstDeployQueued
