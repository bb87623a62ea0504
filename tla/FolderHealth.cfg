\* A stack of two services, one with a healthcheck, whose containers may exit.
CONSTANTS
  p1 = p1
  p2 = p2
  web = web
  db = db
  Projects = {p1}
  Services = {web, db}
  Checked = {db}
  MaxCommits = 1
  Found = {"absent", "empty", "files", "repo"}
SPECIFICATION Spec
PROPERTIES
  HealthyMeansRunning
