\* One project that is removed, with any error the removal may meet.
CONSTANTS
  p1 = p1
  p2 = p2
  web = web
  db = db
  Projects = {p1}
  Services = {web}
  Checked = {}
  MaxCommits = 1
  Found = {"absent", "empty", "files", "repo"}
SPECIFICATION Spec
PROPERTIES
  RowOutlivesFolder
