\* One project and one stop: what startup leaves of an interrupted deploy.
CONSTANTS
  p1 = p1
  p2 = p2
  NoProject = NoProject
  Projects = {p1}
  AutoStart = {}
  Settings = {1}
  ChannelCap = 8
  HealthTimeout = 3
  MaxDeploys = 1
  MaxSending = 1
  MaxFaults = 0
  MaxCrashes = 1
SPECIFICATION Spec
INVARIANTS
  NoStaleRowAfterRecovery
