\* One project, the channel of the code (8), and enough triggers to fill it, one
\* caller at a time.
CONSTANTS
  p1 = p1
  p2 = p2
  NoProject = NoProject
  Projects = {p1}
  AutoStart = {}
  Settings = {1}
  ChannelCap = 8
  HealthTimeout = 3
  MaxDeploys = 10
  MaxSending = 1
  MaxFaults = 0
  MaxCrashes = 0
SPECIFICATION Spec
PROPERTIES
  LatestTriggerSurvives
