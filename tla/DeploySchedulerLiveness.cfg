\* Two projects, one of them started with the process; a restart, a storage error
\* or vanished caller, and a channel short enough to fill.
CONSTANTS
  p1 = p1
  p2 = p2
  NoProject = NoProject
  Projects = {p1, p2}
  AutoStart = {p1}
  Settings = {1}
  ChannelCap = 2
  HealthTimeout = 3
  MaxDeploys = 3
  MaxSending = 2
  MaxFaults = 0
  MaxCrashes = 1
SPECIFICATION FairSpec
PROPERTIES
  AcceptedSettle
