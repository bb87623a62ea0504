\* Two requests at a time, and two of whatever else may overlap.
CONSTANTS
  r1 = r1
  r2 = r2
  Folder = {"Blog"}
  Candidates <- SameSlug
  Hooked = {"blog"}
  Request = {r1, r2}
  Limit = 1
  MaxProject = 2
  MaxRow = 1
  MaxWindow = 2
  Content = {1, 2}
  MaxRelease = 4
  Installed = 2
  Port = {1, 2}
  MaxKey = 3
  MaxKeys = 3
  MaxTicks = 2
  PerPage = 2
  MaxDeploy = 4
SPECIFICATION OperationsSpec
SYMMETRY Symmetry
INVARIANTS
  AllTypesOK
  DeliveryMatchesProject
  QueuedWithinLimit
  EnabledIsParity
  SavedIsThere
  BinaryIsWhole
  InstalledStays
  TokenReadable
  OneKeyPerTick
  WalkSeesAll
PROPERTIES
  FailsOnlyWhenRaced
  NoDowngrade
