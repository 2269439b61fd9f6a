SPECIFICATION Spec
CONSTANTS
  Processes = {1, 2}
  Destinations = {"d"}
  ResultPaths = {"r"}
  LinkedModel = "V1"
  BatchSize = 2
  SpeedParameter = 1
  None = None
  Frames <- MCFrames
  Output <- MCOutput
  Worlds <- MCWorlds
  Edited <- MCEdited
INVARIANTS BundlesAreValid
PROPERTIES  BundlesAreImmutable
