SPECIFICATION Spec
CONSTANTS
  Streams <- OneStream
  Versions = {0, 1, 2}
  LoaderLen = 2
  RscLen = 1
  UserLen = 2
  MainLen <- SameLen
  NorSize = 10
  MaxCrashes = 1
  MaxKeys = 0
  MaxRefusals = 1
INVARIANT TableOnce
CHECK_DEADLOCK FALSE
