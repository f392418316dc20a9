SPECIFICATION Spec
CONSTANTS
  Streams <- Changing
  Versions = {0, 1, 2}
  LoaderLen = 2
  RscLen = 1
  UserLen = 2
  MainLen <- SameLen
  NorSize = 10
  MaxCrashes = 2
  MaxKeys = 1
  MaxRefusals = 1
INVARIANTS TypeOK LoaderSafe NeverDead RunsOneVersion PrivateKept
PROPERTY Finishes
CHECK_DEADLOCK FALSE
