CONSTANTS
  BufLen = 44
  MaxSec = 8
  SectionLens = {1, 8}
  Timeouts = {TRUE, FALSE}
  OnTimeout = {"freed"}
  Burst = 1
  MaxSent = 5
SPECIFICATION FairSpec
INVARIANTS TypeOK RoomWhileGetting
PROPERTIES FifoDelivery RestartsWithRoom StoppedResumes SectionsTaken
CHECK_DEADLOCK FALSE
