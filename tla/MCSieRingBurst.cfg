CONSTANTS
  BufLen = 36
  MaxSec = 8
  SectionLens = {1, 8}
  Timeouts = {FALSE}
  OnTimeout = {}
  Burst = 2
  MaxSent = 6
SPECIFICATION Spec
PROPERTY FifoDelivery
CHECK_DEADLOCK FALSE
