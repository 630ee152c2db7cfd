SPECIFICATION LoopSpec
CONSTANTS
  Collect = 3
  Send = 2
  BackoffMin = 2
  BackoffMax = 4
  MinNap = 1
  RestartSec = 1
  FloodWaits <- ShortAndLong
  MaxCall = 1
  MaxFaults = 2
PROPERTIES
  EveryCallWaits
CHECK_DEADLOCK FALSE
