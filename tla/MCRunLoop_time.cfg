SPECIFICATION LoopLiveSpec
CONSTANTS
  Collect = 3
  Send = 2
  BackoffMin = 2
  BackoffMax = 4
  MinNap = 1
  RestartSec = 1
  FloodWaits <- ShortAndLong
  MaxCall = 1
  MaxFaults = 2
INVARIANTS
  LoopTypeOK
  TimersOnTime
  EndsSoon
  WaitsNoLonger
PROPERTIES
  GatedCallsWait
  CyclesForEver
  StopEnds
CHECK_DEADLOCK FALSE
