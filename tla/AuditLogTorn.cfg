SPECIFICATION Spec
CONSTANTS
  MaxSize = 2
  Missing = Missing
  Failing = {}
  MaxEntries = 2
  MaxFaults = 0
  MaxCrashes = 1
CHECK_DEADLOCK FALSE
INVARIANTS AckedReadable
