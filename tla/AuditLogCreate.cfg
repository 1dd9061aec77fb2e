SPECIFICATION Spec
CONSTANTS
  MaxSize = 2
  Missing = Missing
  Failing = {"create"}
  MaxEntries = 4
  MaxFaults = 1
  MaxCrashes = 0
CHECK_DEADLOCK FALSE
INVARIANTS FallbackKeepsEntries
