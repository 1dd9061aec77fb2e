SPECIFICATION Spec
CONSTANTS
  Procs = {p1, p2}
  Recs = {r1, r2, r3, r4}
  None = None
  Reclaim = TRUE
  Faults = FALSE
  MaxCrashes = 0
  MaxHostCrashes = 0
  MaxFence = 3
CHECK_DEADLOCK FALSE
SYMMETRY Symmetry
PROPERTIES FenceNeverRepeats
