SPECIFICATION Spec
CONSTANTS
  Procs = {p1, p2}
  Recs = {r1, r2, r3, r4}
  None = None
  Reclaim = TRUE
  Faults = TRUE
  MaxCrashes = 1
  MaxHostCrashes = 0
  MaxFence = 1
CHECK_DEADLOCK FALSE
SYMMETRY Symmetry
INVARIANTS IInv NoSilentLoss
