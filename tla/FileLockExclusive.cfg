SPECIFICATION Spec
CONSTANTS
  Procs = {p1, p2, p3}
  Recs = {r1, r2, r3, r4, r5}
  None = None
  Reclaim = FALSE
  Faults = TRUE
  MaxCrashes = 1
  MaxHostCrashes = 1
  MaxFence = 2
CHECK_DEADLOCK FALSE
SYMMETRY Symmetry
INVARIANTS MutualExclusion FenceDurable
PROPERTIES FenceRises Refines
