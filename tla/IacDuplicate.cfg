SPECIFICATION MCSpec
CONSTANTS
  Cases <- MCCases
  Resolves <- MCResolves
  MaxUps = 2
  Widths = {40}
  MaxRows = 1
  MaxSets = 0
CHECK_DEADLOCK FALSE
INVARIANTS RepeatsAreRefused
