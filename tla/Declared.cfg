SPECIFICATION MCSpec
CONSTANTS
  Cases <- MCCases
  Resolves <- MCResolves
  MaxUps = 3
  Widths = {40}
  MaxRows = 3
  MaxSets = 1
CHECK_DEADLOCK FALSE
INVARIANTS StacksSound CallsSound TableSound DiffSound ProcSound
PROPERTIES DataIsKept
