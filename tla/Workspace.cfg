SPECIFICATION Spec
CONSTANTS
  Callers = {c1, c2}
  AskRoles = {"reader", "writer", "organizer", "owner"}
  PageSize = 1
  MaxPerms = 4
  MaxCalls = 2
  Things = {1, 2, 3, 4}
  PageSizes = {1, 3, 0}
  Ceilings = {0, 2}
  MaxChanges = 2
  Workers = {w1, w2}
  MaxFolders = 2
  MaxDrives = 2
  MaxMoves = 2
  Procs = {p1, p2}
  Specs <- MCSpecs
  Start <- MCStart
  MaxFaults = 1
  MaxSyncs = 2
  MaxIds = 40
  Operators = {"a", "b", "c"}
  Shared = {"a", "b"}
  Logging = {"b", "c"}
  MaxRuns = 2
CHECK_DEADLOCK FALSE
SYMMETRY Symmetry
INVARIANTS MembersSound ListingSound FilesSound SheetsSound StacksSound
PROPERTIES FallsOnlyByRace
