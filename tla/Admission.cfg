SPECIFICATION Spec
CONSTANTS
  Procs = {p1, p2}
  Prints = {f1, NoPrint}
  NoPrint = NoPrint
  Window = 1
  MaxTime = 2
  MaxSets = 1
  MaxSaves = 2
  NoLease = NoLease
  Unparsable = Unparsable
  MaxRules = 3
  MaxSize = 2
  Missing = Missing
  Failing = {"rename", "create", "reopen", "write"}
  MaxEntries = 7
  MaxFaults = 4
  MaxCrashes = 2
CHECK_DEADLOCK FALSE
SYMMETRY Symmetry
INVARIANTS LeaseSound GateSound VerdictsAgree LogSound
PROPERTIES GrantsAreFresh
