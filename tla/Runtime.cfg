SPECIFICATION FairSpec
CONSTANTS
  Tasks = {t1, t2, t3}
  Slots = 1
  Items = {i1, i2, i3, i4}
  Flushers = {f1, f2}
  BatchLimit = 2
  Keys = {k1}
  Getters = {g1, g2}
  MaxTTL = 2
  MaxTime = 4
  Procs = {p1, p2}
  Subjects = {s1, s2}
  None = None
  MaxCalls = 1
  MaxRuns = 3
  MaxSignals = 1
  MaxKills = 1
  MaxSteps = 3
CHECK_DEADLOCK FALSE
INVARIANTS RunnerSound BufferSound CacheSound LockSound FlowSound
PROPERTIES RunnerEnds ExpiredIsRemoved SignalEndsProcess
