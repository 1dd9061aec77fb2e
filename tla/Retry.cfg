SPECIFICATION FairSpec
CONSTANTS
  MaxAttempts = 3
  Half = 64
  MaxShift = 4
  DefBase = 2
  DefCap = 20
  Second = 10
  Bases = {0, 1, 3, 7, 12}
  Caps = {0, 1, 5, 20, 40, 63}
  Headers = {0, 1, 3, 7}
  MaxDelays = 6
  HTTPCodes = {403, 404, 503}
  GRPCCodes = {5, 10}
  Apis = {a1, a2}
  Accounts = {b1}
  NoAccount = NoAccount
  MaxPolls = 2
  MaxCalls = 4
  Programs = {p1, p2}
  MaxCallbacks = 2
CHECK_DEADLOCK FALSE
INVARIANTS LoopSound TripSound DelaySound ErrorSound PollsSound AuthSound
PROPERTIES CallsReturn WaitsEnd
