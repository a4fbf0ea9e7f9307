SPECIFICATION Spec
CONSTANTS
  Users = {1, 2, 3}
  MaxAttempts = 2
  Calls = {c1, c2}
  Workers = {w1}
  Compatible <- WithUser1
  MaxPasses = 1
  Ops = {"find", "skip"}
  Resends = FALSE
  MaxCalls = 7
  MaxRoomFails = 0
  MaxDeaths = 0
  MaxLapses = 0
  None = None
SYMMETRY Slots
CONSTRAINT User3SearchesOnce
INVARIANTS
  PairLocksDisjoint
\* Clients may stop calling, and then nothing is left to do.
CHECK_DEADLOCK FALSE
