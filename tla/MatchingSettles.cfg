SPECIFICATION FairSpec
CONSTANTS
  Users = {1, 2, 3}
  MaxAttempts = 1
  Calls = {c1, c2}
  Workers = {w1}
  Compatible <- Everyone
  MaxPasses = 1
  Ops = {"find", "connect", "skip"}
  Resends = FALSE
  MaxCalls = 5
  MaxRoomFails = 1
  MaxDeaths = 0
  MaxLapses = 0
  None = None
INVARIANTS
  FinalizerAlive
  LockedCanAnswer
PROPERTIES
  SearchSettles
  MutualConnectSettles
\* Clients may stop calling, and then nothing is left to do.
CHECK_DEADLOCK FALSE
