SPECIFICATION Spec
CONSTANTS
  Users = {1, 2, 3}
  MaxAttempts = 1
  Calls = {c1}
  Workers = {w1, w2}
  Compatible <- Everyone
  MaxPasses = 1
  Ops = {"find", "connect", "skip", "cancel"}
  Resends = FALSE
  MaxCalls = 5
  MaxRoomFails = 0
  MaxDeaths = 0
  MaxLapses = 0
  None = None
SYMMETRY Slots
INVARIANTS
  OneClaimPerUser
  NoSearchForgotten
\* Clients may stop calling, and then nothing is left to do.
CHECK_DEADLOCK FALSE
