SPECIFICATION Spec
CONSTANTS
  Users = {1, 2, 3}
  MaxAttempts = 2
  Calls = {c1}
  Workers = {w1}
  Compatible <- WithUser1
  MaxPasses = 1
  Ops = {"find", "skip", "cancel", "leave"}
  Resends = TRUE
  MaxCalls = 5
  MaxRoomFails = 0
  MaxDeaths = 1
  MaxLapses = 1
  None = None
SYMMETRY Slots
INVARIANTS
  OneClaimPerUser
PROPERTIES
  OverIsFinal
\* Clients may stop calling, and then nothing is left to do.
CHECK_DEADLOCK FALSE
