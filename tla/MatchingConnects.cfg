SPECIFICATION Spec
CONSTANTS
  Users = {1, 2, 3}
  MaxAttempts = 2
  Calls = {c1, c2}
  Workers = {w1}
  Compatible <- Everyone
  MaxPasses = 2
  Ops = {"find", "connect"}
  Resends = FALSE
  MaxCalls = 6
  MaxRoomFails = 1
  MaxDeaths = 0
  MaxLapses = 0
  None = None
SYMMETRY Slots
INVARIANTS
  MatchedAttemptHasRoom
  RoomOutcomeAgreed
  LastSearchHasJob
PROPERTIES
  DecidedIsFinal
\* Clients may stop calling, and then nothing is left to do.
CHECK_DEADLOCK FALSE
