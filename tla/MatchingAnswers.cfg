SPECIFICATION Spec
CONSTANTS
  Users = {1, 2}
  MaxAttempts = 1
  Calls = {c1, c2}
  Workers = {w1}
  Compatible <- Everyone
  MaxPasses = 1
  Ops = {"find", "connect", "skip", "cancel", "leave"}
  Resends = TRUE
  MaxCalls = 5
  MaxRoomFails = 1
  MaxDeaths = 1
  MaxLapses = 1
  None = None
SYMMETRY Slots
INVARIANTS
  TypeOK
  OneRoomEach
PROPERTIES
  NoRoomAfterTeardown
  RoomsByMutualConnect
\* Clients may stop calling, and then nothing is left to do.
CHECK_DEADLOCK FALSE
