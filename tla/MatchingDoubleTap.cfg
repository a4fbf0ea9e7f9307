SPECIFICATION Spec
CONSTANTS
  Users = {1, 2}
  MaxAttempts = 1
  Calls = {c1, c2, c3}
  Workers = {w1}
  Compatible <- Everyone
  MaxPasses = 1
  Ops = {"find", "connect"}
  Resends = FALSE
  MaxCalls = 6
  MaxRoomFails = 0
  MaxDeaths = 0
  MaxLapses = 0
  None = None
SYMMETRY Slots
INVARIANTS
  OneRoomPerProposal
\* Clients may stop calling, and then nothing is left to do.
CHECK_DEADLOCK FALSE
