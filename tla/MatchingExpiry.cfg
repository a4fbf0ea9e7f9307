SPECIFICATION FairSpec
CONSTANTS
  Users = {1, 2}
  MaxAttempts = 1
  Calls = {c1}
  Workers = {w1}
  Compatible <- Everyone
  MaxPasses = 1
  Ops = {"find", "connect", "skip"}
  Resends = FALSE
  MaxCalls = 4
  MaxRoomFails = 0
  MaxDeaths = 0
  MaxLapses = 2
  None = None
PROPERTIES
  ExpiredProposalResets
\* Clients may stop calling, and then nothing is left to do.
CHECK_DEADLOCK FALSE
