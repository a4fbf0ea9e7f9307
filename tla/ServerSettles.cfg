SPECIFICATION ServerFairSpec
CONSTANTS
  None = None
  Users = {a, b}
  Requests = {r1}
  Procs = {h1, h2}
  MaxCalls = 4
  MaxFaults = 1
  Host = host
  Guests = {a}
  Plans <- SomePlans
  Handlers = {h1, h2}
  Seats = 2
  MaxRequests = 1
  Instances = {i1}
  Sockets = {s1, s2}
  Tasks = {t1, t2}
  MaxIncidents = 0
  MaxCrashes = 0
INVARIANTS
  OutcomeRowsBounded
  OneCompletedRow
  AnsweredCallKeepsRoom
  OutcomeEndsCall
PROPERTIES
  CallEnds
  RingSettles
  SlotSettles
  OverdueTornDown
  RoomEnds
\* Users may stop calling, and then nothing is left to do.
CHECK_DEADLOCK FALSE
