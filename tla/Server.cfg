SPECIFICATION ServerSpec
CONSTANTS
  None = None
  Users = {a, b}
  Requests = {r1, r2}
  Procs = {h1, h2}
  MaxCalls = 4
  MaxFaults = 1
  Host = host
  Guests = {a, b}
  Plans <- SomePlans
  Handlers = {h1, h2}
  Seats = 2
  MaxRequests = 3
  Instances = {i1, i2}
  Sockets = {r1, r2}
  Tasks = {h1, h2}
  MaxIncidents = 1
  MaxCrashes = 1
SYMMETRY Slots
INVARIANTS
  CallTypeOK
  CalleeNotBlocked
  OneRingPerCallee
  RingHasRoom
  SpaceTypeOK
  OneShotSpaceEnds
  RestrictedStayOut
  LiveSpaceHasHash
  GuestsWaitForHost
  MediaTypeOK
  EmptyRoomClosed
  OnlyOrphansStay
  OwnerServesMembers
  SameRouter
PROPERTIES
  KeepsLifecycle
\* Users may stop calling, and then nothing is left to do.
CHECK_DEADLOCK FALSE
