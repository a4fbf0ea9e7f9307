SPECIFICATION MediaSpec
CONSTANTS
  None = None
  Users = {a}
  Instances = {i1}
  Sockets = {s1, s2}
  Tasks = {t1, t2}
  MaxIncidents = 0
  MaxCrashes = 0
INVARIANTS
  RejoinWorks
\* The clients may all be gone, and then nothing is left to do.
CHECK_DEADLOCK FALSE
