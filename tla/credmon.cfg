\* Two replicas, the second with a fast clock; an admin's requests reach the
\* first, once at a time but as often as they like.
SPECIFICATION FairSpec
CONSTANTS
  Replicas = {a, b}
  Admins = {a}
  Ahead = {b}
  Drift = 1
  TTL = 9
  Interval = 10
  Poll = 2
  MaxWait = 1
  MaxCycle = 1
  MaxSubjects = 1
  MaxFaults = 1
  None = None
INVARIANTS
  TypeOK
  OneReplica
PROPERTIES
  OncePerInterval
  DueCycleRuns
