\* One replica is enough: its timer, and a Vault error.
SPECIFICATION Spec
CONSTANTS
  Replicas = {a}
  Admins = {a}
  Ahead = {}
  Drift = 1
  TTL = 9
  Interval = 10
  Poll = 2
  MaxWait = 1
  MaxCycle = 1
  MaxSubjects = 1
  MaxFaults = 1
  None = None
PROPERTY
  EverySubjectTried
