\* Two replicas, one with its clock ahead; any round trip fails or is slow.
SPECIFICATION WatchSpec
CONSTANTS
  Replicas = {a, b}
  Calls = {c1, c2, c3}
  Values = {v1, v2}
  Ahead = {a}
  Drift = 1
  Refresh = 1
  MaxStale = 2
  Heartbeat = 2
  MaxRetries = 1
  Wait = 1
  Slow = {c1}
  Mortal = {b}
  MaxChanges = 1
  MaxTime = 5
  None = None
SYMMETRY Symmetry
INVARIANTS
  TypeOK
  KillSwitch
  OutageBound
  RecordKeepsUp
PROPERTY NoRefreshStorm
CHECK_DEADLOCK FALSE
