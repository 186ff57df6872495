\* One replica whose write of a changed value fails.
SPECIFICATION WatchSpec
CONSTANTS
  Replicas = {a}
  Calls = {c1, c2, c3}
  Values = {v1, v2}
  Ahead = {}
  Drift = 0
  Refresh = 1
  MaxStale = 3
  Heartbeat = 3
  MaxRetries = 1
  Wait = 0
  Slow = {}
  Mortal = {}
  MaxChanges = 1
  MaxTime = 3
  None = None
PROPERTY FailedPutRetried
CHECK_DEADLOCK FALSE
