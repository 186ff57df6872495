\* A revoke that fails between the index and the record.
SPECIFICATION WatchSpec
CONSTANTS
  Principals = {p1}
  Tokens = {t1}
  Names = {n1}
  Requests = {r1, r2, r3}
  Sweeps = {}
  Faulty = {r2}
  Lifetimes = {}
  Grace = 0
  MaxRetries = 3
  MaxTime = 2
  None = None
INVARIANT DenylistEnforced
CHECK_DEADLOCK FALSE
