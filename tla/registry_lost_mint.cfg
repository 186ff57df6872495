\* A mint on an entry that a sweep has found to hold nothing but dead records.
SPECIFICATION Spec
CONSTANTS
  Principals = {p1}
  Tokens = {t1, t2}
  Names = {n1, n2}
  Requests = {r1, r2}
  Sweeps = {s1}
  Faulty = {}
  Lifetimes = {1}
  Grace = 1
  MaxRetries = 3
  MaxTime = 2
  None = None
INVARIANT AckedMintKept
CHECK_DEADLOCK FALSE
