\* Requests race a sweep of the same entries.
SPECIFICATION Spec
CONSTANTS
  Principals = {p1, p2}
  Tokens = {t1, t2}
  Names = {n1}
  Requests = {r1, r2, r3}
  Sweeps = {s1}
  Faulty = {r1, r2, r3, s1}
  Lifetimes = {1}
  Grace = 1
  MaxRetries = 2
  MaxTime = 2
  None = None
SYMMETRY Symmetry
INVARIANTS
  LiveNamesUnique
  RevokedIsIndexed
  OrphanOnlyFromMint
  OnlyOwnerDenies
PROPERTY SweepSparesLive
CHECK_DEADLOCK FALSE
