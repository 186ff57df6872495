\* Requests only: no sweep runs while they race.
SPECIFICATION Spec
CONSTANTS
  Principals = {p1, p2}
  Tokens = {t1, t2}
  Names = {n1, n2}
  Requests = {r1, r2, r3, r4}
  Sweeps = {}
  Faulty = {r4}
  Lifetimes = {1}
  Grace = 0
  MaxRetries = 4
  MaxTime = 1
  None = None
SYMMETRY Symmetry
INVARIANTS
  TypeOK
  AckedRevokeSticks
  NoAuthAfterRevoke
  AckedMintKept
  BudgetSuffices
PROPERTY ContractSpec
\* A call is over once answered, and the clock stops at its bound.
CHECK_DEADLOCK FALSE
