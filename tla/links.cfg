CONSTANTS
  Refresh = {r1, r2}
  First = r1
  Replica = {p, q}
  Call = {1, 2}
  Null = null
  CasAttempts = 3
  MaxMoves = 4
  Request = {1, 2}
  MaxDrawn = 5
  None = none
  Gone = gone
  MaxTurns = 4
  Process = {p}
  Caller = {1, 2}
  Absent = absent
  Ttl = 2
  NegTtl = 1
  MaxFetch = 1
  MaxChanges = 2
SPECIFICATION MCSpec
INVARIANTS
  TypeOK
  UnlinkSticks
  AckedLinkKept
  TokenOfLink
  GrantTypeOK
  GrantUnlinkSticks
  GrantLinkKept
  StoredUsable
  ListingCurrent
PROPERTY
  IssueEnds
CHECK_DEADLOCK FALSE
