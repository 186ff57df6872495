\* One tab used by two people, two requests at a time, five events.
CONSTANTS
  Subject = {s1, s2}
  Nobody = Nobody
  Null = Null
  First = s1
  Token <- MCToken
  MaxEvents = 5
  Call <- MCCall
  Accounts <- MCAccounts
SPECIFICATION FairSpec
INVARIANTS
  TypeOK OwnSnapshot SnapshotKeepsUp ExecutedOnce CardsTellTheTruth ChipAfterRevoke ListKeepsUp
PROPERTIES NoLateRewrite SectionSettles SignOutEnds
CHECK_DEADLOCK FALSE
