\* The mint dialog and the token it displays.
CONSTANTS
  Subject = {s1, s2}
  Nobody = Nobody
  Null = Null
  First = s1
  Token <- MCToken
  MaxEvents = 5
  Call <- MCCall
  Accounts <- MCAccounts
SPECIFICATION Spec
INVARIANT TokenOnlyInDialog
CHECK_DEADLOCK FALSE
