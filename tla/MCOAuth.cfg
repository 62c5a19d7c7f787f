SPECIFICATION OneLoginSpec
CONSTANTS
  Logins = {l1, l2}
  Requests = {r1, r2}
  l1 = l1
  l2 = l2
  r1 = r1
  r2 = r2
  MaxRefreshes <- MCMaxRefreshes
  NoGrant = NoGrant
  NoToken = NoToken
  None = None
  Aborts = TRUE
INVARIANTS
  TypeOK
  RefreshedOnce
  StoredGrantIsCurrent
  LogoutRevokesCurrent
  DeletedStaysDeleted
PROPERTIES
  ImplementsAtomicGrants
  LogoutEnds
CHECK_DEADLOCK FALSE
