\* Two requests, the cleanup job and the log of deletions, through faults.
SPECIFICATION FairSpec
CONSTANTS
  admin = admin
  u1 = u1
  adminEmail = adminEmail
  e1 = e1
  t1 = t1
  s1 = s1
  s2 = s2
  None = None
  UserIds = {admin, u1}
  Emails = {adminEmail, e1}
  TokenIds = {t1}
  Slots = {s1, s2}
  SeedEmail <- MCSeedEmail
  SeedAdmins = {admin}
  PENDING_ACCOUNT_TTL_DAYS = 0
  RefreshDays = 1
  MaxDay = 1
  Audited = {"user_deleted", "user_auto_deleted"}
  MaxFaults = 2
INVARIANTS AuditNotAhead DeletionLeavesTrace
PROPERTY OverdueAccountsGo
