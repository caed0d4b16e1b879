\* A comment says no account becomes an administrator while pending.
SPECIFICATION Spec
CONSTANTS
  admin = admin
  u1 = u1
  adminEmail = adminEmail
  e1 = e1
  t1 = t1
  s1 = s1
  None = None
  UserIds = {admin, u1}
  Emails = {adminEmail, e1}
  TokenIds = {t1}
  Slots = {s1}
  SeedEmail <- MCSeedEmail
  SeedAdmins = {admin}
  PENDING_ACCOUNT_TTL_DAYS = 1
  RefreshDays = 1
  MaxDay = 1
  Audited = {}
  MaxFaults = 0
INVARIANT NoPendingAdmin
