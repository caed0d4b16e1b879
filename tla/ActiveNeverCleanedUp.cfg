\* A comment says the cleanup job never touches an active account.
SPECIFICATION Spec
CONSTANTS
  admin = admin
  u1 = u1
  adminEmail = adminEmail
  e1 = e1
  t1 = t1
  s1 = s1
  s2 = s2
  None = None
  UserIds = {admin, u1}
  Emails = {adminEmail, e1}
  TokenIds = {t1}
  Slots = {s1, s2}
  SeedEmail <- MCSeedEmail
  SeedAdmins = {admin}
  PENDING_ACCOUNT_TTL_DAYS = 0
  RefreshDays = 1
  MaxDay = 1
  Audited = {}
  MaxFaults = 0
PROPERTY ActiveNeverCleanedUp
