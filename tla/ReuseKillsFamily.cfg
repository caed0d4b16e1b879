\* A comment says reuse of a token ends its whole family.
SPECIFICATION Spec
CONSTANTS
  admin = admin
  adminEmail = adminEmail
  t1 = t1
  t2 = t2
  t3 = t3
  s1 = s1
  s2 = s2
  None = None
  UserIds = {admin}
  Emails = {adminEmail}
  TokenIds = {t1, t2, t3}
  Slots = {s1, s2}
  SeedEmail <- MCSeedEmail
  SeedAdmins = {admin}
  PENDING_ACCOUNT_TTL_DAYS = 1
  RefreshDays = 1
  MaxDay = 1
  Audited = {"refresh_token_reuse_detected"}
  MaxFaults = 0
INVARIANT ReuseKillsFamily
