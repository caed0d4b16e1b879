\* Refresh tokens: rotation, reuse detection, logout and removal race.
SPECIFICATION Spec
CONSTANTS
  admin = admin
  adminEmail = adminEmail
  t1 = t1
  t2 = t2
  t3 = t3
  t4 = t4
  s1 = s1
  s2 = s2
  None = None
  UserIds = {admin}
  Emails = {adminEmail}
  TokenIds = {t1, t2, t3, t4}
  Slots = {s1, s2}
  SeedEmail <- MCSeedEmail
  SeedAdmins = {admin}
  PENDING_ACCOUNT_TTL_DAYS = 1
  RefreshDays = 0
  MaxDay = 1
  Audited = {}
  MaxFaults = 1
SYMMETRY Interchangeable
INVARIANTS RotatedTokenNotLive OneLiveUnlessForked
PROPERTIES SessionStaysClosed ImplementsLineage
