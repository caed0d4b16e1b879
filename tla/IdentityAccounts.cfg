\* Accounts: signup, approval, role change, removal and the cleanup job race.
SPECIFICATION Spec
CONSTANTS
  admin = admin
  u1 = u1
  u2 = u2
  adminEmail = adminEmail
  e1 = e1
  t1 = t1
  t2 = t2
  s1 = s1
  s2 = s2
  None = None
  UserIds = {admin, u1, u2}
  Emails = {adminEmail, e1}
  TokenIds = {t1, t2}
  Slots = {s1, s2}
  SeedEmail <- MCSeedEmail
  SeedAdmins = {admin}
  PENDING_ACCOUNT_TTL_DAYS = 0
  RefreshDays = 1
  MaxDay = 1
  Audited = {}
  MaxFaults = 0
SYMMETRY Interchangeable
INVARIANTS TypeOK PendingAccountIsEmpty TokenOwnerActive EmailUnique
PROPERTIES ApprovalSurvives DeletedOnlyWhenDue ImplementsAccounts
