\* A day of five ticks, a policy of three days, every time of day of a signup.
SPECIFICATION Spec
CONSTANTS
  PENDING_ACCOUNT_TTL_DAYS = 3
  DAY_MS = 5
  CleanupTime = 2
  MaxNow = 28
CHECK_DEADLOCK FALSE
INVARIANTS TypeOK CountdownNotLate QueryAgreesWithPolicy
PROPERTY CountdownNotEarly
