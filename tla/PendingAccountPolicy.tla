------------------------ MODULE PendingAccountPolicy ------------------------
(***************************************************************************)
(* The pure arithmetic of src/src/users/pending-account-policy.ts: when a  *)
(* signup that nobody approved is due for deletion.  Dates are integers    *)
(* (JavaScript milliseconds); DAY_MS is 24*60*60*1000 in the code and a    *)
(* constant here, so that a model can use a short day.                     *)
(*                                                                         *)
(* JavaScript divides in floating point and rounds up with Math.ceil; at   *)
(* millisecond resolution TTL - elapsed/DAY_MS is exact enough for         *)
(* ceil(TTL - e/D) to equal TTL - floor(e/D), and \div is that floor.      *)
(***************************************************************************)
EXTENDS Integers

CONSTANTS PENDING_ACCOUNT_TTL_DAYS,  \* 10 in the code
          DAY_MS                     \* 86400000 in the code

ASSUME PolicyConstants ==
  /\ PENDING_ACCOUNT_TTL_DAYS \in Nat
  /\ DAY_MS \in Nat \ {0}

elapsedDays(referenceDate, now) == (now - referenceDate) \div DAY_MS

\* Mutant: Math.floor where the code has Math.ceil.
daysRemainingRoundedDown(referenceDate, now) ==
  LET days == (PENDING_ACCOUNT_TTL_DAYS * DAY_MS - (now - referenceDate)) \div DAY_MS
  IN  IF days < 0 THEN 0 ELSE days

\* Mutant: without Math.max(0, ...).
daysRemainingUnclamped(referenceDate, now) ==
  PENDING_ACCOUNT_TTL_DAYS - elapsedDays(referenceDate, now)

daysRemainingUntilAutoDeletion(referenceDate, now) ==
  LET days == PENDING_ACCOUNT_TTL_DAYS - elapsedDays(referenceDate, now)
  IN  IF days < 0 THEN 0 ELSE days

isPastDeletionCutoff(referenceDate, now) ==
  daysRemainingUntilAutoDeletion(referenceDate, now) <= 0

\* Mutant: one day short of the policy.
deletionCutoffDateOneDayShort(now) == now - (PENDING_ACCOUNT_TTL_DAYS - 1) * DAY_MS

deletionCutoffDate(now) == now - PENDING_ACCOUNT_TTL_DAYS * DAY_MS

=============================================================================
