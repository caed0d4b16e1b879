------------------------ MODULE PendingAccountClock ------------------------
(***************************************************************************)
(* The life of one signup that nobody approves, at the resolution of the   *)
(* clock: each rejected login tells its owner in how many days the account *)
(* goes (AuthService.login), and the job that runs once a day deletes it   *)
(* by a cutoff of its own (UserCleanupService).  Two computations in two   *)
(* files, which have to agree.                                             *)
(***************************************************************************)
EXTENDS PendingAccountPolicy

CONSTANTS CleanupTime,  \* the time of day of the job: 3 am
          MaxNow        \* bound: the last moment of a behaviour

ASSUME ClockConstants ==
  /\ CleanupTime \in 0..(DAY_MS - 1)
  /\ MaxNow \in Nat

VARIABLES now, createdAt,
          exists,   \* is the row still there?
          told,     \* the last rejection its owner got, if any: when, and days left
          ran       \* has the job run at this moment?

vars == <<now, createdAt, exists, told, ran>>

Init ==
  /\ now \in 0..(DAY_MS - 1)
  /\ createdAt = now
  /\ exists = TRUE
  /\ told = {}
  /\ ran = FALSE

CleanupDue == now % DAY_MS = CleanupTime /\ ~ ran

\* The clock does not pass 3 am without the job.
Tick ==
  /\ now < MaxNow
  /\ ~ CleanupDue
  /\ now' = now + 1
  /\ ran' = FALSE
  /\ UNCHANGED <<createdAt, exists, told>>

RejectedLogin ==
  /\ exists
  /\ told' = {[at |-> now, days |-> daysRemainingUntilAutoDeletion(createdAt, now)]}
  /\ UNCHANGED <<now, createdAt, exists, ran>>

Cleanup ==
  /\ CleanupDue
  /\ ran' = TRUE
  /\ exists' = (exists /\ ~ (createdAt < deletionCutoffDate(now)))
  /\ UNCHANGED <<now, createdAt, told>>

Next == Tick \/ RejectedLogin \/ Cleanup

Spec == Init /\ [][Next]_vars

-----------------------------------------------------------------------------
TypeOK ==
  /\ now \in Nat
  /\ createdAt \in Nat
  /\ exists \in BOOLEAN
  /\ told \subseteq [at : Nat, days : 0..PENDING_ACCOUNT_TTL_DAYS]
  /\ ran \in BOOLEAN

\* "Deleted in n days" leaves its owner more than n - 1 whole days: the last
\* day of the count is never cut off, whenever in the day the signup was.
CountdownNotEarly ==
  [][exists /\ ~ exists' =>
       \A n \in told : now > n.at + (n.days - 1) * DAY_MS]_vars

\* And the account is gone at the latest one run of the job after the n days.
CountdownNotLate ==
  \A n \in told : exists => now <= n.at + (n.days + 1) * DAY_MS

\* The job's query and the policy disagree at the very millisecond of the
\* cutoff (< against <=) and nowhere else.
QueryAgreesWithPolicy ==
  /\ createdAt < deletionCutoffDate(now) => isPastDeletionCutoff(createdAt, now)
  /\ isPastDeletionCutoff(createdAt, now) => createdAt <= deletionCutoffDate(now)

=============================================================================
