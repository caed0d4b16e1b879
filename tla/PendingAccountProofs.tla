------------------------ MODULE PendingAccountProofs ------------------------
(***************************************************************************)
(* What TLAPS proves of the deletion policy, for every length of day and   *)
(* every number of days.                                                   *)
(***************************************************************************)
EXTENDS PendingAccountClock, TLAPS

\* \div rounds down.
LEMMA DivBounds ==
  ASSUME NEW e \in Int, NEW d \in Nat \ {0}
  PROVE  /\ e \div d \in Int
         /\ (e \div d) * d <= e
         /\ e < (e \div d) * d + d
OBVIOUS

\* A product is monotone in its first factor.
LEMMA Monotone ==
  ASSUME NEW a \in Int, NEW b \in Int, NEW d \in Nat, a <= b
  PROVE  a * d <= b * d
OBVIOUS

-----------------------------------------------------------------------------
\* The clock's types, and that no row is from the future.
LEMMA TypeInvariant == Spec => [](TypeOK /\ createdAt <= now)
<1> USE PolicyConstants, ClockConstants
<1>1. Init => TypeOK /\ createdAt <= now
  <2> SUFFICES ASSUME Init  PROVE TypeOK /\ createdAt <= now
    OBVIOUS
  <2>1. now \in Nat /\ createdAt \in Nat /\ createdAt <= now
    BY SMT DEF Init
  <2>2. /\ exists \in BOOLEAN /\ ran \in BOOLEAN
        /\ told \subseteq [at : Nat, days : 0..PENDING_ACCOUNT_TTL_DAYS]
    BY Zenon DEF Init
  <2>3. QED BY <2>1, <2>2 DEF TypeOK
<1>2. TypeOK /\ createdAt <= now /\ [Next]_vars => (TypeOK /\ createdAt <= now)'
  <2> SUFFICES ASSUME TypeOK, createdAt <= now, [Next]_vars
               PROVE  TypeOK' /\ createdAt' <= now'
    OBVIOUS
  <2>1. CASE Tick
    <3>1. now' \in Nat /\ createdAt' \in Nat /\ createdAt' <= now'
      BY <2>1 DEF TypeOK, Tick
    <3>2. /\ exists' \in BOOLEAN /\ ran' \in BOOLEAN
          /\ told' \subseteq [at : Nat, days : 0..PENDING_ACCOUNT_TTL_DAYS]
      BY <2>1, Zenon DEF TypeOK, Tick
    <3>3. QED BY <3>1, <3>2 DEF TypeOK
  <2>2. CASE RejectedLogin
    <3>1. elapsedDays(createdAt, now) \in Nat
      <4>1. now - createdAt \in Nat
        BY DEF TypeOK
      <4> DEFINE q == (now - createdAt) \div DAY_MS
      <4>2. q \in Int /\ now - createdAt < q * DAY_MS + DAY_MS
        BY <4>1, DivBounds
      <4>3. q >= 0
        <5> SUFFICES ASSUME q <= -1  PROVE FALSE
          BY <4>2
        <5>1. q * DAY_MS <= (-1) * DAY_MS
          BY <4>2, Monotone
        <5>2. QED BY <4>1, <4>2, <5>1
      <4>4. QED BY <4>2, <4>3 DEF elapsedDays
    <3>2. daysRemainingUntilAutoDeletion(createdAt, now) \in 0..PENDING_ACCOUNT_TTL_DAYS
      BY <3>1 DEF daysRemainingUntilAutoDeletion
    <3>3. QED BY <2>2, <3>2 DEF TypeOK, RejectedLogin
  <2>3. CASE Cleanup
    BY <2>3 DEF TypeOK, Cleanup
  <2>4. CASE UNCHANGED vars
    BY <2>4 DEF TypeOK, vars
  <2>5. QED BY <2>1, <2>2, <2>3, <2>4 DEF Next
<1>3. QED BY <1>1, <1>2, PTL DEF Spec

\* Every variable of the clock is in its type; what an owner is told lies between
\* no day and the whole term (pending-account-policy.ts:16-19).
THEOREM ClockTyped == Spec => []TypeOK
BY TypeInvariant, PTL

\* The query and the policy of pending-account-policy.ts part only at the
\* millisecond of the cutoff itself.
THEOREM QueryMatchesPolicy == Spec => []QueryAgreesWithPolicy
<1> USE PolicyConstants
<1>1. TypeOK => QueryAgreesWithPolicy
  <2> SUFFICES ASSUME TypeOK  PROVE QueryAgreesWithPolicy
    OBVIOUS
  <2> DEFINE e == now - createdAt
             q == e \div DAY_MS
  <2>1. /\ e \in Int /\ q \in Int
        /\ q * DAY_MS <= e
        /\ e < q * DAY_MS + DAY_MS
    BY DivBounds DEF TypeOK
  <2> DEFINE Past == PENDING_ACCOUNT_TTL_DAYS - q <= 0
  <2>2. isPastDeletionCutoff(createdAt, now) <=> Past
    BY <2>1 DEF isPastDeletionCutoff, daysRemainingUntilAutoDeletion, elapsedDays
  <2>3. Past => PENDING_ACCOUNT_TTL_DAYS * DAY_MS <= e
    BY <2>1, Monotone
  <2>4. ~ Past => e < PENDING_ACCOUNT_TTL_DAYS * DAY_MS
    <3> SUFFICES ASSUME q + 1 <= PENDING_ACCOUNT_TTL_DAYS
                 PROVE  e < PENDING_ACCOUNT_TTL_DAYS * DAY_MS
      BY <2>1
    <3>1. (q + 1) * DAY_MS <= PENDING_ACCOUNT_TTL_DAYS * DAY_MS
      BY <2>1, Monotone
    <3>2. (q + 1) * DAY_MS = q * DAY_MS + DAY_MS
      BY <2>1
    <3>3. QED BY <2>1, <3>1, <3>2
  <2>5. PENDING_ACCOUNT_TTL_DAYS * DAY_MS \in Int
    OBVIOUS
  <2>6. QED BY <2>1, <2>2, <2>3, <2>4, <2>5 DEF TypeOK, QueryAgreesWithPolicy, deletionCutoffDate
<1>2. QED BY <1>1, TypeInvariant, PTL

\* What an owner was told was told in the past, and was n days only if the
\* account was due no sooner than n - 1 days from then.
ToldOK ==
  \A n \in told :
    /\ n.at <= now
    /\ n.days > 0 =>
         n.at + (n.days - 1) * DAY_MS <= createdAt + PENDING_ACCOUNT_TTL_DAYS * DAY_MS

\* No account goes before the last day its owner was promised has begun.
THEOREM CountdownHonest == Spec => CountdownNotEarly
<1> USE PolicyConstants, ClockConstants
<1>1. Init => ToldOK
  BY DEF Init, ToldOK
<1>2. TypeOK /\ createdAt <= now /\ ToldOK /\ [Next]_vars => ToldOK'
  <2> SUFFICES ASSUME TypeOK, createdAt <= now, ToldOK, [Next]_vars  PROVE ToldOK'
    OBVIOUS
  <2>1. CASE RejectedLogin
    <3> DEFINE e == now - createdAt
               q == e \div DAY_MS
               days == daysRemainingUntilAutoDeletion(createdAt, now)
    <3>1. /\ e \in Int /\ q \in Int
          /\ q * DAY_MS <= e
          /\ e < q * DAY_MS + DAY_MS
      BY DivBounds DEF TypeOK
    <3>2. days > 0 =>
            now + (days - 1) * DAY_MS <= createdAt + PENDING_ACCOUNT_TTL_DAYS * DAY_MS
      <4> SUFFICES ASSUME days > 0
                   PROVE  now + (days - 1) * DAY_MS
                            <= createdAt + PENDING_ACCOUNT_TTL_DAYS * DAY_MS
        OBVIOUS
      <4>1. days = PENDING_ACCOUNT_TTL_DAYS - q
        BY <3>1 DEF daysRemainingUntilAutoDeletion, elapsedDays
      <4>2. (days - 1) * DAY_MS
              = PENDING_ACCOUNT_TTL_DAYS * DAY_MS - q * DAY_MS - DAY_MS
        BY <3>1, <4>1
      <4>3. QED BY <3>1, <4>2 DEF TypeOK
    <3>3. told' = {[at |-> now, days |-> days]} /\ UNCHANGED <<now, createdAt>>
      BY <2>1 DEF RejectedLogin
    <3> HIDE DEF days
    <3>4. QED BY <3>2, <3>3 DEF ToldOK, TypeOK
  <2>2. CASE UNCHANGED <<told, createdAt>> /\ now <= now' /\ now' \in Nat
    BY <2>2 DEF ToldOK, TypeOK
  <2>3. QED BY <2>1, <2>2 DEF Next, Tick, Cleanup, vars, TypeOK
<1>3. TypeOK /\ ToldOK /\ [Next]_vars =>
        [exists /\ ~ exists' => \A n \in told : now > n.at + (n.days - 1) * DAY_MS]_vars
  <2> SUFFICES ASSUME TypeOK, ToldOK, Next, exists, ~ exists', NEW n \in told
               PROVE  now > n.at + (n.days - 1) * DAY_MS
    BY DEF vars
  <2>1. Cleanup
    BY DEF Next, Tick, RejectedLogin
  <2>2. createdAt < now - PENDING_ACCOUNT_TTL_DAYS * DAY_MS
    BY <2>1 DEF Cleanup, deletionCutoffDate
  <2>3. n.at \in Nat /\ n.days \in Nat
    BY DEF TypeOK
  <2>4. CASE n.days = 0
    BY <2>3, <2>4 DEF ToldOK, TypeOK
  <2>5. CASE n.days > 0
    BY <2>2, <2>3, <2>5 DEF ToldOK, TypeOK
  <2>6. QED BY <2>3, <2>4, <2>5
<1>4. QED BY <1>1, <1>2, <1>3, TypeInvariant, PTL DEF Spec, CountdownNotEarly

-----------------------------------------------------------------------------
(* The other direction: the job comes every day. *)

\* A time is its day and its time of day.
LEMMA TimeOfDay ==
  ASSUME NEW t \in Int, NEW d \in Nat \ {0}
  PROVE  t = (t \div d) * d + (t % d)
OBVIOUS

\* And only in one way.
LEMMA OneTimeOfDay ==
  ASSUME NEW k \in Int, NEW d \in Nat \ {0}, NEW c \in 0..(d - 1)
  PROVE  (k * d + c) % d = c
<1> DEFINE t == k * d + c
           q == t \div d
<1>1. t \in Int /\ q \in Int /\ q * d <= t /\ t < q * d + d
  <2>1. k * d \in Int
    OBVIOUS
  <2>2. t \in Int
    BY <2>1
  <2> HIDE DEF t
  <2>3. QED BY <2>2, DivBounds
<1>2. q <= k
  <2> SUFFICES ASSUME k + 1 <= q PROVE FALSE
    BY <1>1
  <2>1. (k + 1) * d <= q * d
    BY <1>1, Monotone
  <2>2. (k + 1) * d = k * d + d
    OBVIOUS
  <2>3. QED BY <1>1, <2>1, <2>2
<1>3. k <= q
  <2> SUFFICES ASSUME q + 1 <= k PROVE FALSE
    BY <1>1
  <2>1. (q + 1) * d <= k * d
    BY <1>1, Monotone
  <2>2. (q + 1) * d = q * d + d
    BY <1>1
  <2>3. QED BY <1>1, <2>1, <2>2
<1>4. t = q * d + (t % d)
  BY <1>1, TimeOfDay
<1>5. q = k
  BY <1>1, <1>2, <1>3
<1>6. t % d \in Int /\ k * d \in Int
  BY <1>1
<1>7. k * d + c = k * d + (t % d)
  BY <1>4, <1>5
<1> HIDE DEF q
<1>8. QED BY <1>6, <1>7

\* The job ran on day k - 1 at the latest, and did not find the account due.
LastRun(k) ==
  LET run == k * DAY_MS + CleanupTime
  IN  /\ run <= now
      /\ now <= run + DAY_MS
      /\ now = run + DAY_MS => ~ ran
      /\ run <= createdAt + PENDING_ACCOUNT_TTL_DAYS * DAY_MS

\* An account that is there was not due when the job last ran, less than a day
\* ago, or a day ago if it is the job's turn now.
Watched == exists => \E k \in Int : LastRun(k)

\* What an owner was told has been told with the account not yet gone beyond it.
ToldEnough ==
  \A n \in told :
    createdAt + (PENDING_ACCOUNT_TTL_DAYS + 1) * DAY_MS <= n.at + (n.days + 1) * DAY_MS

\* The clock does not pass the job, and the job leaves no account that is due.
LEMMA WatchedStep ==
  ASSUME TypeOK, Watched, [Next]_vars
  PROVE  Watched'
<1> USE PolicyConstants, ClockConstants
<1> DEFINE D == DAY_MS
           L == PENDING_ACCOUNT_TTL_DAYS * DAY_MS
<1>0. /\ D \in Nat \ {0} /\ CleanupTime \in Int /\ L \in Int
      /\ now \in Int /\ createdAt \in Int
  BY DEF TypeOK
<1>1. CASE Tick
  <2> SUFFICES ASSUME exists' PROVE \E k \in Int : LastRun(k)'
    BY DEF Watched
  <2>1. PICK k \in Int : LastRun(k)
    BY <1>1 DEF Tick, Watched
  <2> DEFINE run == k * D + CleanupTime
  <2>2. k * D \in Int
    BY <1>0
  <2>3. /\ run \in Int /\ run <= now /\ now <= run + D /\ (now = run + D => ~ ran)
        /\ run <= createdAt + L
    BY <1>0, <2>1, <2>2 DEF LastRun
  <2>4. now # run + D
    <3> SUFFICES ASSUME now = run + D PROVE FALSE
      OBVIOUS
    <3>1. now = (k + 1) * D + CleanupTime
      <4>1. (k + 1) * D = k * D + D
        BY <1>0
      <4>2. QED BY <1>0, <2>2, <4>1
    <3>2. now % D = CleanupTime
      BY <1>0, <3>1, OneTimeOfDay
    <3>3. QED BY <1>1, <2>3, <3>2 DEF Tick, CleanupDue
  <2>5. now' = now + 1 /\ ran' = FALSE /\ createdAt' = createdAt
    BY <1>1 DEF Tick
  <2> HIDE DEF run
  <2>6. run <= now' /\ now' <= run + D /\ run <= createdAt' + L
    BY <1>0, <2>3, <2>4, <2>5
  <2>7. LastRun(k)'
    BY <2>5, <2>6 DEF LastRun, run
  <2>8. QED BY <2>7
<1>2. CASE Cleanup
  <2> SUFFICES ASSUME exists' PROVE \E k \in Int : LastRun(k)'
    BY DEF Watched
  <2> DEFINE k == now \div D
  <2>1. now = k * D + CleanupTime /\ k \in Int
    <3>1. now % D = CleanupTime
      BY <1>2 DEF Cleanup, CleanupDue
    <3>2. QED BY <1>0, <3>1, TimeOfDay, DivBounds
  <2>2. now <= createdAt + L
    <3>1. ~ (createdAt < deletionCutoffDate(now))
      BY <1>2, Zenon DEF Cleanup
    <3>2. QED BY <1>0, <3>1 DEF deletionCutoffDate
  <2>3. now' = now /\ createdAt' = createdAt
    BY <1>2 DEF Cleanup
  <2>4. PICK j \in Int : j = k
    BY <2>1
  <2>5. now = j * D + CleanupTime /\ now <= now + D /\ now # now + D
    BY <1>0, <2>1, <2>4
  <2>6. LastRun(j)'
    BY <2>2, <2>3, <2>5 DEF LastRun
  <2>7. QED BY <2>6
<1>3. CASE UNCHANGED <<now, createdAt, exists, ran>>
  BY <1>3 DEF Watched, LastRun
<1>4. QED BY <1>1, <1>2, <1>3 DEF Next, RejectedLogin, vars

\* The days that an owner is told are rounded up.
LEMMA ToldEnoughStep ==
  ASSUME TypeOK, createdAt <= now, ToldEnough, [Next]_vars
  PROVE  ToldEnough'
<1> USE PolicyConstants
<1>1. CASE RejectedLogin
  <2> DEFINE T == PENDING_ACCOUNT_TTL_DAYS
             q == (now - createdAt) \div DAY_MS
             days == daysRemainingUntilAutoDeletion(createdAt, now)
  <2>1. /\ q \in Int /\ q * DAY_MS <= now - createdAt
        /\ now \in Int /\ createdAt \in Int /\ q * DAY_MS \in Int
    BY DivBounds DEF TypeOK
  <2>2. days \in Int /\ T - q <= days
    BY <2>1 DEF daysRemainingUntilAutoDeletion, elapsedDays
  <2>3. (T - q + 1) * DAY_MS <= (days + 1) * DAY_MS
    <3> HIDE DEF q, days
    <3>1. T - q + 1 \in Int /\ days + 1 \in Int /\ T - q + 1 <= days + 1
      BY <2>1, <2>2
    <3>2. QED BY <3>1, Monotone
  <2>4. (T - q + 1) * DAY_MS = (T + 1) * DAY_MS - q * DAY_MS
    BY <2>1
  <2>5. createdAt + (T + 1) * DAY_MS <= now + (days + 1) * DAY_MS
    <3>1. (T + 1) * DAY_MS \in Int /\ (days + 1) * DAY_MS \in Int
      BY <2>2
    <3> HIDE DEF q, days
    <3>2. QED BY <2>1, <2>3, <2>4, <3>1
  <2>6. told' = {[at |-> now, days |-> days]} /\ UNCHANGED createdAt
    BY <1>1 DEF RejectedLogin
  <2> HIDE DEF days
  <2>7. QED BY <2>5, <2>6 DEF ToldEnough
<1>2. CASE UNCHANGED <<told, createdAt>>
  BY <1>2 DEF ToldEnough
<1>3. QED BY <1>1, <1>2 DEF Next, Tick, Cleanup, vars

\* An account is gone at the latest one run of the job after the days its owner
\* was told (auth.service.ts:54-63, user-cleanup.service.ts:19-31).
THEOREM CountdownKept == Spec => []CountdownNotLate
<1> USE PolicyConstants, ClockConstants
<1>1. Init => Watched /\ ToldEnough
  <2> SUFFICES ASSUME Init PROVE Watched /\ ToldEnough
    OBVIOUS
  <2>1. ToldEnough
    BY DEF Init, ToldEnough
  <2>2. /\ now \in Nat /\ now < DAY_MS /\ createdAt = now /\ ran = FALSE
        /\ PENDING_ACCOUNT_TTL_DAYS * DAY_MS \in Nat /\ CleanupTime \in Nat
        /\ CleanupTime < DAY_MS /\ DAY_MS \in Nat
    BY DEF Init
  <2>3. 0 * DAY_MS = 0 /\ (-1) * DAY_MS = 0 - DAY_MS
    BY <2>2
  <2>4. CASE now <= CleanupTime
    <3>1. LastRun(-1)
      BY <2>2, <2>3, <2>4 DEF LastRun
    <3>2. QED BY <2>1, <3>1 DEF Watched
  <2>5. CASE CleanupTime < now
    <3>1. LastRun(0)
      BY <2>2, <2>3, <2>5 DEF LastRun
    <3>2. QED BY <2>1, <3>1 DEF Watched
  <2>6. QED BY <2>2, <2>4, <2>5
<1>2. TypeOK /\ createdAt <= now /\ Watched /\ ToldEnough /\ [Next]_vars
        => (Watched /\ ToldEnough)'
  BY WatchedStep, ToldEnoughStep
<1>3. TypeOK /\ Watched /\ ToldEnough => CountdownNotLate
  <2> SUFFICES ASSUME TypeOK, Watched, ToldEnough, NEW n \in told, exists
               PROVE  now <= n.at + (n.days + 1) * DAY_MS
    BY DEF CountdownNotLate
  <2> DEFINE L == PENDING_ACCOUNT_TTL_DAYS * DAY_MS
  <2>1. PICK k \in Int : LastRun(k)
    BY DEF Watched
  <2>2. /\ now <= k * DAY_MS + CleanupTime + DAY_MS
        /\ k * DAY_MS + CleanupTime <= createdAt + L
    BY <2>1 DEF LastRun
  <2>3. /\ k * DAY_MS \in Int /\ L \in Int /\ now \in Int /\ createdAt \in Int
        /\ (PENDING_ACCOUNT_TTL_DAYS + 1) * DAY_MS = L + DAY_MS
    BY DEF TypeOK
  <2>4. n.at \in Int /\ (n.days + 1) * DAY_MS \in Int
    <3>1. n.at \in Int /\ n.days \in Int
      BY DEF TypeOK
    <3>2. QED BY <3>1
  <2>5. createdAt + (L + DAY_MS) <= n.at + (n.days + 1) * DAY_MS
    BY <2>3 DEF ToldEnough
  <2> HIDE DEF L
  <2>6. QED BY <2>2, <2>3, <2>4, <2>5
<1>4. QED BY <1>1, <1>2, <1>3, TypeInvariant, PTL DEF Spec

=============================================================================
