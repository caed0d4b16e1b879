------------------------------ MODULE Identity ------------------------------
(***************************************************************************)
(* The identity half of the backend: AuthService, UsersService, the        *)
(* cleanup job and the audit log over one database, in one Node process.   *)
(* Every handler and the job give way to one another at each await.        *)
(***************************************************************************)
EXTENDS Auth, Users

CONSTANT MaxFaults   \* bound: how many faults a behaviour has

VARIABLE faults      \* how many there have been

ASSUME FaultBound == MaxFaults \in Nat

vars == <<tableVars, auditVars, requestVars, job, faults>>

Init ==
  /\ TablesInit
  /\ AuditInit
  /\ RequestsInit
  /\ UsersInit
  /\ faults = 0

-----------------------------------------------------------------------------
(* Faults. *)

Fault == faults < MaxFaults /\ faults' = faults + 1

\* A statement of a handler is refused (connection lost, timeout): 500.
StatementFails(s) ==
  /\ Fault
  /\ reqs[s] # Idle
  /\ Respond(s)
  /\ UNCHANGED <<tableVars, auditVars, access, job>>

\* A statement of the job is refused: the loop throws and the rest waits for
\* the next run.
CleanupFails ==
  /\ Fault
  /\ job # NoJob
  /\ job' = NoJob
  /\ UNCHANGED <<tableVars, auditVars, requestVars>>

\* The process dies and is started again: the tables stay, and so do the
\* access tokens, which the server does not keep.
Crash ==
  /\ Fault
  /\ reqs' = [s \in Slots |-> Idle]
  /\ auditPending' = {}
  /\ job' = NoJob
  /\ UNCHANGED <<tableVars, auditLog, access>>

-----------------------------------------------------------------------------
Calls == \E s \in Slots : \/ AuthStart(s) /\ UNCHANGED <<job, faults>>
                          \/ UsersStart(s) /\ UNCHANGED faults

Handlers == \E s \in Slots : \/ AuthContinue(s) /\ UNCHANGED <<job, faults>>
                             \/ UsersContinue(s) /\ UNCHANGED faults

Cleanup == (CleanupFind \/ CleanupStep) /\ UNCHANGED faults

Audit == \E entry \in auditPending :
           /\ \/ AuditInsert(entry) /\ UNCHANGED faults
              \/ AuditFail(entry) /\ Fault
           /\ UNCHANGED <<tableVars, requestVars, job>>

Time == Tick /\ UNCHANGED <<auditVars, requestVars, job, faults>>

Faults == (\E s \in Slots : StatementFails(s)) \/ CleanupFails \/ Crash

Next == Calls \/ Handlers \/ Cleanup \/ Audit \/ Time \/ Faults

Spec == Init /\ [][Next]_vars

\* What the platform promises: the cron trigger fires and a statement of
\* the job is answered.  Of the clients nothing is assumed.
CleanupFairness ==
  /\ WF_vars(CleanupFind /\ UNCHANGED faults)
  /\ WF_vars(CleanupStep /\ UNCHANGED faults)

FairSpec == Spec /\ CleanupFairness

-----------------------------------------------------------------------------
(* Types. *)

\* Every variable holds what its column or local variable may hold.
TypeOK ==
  /\ users \in [UserIds -> UserRow]
  /\ tokens \in [TokenIds -> TokenRow]
  /\ day \in 0..MaxDay
  /\ auditPending \subseteq AuditAction \X (UserIds \cup Emails \cup TokenIds)
  /\ auditLog \subseteq AuditAction \X (UserIds \cup Emails \cup TokenIds)
  /\ reqs \in [Slots -> Request]
  /\ access \subseteq UserIds
  /\ job \in Job
  /\ faults \in 0..MaxFaults

-----------------------------------------------------------------------------
(* Accounts. *)

\* A pending account holds nothing: it never logged in and no client has an
\* access token of it, so deleting it cascades onto nothing
\* (user-cleanup.service.ts:25-29).
PendingAccountIsEmpty ==
  \A u \in UserIds : users[u].status = "pending" =>
     /\ ~ users[u].hasLoggedIn
     /\ u \notin access
     /\ \A t \in TokenIds : TokenExists(t) => tokens[t].userId # u

\* However logins and refreshes race with deletions, no refresh token is left
\* behind by its account, and none was ever given to an unapproved one.
TokenOwnerActive ==
  \A t \in TokenIds : TokenExists(t) =>
    /\ tokens[t].userId \in UserIds
    /\ users[tokens[t].userId].status = "active"

\* Two signups of one address, each past its findByEmail, still make one
\* account (users.service.ts:37-41).
EmailUnique ==
  \A u, v \in UserIds :
    UserExists(u) /\ UserExists(v) /\ users[u].email = users[v].email => u = v

\* Approval is never undone: a handler that read the row before it was
\* approved does not write the old status back (users.service.ts:65-69).
ApprovalSurvives ==
  [][\A u \in UserIds : users[u].status = "active" =>
        users'[u].status \in {"active", "deleted"}]_vars

BeingRemoved(u) == \E s \in Slots : reqs[s].pc = "remove_destroy" /\ reqs[s].userId = u

\* Unless an administrator is removing it, an account goes only after its full
\* PENDING_ACCOUNT_TTL_DAYS, whatever happened since the job's query.
DeletedOnlyWhenDue ==
  [][\A u \in UserIds : UserExists(u) /\ users'[u].status = "deleted" =>
        \/ BeingRemoved(u)
        \/ users[u].createdAt + PENDING_ACCOUNT_TTL_DAYS < day]_vars

Overdue(u) ==
  /\ users[u].status = "pending"
  /\ users[u].role # "admin"
  /\ users[u].createdAt + PENDING_ACCOUNT_TTL_DAYS < day

\* A signup nobody approves does go in the end, through crashes and failed
\* statements of the job (user-cleanup.service.ts:11-14).
OverdueAccountsGo == \A u \in UserIds : Overdue(u) ~> ~ Overdue(u)

\* An account as the content half sees it.
Standing == [u \in UserIds |-> CASE users[u].status = "active" -> users[u].role
                                  [] users[u].status = "deleted" -> "gone"
                                  [] OTHER -> "absent"]

Account == INSTANCE Accounts WITH standing <- Standing

\* Signup, approval, role change, removal and the job, each a sequence of
\* statements on rows read earlier, amount to the atomic steps of Accounts: to
\* the content half, an account changes its role or goes, and never returns.
ImplementsAccounts == Account!Spec

-----------------------------------------------------------------------------
(* Refresh tokens. *)

Issued(t) == tokens[t].state # "unissued"

\* A token that has been exchanged for another is never live again, nor still.
RotatedTokenNotLive ==
  \A t \in TokenIds : tokens[t].parent # None => tokens[tokens[t].parent].state # "live"

\* A family that has no live token and no refresh under way.
Closed(f) ==
  /\ Issued(f)
  /\ \A t \in TokenIds : tokens[t].state = "live" => tokens[t].familyId # f
  /\ \A s \in Issuing : reqs[s].familyId # f

\* A session that has ended -- logged out, revoked for reuse, or gone with its
\* account -- does not come back, whichever old token is presented.
SessionStaysClosed == [][\A f \in TokenIds : Closed(f) => Closed(f)']_vars

\* A family is one line of descent with at most its last token live, unless
\* two refreshes that raced redeemed one token twice and made it fork.
OneLiveUnlessForked ==
  \A t, v \in TokenIds :
    /\ t # v
    /\ tokens[t].state = "live" /\ tokens[v].state = "live"
    /\ tokens[t].familyId = tokens[v].familyId
    => \E a, b \in TokenIds :
         /\ a # b
         /\ tokens[a].parent # None /\ tokens[a].parent = tokens[b].parent
         /\ tokens[a].familyId = tokens[t].familyId

\* A row as TokenLineage sees it: without its expiry.
LineageToken == [t \in TokenIds |-> [state  |-> tokens[t].state,
                                     owner  |-> tokens[t].userId,
                                     family |-> tokens[t].familyId,
                                     parent |-> tokens[t].parent]]

Lineage == INSTANCE TokenLineage WITH token <- LineageToken

\* The handlers' reads and writes, however they interleave, amount to the
\* atomic steps of TokenLineage.
ImplementsLineage == Lineage!Spec

-----------------------------------------------------------------------------
(* The audit log. *)

\* The log does not run ahead of the deletions, although every entry is written by
\* a statement of its own and two removals of one account, or one and the job's
\* deletion, may overlap: an account that is reported as deleted is gone, unless
\* the job, which logs first, has it in hand or was stopped by a fault in between
\* (users.service.ts:83-90, user-cleanup.service.ts:55-64).
AuditNotAhead ==
  \A u \in UserIds :
    /\ <<"user_deleted", u>> \in auditLog => users[u].status = "deleted"
    /\ <<"user_auto_deleted", u>> \in auditLog =>
         \/ users[u].status = "deleted"
         \/ job.current = u
         \/ faults > 0

\* Without faults no account disappears without an entry that says so.
DeletionLeavesTrace ==
  \A u \in UserIds : users[u].status = "deleted" /\ faults = 0 =>
     \/ Logged("user_deleted", u)
     \/ Logged("user_auto_deleted", u)

-----------------------------------------------------------------------------
(* What the comments and the README say. *)

\* user-cleanup.service.ts:21-22: "there's no path to make one an ADMIN while
\* still PENDING".
NoPendingAdmin ==
  \A u \in UserIds : users[u].status = "pending" => users[u].role # "admin"

\* user-cleanup.service.ts:17: "An `ACTIVE` account is never touched".
ActiveNeverCleanedUp ==
  [][\A u \in UserIds : users[u].status = "active" /\ users'[u].status = "deleted"
        => BeingRemoved(u)]_vars

\* auth.service.ts:99-100: reuse is answered by "kill every session descended
\* from this token's login (its whole family)".
ReuseKillsFamily ==
  \A f \in TokenIds : <<"refresh_token_reuse_detected", f>> \in auditLog =>
    \A t \in TokenIds : tokens[t].state = "live" => tokens[t].familyId # f

=============================================================================
