------------------------------- MODULE Users --------------------------------
(***************************************************************************)
(* UsersService behind AuthService.signup and UsersController, and the     *)
(* UserCleanupService job that deletes signups nobody approved.            *)
(*                                                                         *)
(* Answers that change nothing are left to stuttering: a taken address     *)
(* (409), a caller without the admin role (401, 403).                      *)
(***************************************************************************)
EXTENDS Requests

VARIABLE job   \* the cleanup loop: rows still to visit, and the one it is at

NoJob == [stale |-> {}, current |-> None]

Job == [stale : SUBSET UserIds, current : UserIds \cup {None}]

UsersInit == job = NoJob

-----------------------------------------------------------------------------
(* POST /auth/signup *)

\* Bound: a signup starts only while UserIds has a fresh id left for it.
UserBudget ==
  Cardinality({u \in UserIds : users[u].status = "unused"})
    > Cardinality({s \in Slots : reqs[s].pc = "signup_insert"})

\* findByEmail finds nobody; the password is hashed meanwhile.
SignupRead(s, email) ==
  /\ UserBudget
  /\ FindByEmail(email) = {}
  /\ Start(s, [Idle EXCEPT !.pc = "signup_insert", !.email = email])
  /\ UNCHANGED <<tableVars, auditVars, access, job>>

\* Mutant: create() without its default role, and signup without the role.
SignupInsertNoRole(s) ==
  /\ reqs[s].pc = "signup_insert"
  /\ \E u \in UserIds :
       /\ InsertUser(u, reqs[s].email, None, "pending")
       /\ Log("signup", u)
  /\ Respond(s)
  /\ UNCHANGED <<tokens, day, access, job>>

SignupInsert(s) ==
  /\ reqs[s].pc = "signup_insert"
  /\ \E u \in UserIds :
       /\ InsertUser(u, reqs[s].email, "editor", "pending")
       /\ Log("signup", u)
  /\ Respond(s)
  /\ UNCHANGED <<tokens, day, access, job>>

\* Somebody else took the address since findByEmail: unique violation, 500.
SignupInsertFails(s) ==
  /\ reqs[s].pc = "signup_insert"
  /\ ~ EmailFree(reqs[s].email)
  /\ Respond(s)
  /\ UNCHANGED <<tableVars, auditVars, access, job>>

-----------------------------------------------------------------------------
(* PATCH /users/:id/approve, PATCH /users/:id/role, DELETE /users/:id *)

\* The guards let an administrator's request through to its handler.
Admit(s, request) ==
  /\ \E actor \in UserIds : IsAdmin(actor)
  /\ Start(s, request)
  /\ UNCHANGED <<tableVars, auditVars, access, job>>

ApproveAdmit(s, u) == Admit(s, [Idle EXCEPT !.pc = "approve_read", !.userId = u])

RoleAdmit(s, u, role) ==
  Admit(s, [Idle EXCEPT !.pc = "role_read", !.userId = u, !.role = role])

RemoveAdmit(s, u) == Admit(s, [Idle EXCEPT !.pc = "remove_read", !.userId = u])

\* findById finds no row: 404.
NotFound(s) ==
  /\ reqs[s].pc \in {"approve_read", "role_read", "remove_read"}
  /\ ~ UserExists(reqs[s].userId)
  /\ Respond(s)
  /\ UNCHANGED <<tableVars, auditVars, access, job>>

\* Assigning the value the row already has leaves nothing to save.
ApproveRead(s) ==
  LET u == reqs[s].userId
  IN  /\ reqs[s].pc = "approve_read"
      /\ UserExists(u)
      /\ IF users[u].status = "pending"
         THEN Continue(s, "approve_save") /\ UNCHANGED auditVars
         ELSE Respond(s) /\ Log("user_approved", u)
      /\ UNCHANGED <<tableVars, access, job>>

ApproveSave(s) ==
  LET u == reqs[s].userId
  IN  /\ reqs[s].pc = "approve_save"
      /\ UpdateUser(u, [users[u] EXCEPT !.status = "active"])
      /\ Log("user_approved", u)
      /\ Respond(s)
      /\ UNCHANGED <<tokens, day, access, job>>

RoleRead(s) ==
  LET u == reqs[s].userId
  IN  /\ reqs[s].pc = "role_read"
      /\ UserExists(u)
      /\ IF users[u].role # reqs[s].role
         THEN Continue(s, "role_save") /\ UNCHANGED auditVars
         ELSE Respond(s) /\ Log("user_role_changed", u)
      /\ UNCHANGED <<tableVars, access, job>>

\* Mutant: save() writes the whole row, as it was when signed up.
RoleSaveWholeRow(s) ==
  LET u == reqs[s].userId
  IN  /\ reqs[s].pc = "role_save"
      /\ UpdateUser(u, [users[u] EXCEPT !.role = reqs[s].role, !.status = "pending"])
      /\ Log("user_role_changed", u)
      /\ Respond(s)
      /\ UNCHANGED <<tokens, day, access, job>>

RoleSave(s) ==
  LET u == reqs[s].userId
  IN  /\ reqs[s].pc = "role_save"
      /\ UpdateUser(u, [users[u] EXCEPT !.role = reqs[s].role])
      /\ Log("user_role_changed", u)
      /\ Respond(s)
      /\ UNCHANGED <<tokens, day, access, job>>

\* Mutant: user_deleted is logged before the row is destroyed.
RemoveReadLogging(s) ==
  /\ reqs[s].pc = "remove_read"
  /\ UserExists(reqs[s].userId)
  /\ Continue(s, "remove_destroy")
  /\ Log("user_deleted", reqs[s].userId)
  /\ UNCHANGED <<tableVars, access, job>>

RemoveRead(s) ==
  /\ reqs[s].pc = "remove_read"
  /\ UserExists(reqs[s].userId)
  /\ Continue(s, "remove_destroy")
  /\ UNCHANGED <<tableVars, auditVars, access, job>>

RemoveDestroy(s) ==
  /\ reqs[s].pc = "remove_destroy"
  /\ DeleteUser(reqs[s].userId)
  /\ Log("user_deleted", reqs[s].userId)
  /\ Respond(s)
  /\ UNCHANGED <<day, access, job>>

\* GET /audit-log leaves a trace of its own.
AuditView(s, actor) ==
  /\ reqs[s] = Idle
  /\ IsAdmin(actor)
  /\ Log("audit_log_viewed", actor)
  /\ UNCHANGED <<tableVars, requestVars, job>>

-----------------------------------------------------------------------------
(* UserCleanupService.deleteStalePendingAccounts, at 3 am *)

\* Mutant: the query goes by lastLoginAt, and NULL < cutoff is never true.
StaleByLastLogin(u) ==
  /\ users[u].status = "pending"
  /\ users[u].role # "admin"
  /\ users[u].hasLoggedIn

Stale(u) ==
  /\ users[u].status = "pending"
  /\ users[u].role # "admin"
  /\ users[u].createdAt < Policy!deletionCutoffDate(day)

CleanupFind ==
  /\ job = NoJob
  /\ job' = [NoJob EXCEPT !.stale = {u \in UserIds : Stale(u)}]
  /\ UNCHANGED <<tableVars, auditVars, requestVars>>

\* Mutant: the job deletes without a word.
CleanupLogNothing(u) ==
  /\ job.current = None
  /\ u \in job.stale
  /\ job' = [stale |-> job.stale \ {u}, current |-> u]
  /\ UNCHANGED <<tableVars, auditVars, requestVars>>

\* The entry is written first ...
CleanupLog(u) ==
  /\ job.current = None
  /\ u \in job.stale
  /\ job' = [stale |-> job.stale \ {u}, current |-> u]
  /\ Log("user_auto_deleted", u)
  /\ UNCHANGED <<tableVars, requestVars>>

\* ... then the row goes, by its id, whatever it holds by now.
CleanupDestroy ==
  /\ job.current # None
  /\ DeleteUser(job.current)
  /\ job' = [job EXCEPT !.current = None]
  /\ UNCHANGED <<day, auditVars, requestVars>>

-----------------------------------------------------------------------------
\* A call arrives.
UsersStart(s) ==
  \/ \E email \in Emails : SignupRead(s, email)
  \/ \E u \in UserIds : \/ ApproveAdmit(s, u)
                        \/ \E role \in Role : RoleAdmit(s, u, role)
                        \/ RemoveAdmit(s, u)
                        \/ AuditView(s, u)

\* The database answers a call in flight.
UsersContinue(s) ==
  \/ SignupInsert(s)
  \/ SignupInsertFails(s)
  \/ NotFound(s)
  \/ ApproveRead(s)
  \/ ApproveSave(s)
  \/ RoleRead(s)
  \/ RoleSave(s)
  \/ RemoveRead(s)
  \/ RemoveDestroy(s)

CleanupStep ==
  \/ \E u \in UserIds : CleanupLog(u)
  \/ CleanupDestroy

=============================================================================
