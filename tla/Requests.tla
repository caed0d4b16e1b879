------------------------------ MODULE Requests ------------------------------
(***************************************************************************)
(* HTTP requests in flight.  Node runs one piece of JavaScript at a time,  *)
(* but a handler gives way at every await, so a request is a process whose *)
(* steps are the handler's database statements.  What it has read and      *)
(* still holds in local variables -- its snapshot -- is in its record.     *)
(***************************************************************************)
EXTENDS Tables, AuditLog

CONSTANT Slots   \* bound: how many requests are in flight at a time

VARIABLES reqs,     \* the handler running in each slot
          access    \* accounts whose client holds an access token (JWT)

requestVars == <<reqs, access>>

\* pc names the statement the handler issues next.
PC == {"idle", "signup_insert",
       "login_save", "refresh_save", "refresh_user", "token_insert",
       "reuse_revoke", "logout_save",
       "approve_read", "approve_save", "role_read", "role_save",
       "remove_read", "remove_destroy"}

\* userId, token and familyId are a row the handler has read or was given the
\* id of; email and role are arguments.
Request == [pc : PC, userId : UserIds \cup {None}, token : TokenIds \cup {None},
            familyId : TokenIds \cup {None}, email : Emails \cup {None},
            role : Role \cup {None}]

Idle == [pc |-> "idle", userId |-> None, token |-> None, familyId |-> None,
         email |-> None, role |-> None]

RequestsInit ==
  /\ reqs = [s \in Slots |-> Idle]
  /\ access = {}

Start(s, request) ==
  /\ reqs[s] = Idle
  /\ reqs' = [reqs EXCEPT ![s] = request]

Continue(s, pc) == reqs' = [reqs EXCEPT ![s].pc = pc]

\* The handler returns or throws.
Respond(s) == reqs' = [reqs EXCEPT ![s] = Idle]

-----------------------------------------------------------------------------
(* The guards of the admin-only controllers. *)

\* JwtStrategy.validate re-reads the account of the bearer token by id; a
\* token of a deleted account is refused.  It does not look at status.
Authenticated(u) == u \in access /\ UserExists(u)

\* RolesGuard with @Roles(Role.ADMIN): the role is the one just read, not the
\* one in the token.
IsAdmin(u) == Authenticated(u) /\ users[u].role = "admin"

=============================================================================
