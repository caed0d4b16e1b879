--------------------------- MODULE IdentityProofs ---------------------------
(***************************************************************************)
(* What TLAPS proves of Identity, for any numbers of accounts, tokens,     *)
(* requests in flight, days and faults.                                    *)
(***************************************************************************)
EXTENDS Identity, TLAPS

-----------------------------------------------------------------------------
(* The inductive invariant. *)

UserPC == {"login_save", "refresh_save", "refresh_user", "token_insert",
           "reuse_revoke", "logout_save", "approve_read", "approve_save",
           "role_read", "role_save", "remove_read", "remove_destroy"}

TokenPC == {"refresh_save", "refresh_user", "reuse_revoke", "logout_save"}

IssuingPC == {"login_save", "refresh_save", "refresh_user", "token_insert"}

\* The locals a handler is about to use are there.
LocalsOK(r) ==
  /\ r.pc \in UserPC => r.userId \in UserIds
  /\ r.pc \in TokenPC => r.token \in TokenIds /\ r.familyId \in TokenIds
  /\ r.pc = "login_save" => r.token = None /\ r.familyId = None
  /\ r.pc = "token_insert" => (r.token = None <=> r.familyId = None)
  /\ r.pc = "signup_insert" => r.email \in Emails
  /\ r.pc \in {"role_read", "role_save"} => r.role \in Role

Admitted(u) == users[u].status \in {"active", "deleted"}

\* A request that will issue a token is for an account approved before it was
\* read; the account may have been deleted since.
OwnerOK(r) == r.pc \in IssuingPC => Admitted(r.userId)

\* The token a refresh presented is its account's and its family's, and dead
\* once the refresh has saved it; or it went with the account.
PresentedOK(r) ==
  r.pc \in {"refresh_save", "refresh_user", "token_insert"} /\ r.token # None =>
    \/ /\ tokens[r.token].userId = r.userId
       /\ tokens[r.token].familyId = r.familyId
       /\ \/ tokens[r.token].state = "revoked"
          \/ tokens[r.token].state = "live" /\ r.pc = "refresh_save"
    \/ /\ tokens[r.token].state = "deleted"
       /\ users[r.userId].status = "deleted"

RequestOK(r) == LocalsOK(r) /\ OwnerOK(r) /\ PresentedOK(r)

\* What a row of refresh_tokens is, if it is one.
RowOK(t) ==
  /\ ~ TokenExists(t) => tokens[t] = NoToken(tokens[t].state)
  /\ TokenExists(t) =>
       /\ tokens[t].userId \in UserIds
       /\ users[tokens[t].userId].status = "active"
       /\ tokens[t].familyId \in TokenIds
  /\ tokens[t].parent # None => tokens[tokens[t].parent].state \in {"revoked", "deleted"}

AccountOK(u) == users[u].hasLoggedIn \/ u \in access => Admitted(u)

IInv ==
  /\ TypeOK
  /\ \A s \in Slots : RequestOK(reqs[s])
  /\ \A t \in TokenIds : RowOK(t)
  /\ \A u \in UserIds : AccountOK(u)
  /\ EmailUnique

-----------------------------------------------------------------------------
USE IdentityConstants, AuditedActions, FaultBound

Entries == AuditAction \X (UserIds \cup Emails \cup TokenIds)

\* log() of a known action about a known subject keeps both sets of entries typed.
LEMMA LogTyped ==
  ASSUME TypeOK, NEW action \in AuditAction,
         NEW subject \in UserIds \cup Emails \cup TokenIds, Log(action, subject)
  PROVE  auditPending' \subseteq Entries /\ auditLog' \subseteq Entries
BY DEF TypeOK, Log, Entries

\* A step that replaces one request and leaves the tables alone.
LEMMA RequestStep ==
  ASSUME IInv, NEW s \in Slots, NEW r \in Request, RequestOK(r),
         reqs' = [reqs EXCEPT ![s] = r],
         auditPending' \subseteq Entries, auditLog' \subseteq Entries,
         UNCHANGED <<tableVars, access, job, faults>>
  PROVE  IInv'
<1> USE DEF IInv, tableVars
<1>1. TypeOK'
  BY DEF TypeOK, Entries
<1>2. \A q \in Slots : RequestOK(reqs[q])'
  BY DEF TypeOK, RequestOK, LocalsOK, OwnerOK, PresentedOK, Admitted
<1>3. \A t \in TokenIds : RowOK(t)'
  BY DEF RowOK, TokenExists, NoToken
<1>4. \A u \in UserIds : AccountOK(u)'
  BY DEF AccountOK, Admitted
<1>5. EmailUnique'
  BY DEF EmailUnique, UserExists
<1>6. QED BY <1>1, <1>2, <1>3, <1>4, <1>5

\* The answer: an idle slot satisfies everything asked of a request.
LEMMA IdleOK == Idle \in Request /\ RequestOK(Idle)
BY DEF Idle, Request, PC, RequestOK, LocalsOK, OwnerOK, PresentedOK, UserPC, TokenPC,
       IssuingPC

\* A step of a handler that leaves the audit log alone as well.
LEMMA QuietRequestStep ==
  ASSUME IInv, NEW s \in Slots, NEW r \in Request, RequestOK(r),
         reqs' = [reqs EXCEPT ![s] = r],
         UNCHANGED <<tableVars, auditVars, access, job, faults>>
  PROVE  IInv'
BY RequestStep DEF IInv, TypeOK, auditVars, Entries

-----------------------------------------------------------------------------
(* AuthService. *)

\* A call to AuthService begins: what the handler has read fits the row it read.
LEMMA AuthStartStep ==
  ASSUME IInv, NEW s \in Slots, AuthStart(s), UNCHANGED <<job, faults>>
  PROVE  IInv'
<1> USE DEF Start, requestVars, RequestOK, LocalsOK, OwnerOK, PresentedOK,
            UserPC, TokenPC, IssuingPC, Admitted, Idle, Request, PC
<1>1. ASSUME NEW email \in Emails, LoginRead(s, email)  PROVE IInv'
  <2>1. PICK u \in UserIds :
          MayLogIn(u) /\ Start(s, [Idle EXCEPT !.pc = "login_save", !.userId = u])
    BY <1>1 DEF LoginRead, FindByEmail
  <2>2. [Idle EXCEPT !.pc = "login_save", !.userId = u] \in Request
    OBVIOUS
  <2>3. RequestOK([Idle EXCEPT !.pc = "login_save", !.userId = u])
    BY <2>1 DEF MayLogIn
  <2>4. QED BY <1>1, <2>1, <2>2, <2>3, QuietRequestStep DEF LoginRead
<1>2. ASSUME NEW email \in Emails, LoginReject(s, email)  PROVE IInv'
  <2>1. Idle \in Request /\ RequestOK(Idle)
    BY IdleOK
  <2>2. auditPending' \subseteq Entries /\ auditLog' \subseteq Entries
    BY <1>2, LogTyped DEF IInv, LoginReject, AuditAction
  <2>3. reqs' = [reqs EXCEPT ![s] = Idle]
    BY <1>2 DEF LoginReject, IInv, TypeOK
  <2>4. QED BY <1>2, <2>1, <2>2, <2>3, RequestStep DEF LoginReject
<1>3. ASSUME NEW t \in TokenIds, TokenExists(t), NEW pc \in {"refresh_save", "reuse_revoke", "logout_save"},
             Start(s, Stored(t, pc)), UNCHANGED <<tableVars, auditVars, access>>,
             pc = "refresh_save" => tokens[t].state \in {"live", "revoked"}
      PROVE  IInv'
  <2>1. RowOK(t) /\ tokens[t] \in TokenRow
    BY DEF IInv, TypeOK
  <2>2. Stored(t, pc) \in Request
    BY <1>3, <2>1 DEF Stored, RowOK, TokenRow
  <2>3. RequestOK(Stored(t, pc))
    BY <1>3, <2>1, IdentityConstants DEF Stored, RowOK, TokenRow, TokenExists
  <2>4. QED BY <1>3, <2>2, <2>3, QuietRequestStep
<1>4. ASSUME NEW t \in TokenIds, RefreshRead(s, t)  PROVE IInv'
  BY <1>3, <1>4 DEF RefreshRead, Refreshable, TokenExists
<1>5. ASSUME NEW t \in TokenIds, RefreshReuse(s, t)  PROVE IInv'
  BY <1>3, <1>5 DEF RefreshReuse, TokenExists
<1>6. ASSUME NEW t \in TokenIds, LogoutRead(s, t)  PROVE IInv'
  BY <1>3, <1>6 DEF LogoutRead, TokenExists
<1>7. QED BY <1>1, <1>2, <1>4, <1>5, <1>6 DEF AuthStart

\* lastLoginAt is written to an account that was active when it was read, or to
\* none when it has gone since.
LEMMA LoginSaveStep ==
  ASSUME IInv, NEW s \in Slots, LoginSave(s), UNCHANGED <<job, faults>>
  PROVE  IInv'
<1> DEFINE u == reqs[s].userId
<1> USE DEF IInv, LoginSave, UpdateUser, Continue
<1>1. u \in UserIds /\ reqs[s] \in Request /\ Admitted(u)
  BY DEF TypeOK, RequestOK, LocalsOK, OwnerOK, UserPC, IssuingPC
<1>2. TypeOK'
  <2>1. users' \in [UserIds -> UserRow]
    <3>1. users[u] \in UserRow
      BY <1>1 DEF TypeOK
    <3>2. [users[u] EXCEPT !.hasLoggedIn = TRUE] \in UserRow
      BY <3>1 DEF UserRow
    <3>3. QED BY <1>1, <3>2 DEF TypeOK
  <2>2. reqs' \in [Slots -> Request]
    BY <1>1 DEF TypeOK, Request, PC
  <2>3. auditPending' \subseteq Entries /\ auditLog' \subseteq Entries
    BY <1>1, LogTyped DEF AuditAction
  <2>4. QED BY <2>1, <2>2, <2>3 DEF TypeOK, Entries
<1>3. \A q \in Slots : RequestOK(reqs[q])'
  BY <1>1 DEF TypeOK, UserRow, Request, RequestOK, LocalsOK, OwnerOK, PresentedOK, Admitted,
              UserPC, TokenPC, IssuingPC, UserExists
<1>4. \A t \in TokenIds : RowOK(t)'
  BY <1>1 DEF TypeOK, UserRow, RowOK, TokenExists, NoToken
<1>5. \A v \in UserIds : AccountOK(v)'
  BY <1>1 DEF TypeOK, UserRow, AccountOK, Admitted
<1>6. EmailUnique'
  BY <1>1 DEF TypeOK, UserRow, EmailUnique, UserExists
<1>7. QED BY <1>2, <1>3, <1>4, <1>5, <1>6

\* The new token has an active owner and, when rotated, a revoked parent of its
\* own owner and family.
LEMMA TokenInsertStep ==
  ASSUME IInv, NEW s \in Slots, TokenInsert(s), UNCHANGED <<job, faults>>
  PROVE  IInv'
<1> DEFINE r == reqs[s]
<1> USE DEF IInv, TokenInsert, Respond
<1>1. PICK t \in TokenIds :
        InsertToken(t, r.userId, IF r.familyId = None THEN t ELSE r.familyId, r.token)
  OBVIOUS
<1>2. /\ r \in Request /\ r.userId \in UserIds
      /\ users[r.userId].status = "active"
      /\ r.token # None => r.token \in TokenIds /\ tokens[r.token].state = "revoked"
  BY <1>1 DEF TypeOK, Request, RequestOK, LocalsOK, OwnerOK, PresentedOK, UserPC, IssuingPC,
              Admitted, InsertToken, UserExists
<1> USE DEF InsertToken
<1>3. TypeOK'
  BY <1>1, <1>2 DEF TypeOK, TokenRow, Request, Idle, PC, auditVars
<1>4. \A q \in Slots : RequestOK(reqs[q])'
  BY <1>1, <1>2, IdleOK DEF TypeOK, TokenRow, Request, Idle, RequestOK, LocalsOK, OwnerOK,
                    PresentedOK, Admitted, UserPC, TokenPC, IssuingPC
<1>5. \A v \in TokenIds : RowOK(v)'
  BY <1>1, <1>2 DEF TypeOK, TokenRow, Request, RowOK, TokenExists, NoToken
<1>6. \A u \in UserIds : AccountOK(u)'
  BY <1>1, <1>2 DEF AccountOK, Admitted
<1>7. EmailUnique'
  BY DEF EmailUnique, UserExists
<1>8. QED BY <1>3, <1>4, <1>5, <1>6, <1>7

\* Revoking a family disturbs neither the rows' owners nor their parents.
LEMMA ReuseRevokeStep ==
  ASSUME IInv, NEW s \in Slots, ReuseRevoke(s), UNCHANGED <<job, faults>>
  PROVE  IInv'
<1> USE DEF IInv, ReuseRevoke, RevokeFamily, Respond
<1>1. reqs[s].familyId \in TokenIds
  BY DEF RequestOK, LocalsOK, TokenPC
<1>2. TypeOK'
  <2>1. tokens' \in [TokenIds -> TokenRow]
    BY DEF TypeOK, TokenRow
  <2>2. reqs' \in [Slots -> Request]
    BY IdleOK DEF TypeOK
  <2>3. auditPending' \subseteq Entries /\ auditLog' \subseteq Entries
    BY <1>1, LogTyped DEF AuditAction
  <2>4. QED BY <2>1, <2>2, <2>3 DEF TypeOK, Entries
<1>3. \A q \in Slots : RequestOK(reqs[q])'
  BY IdleOK DEF TypeOK, TokenRow, Request, Idle, RequestOK, LocalsOK, OwnerOK,
                    PresentedOK, Admitted, UserPC, TokenPC, IssuingPC
<1>4. \A t \in TokenIds : RowOK(t)'
  BY IdentityConstants DEF TypeOK, TokenRow, RowOK, TokenExists, NoToken
<1>5. \A u \in UserIds : AccountOK(u)'
  BY DEF AccountOK, Admitted
<1>6. EmailUnique'
  BY DEF EmailUnique, UserExists
<1>7. QED BY <1>2, <1>3, <1>4, <1>5, <1>6

\* RefreshSave and LogoutSave: one token is revoked.
LEMMA RevokeTokenStep ==
  ASSUME IInv, NEW s \in Slots, RevokeToken(reqs[s].token),
         \/ reqs[s].pc = "refresh_save" /\ Continue(s, "refresh_user")
         \/ reqs[s].pc = "logout_save" /\ Respond(s),
         auditPending' \subseteq Entries, auditLog' \subseteq Entries,
         UNCHANGED <<users, day, access, job, faults>>
  PROVE  IInv'
<1> USE DEF IInv, RevokeToken, Continue, Respond
<1>1. reqs[s].token \in TokenIds /\ reqs[s].token # None
  BY IdentityConstants DEF RequestOK, LocalsOK, TokenPC
<1>2. TypeOK'
  <2>1. tokens' \in [TokenIds -> TokenRow]
    BY <1>1 DEF TypeOK, TokenRow
  <2>2. reqs' \in [Slots -> Request]
    BY IdleOK DEF TypeOK, Request, PC
  <2>3. QED BY <2>1, <2>2 DEF TypeOK, Entries
<1>3. \A q \in Slots : RequestOK(reqs[q])'
  BY <1>1, IdleOK DEF TypeOK, TokenRow, Request, Idle, RequestOK, LocalsOK, OwnerOK,
                    PresentedOK, Admitted, UserPC, TokenPC, IssuingPC
<1>4. \A t \in TokenIds : RowOK(t)'
  BY <1>1, IdentityConstants DEF TypeOK, TokenRow, RowOK, TokenExists, NoToken
<1>5. \A u \in UserIds : AccountOK(u)'
  BY DEF AccountOK, Admitted
<1>6. EmailUnique'
  BY DEF EmailUnique, UserExists
<1>7. QED BY <1>2, <1>3, <1>4, <1>5, <1>6

\* Every statement of a handler of AuthService keeps the invariant.
LEMMA AuthContinueStep ==
  ASSUME IInv, NEW s \in Slots, AuthContinue(s), UNCHANGED <<job, faults>>
  PROVE  IInv'
<1>1. CASE LoginSave(s)  BY <1>1, LoginSaveStep
<1>2. CASE TokenInsert(s)  BY <1>2, TokenInsertStep
<1>3. CASE TokenInsertFails(s)
  BY <1>3, IdleOK, QuietRequestStep DEF TokenInsertFails, Respond
<1>4. CASE ReuseRevoke(s)  BY <1>4, ReuseRevokeStep
<1>5. CASE RefreshSave(s)
  BY <1>5, RevokeTokenStep DEF RefreshSave, IInv, TypeOK, auditVars, Entries
<1>6. CASE RefreshUser(s)
  <2>1. CASE Continue(s, "token_insert") /\ UserExists(reqs[s].userId)
    <3> DEFINE r == [reqs[s] EXCEPT !.pc = "token_insert"]
    <3>1. r \in Request /\ reqs[s] \in Request /\ RequestOK(reqs[s])
      BY DEF IInv, TypeOK, Request, PC
    <3>2. RequestOK(r)
      BY <1>6, <3>1, IdentityConstants DEF RefreshUser, RequestOK, LocalsOK, OwnerOK, PresentedOK, UserPC,
           TokenPC, IssuingPC, Request
    <3>3. reqs' = [reqs EXCEPT ![s] = r]
      BY <2>1 DEF Continue
    <3>4. QED BY <1>6, <3>1, <3>2, <3>3, QuietRequestStep DEF RefreshUser
  <2>2. CASE Respond(s)
    BY <1>6, <2>2, IdleOK, QuietRequestStep DEF RefreshUser, Respond
  <2>3. QED BY <1>6, <2>1, <2>2 DEF RefreshUser
<1>7. CASE LogoutSave(s)
  <2>1. reqs[s].userId \in UserIds
    BY <1>7 DEF LogoutSave, IInv, RequestOK, LocalsOK, UserPC
  <2>2. auditPending' \subseteq Entries /\ auditLog' \subseteq Entries
    BY <1>7, <2>1, LogTyped DEF LogoutSave, IInv, AuditAction
  <2>3. QED BY <1>7, <2>2, RevokeTokenStep DEF LogoutSave
<1>8. QED BY <1>1, <1>2, <1>3, <1>4, <1>5, <1>6, <1>7 DEF AuthContinue

-----------------------------------------------------------------------------
(* UsersService. *)

\* A call to UsersService, or a view of the audit log, begins.
LEMMA UsersStartStep ==
  ASSUME IInv, NEW s \in Slots, UsersStart(s), UNCHANGED faults
  PROVE  IInv'
<1>1. ASSUME NEW email \in Emails, SignupRead(s, email)  PROVE IInv'
  <2> DEFINE r == [Idle EXCEPT !.pc = "signup_insert", !.email = email]
  <2>1. r \in Request /\ RequestOK(r)
    BY DEF Idle, Request, PC, RequestOK, LocalsOK, OwnerOK, PresentedOK, UserPC, TokenPC,
           IssuingPC
  <2>2. QED BY <1>1, <2>1, QuietRequestStep DEF SignupRead, Start
<1>2. ASSUME NEW r \in Request, RequestOK(r), Admit(s, r)  PROVE IInv'
  BY <1>2, QuietRequestStep DEF Admit, Start
<1> USE DEF Idle, Request, PC, RequestOK, LocalsOK, OwnerOK, PresentedOK, UserPC, TokenPC,
            IssuingPC
<1>3. ASSUME NEW u \in UserIds, ApproveAdmit(s, u)  PROVE IInv'
  <2> DEFINE r == [Idle EXCEPT !.pc = "approve_read", !.userId = u]
  <2>1. r \in Request /\ RequestOK(r)
    OBVIOUS
  <2>2. QED BY <1>2, <1>3, <2>1 DEF ApproveAdmit
<1>4. ASSUME NEW u \in UserIds, NEW role \in Role, RoleAdmit(s, u, role)  PROVE IInv'
  <2> DEFINE r == [Idle EXCEPT !.pc = "role_read", !.userId = u, !.role = role]
  <2>1. r \in Request /\ RequestOK(r)
    OBVIOUS
  <2>2. QED BY <1>2, <1>4, <2>1 DEF RoleAdmit
<1>5. ASSUME NEW u \in UserIds, RemoveAdmit(s, u)  PROVE IInv'
  <2> DEFINE r == [Idle EXCEPT !.pc = "remove_read", !.userId = u]
  <2>1. r \in Request /\ RequestOK(r)
    OBVIOUS
  <2>2. QED BY <1>2, <1>5, <2>1 DEF RemoveAdmit
<1>6. ASSUME NEW u \in UserIds, AuditView(s, u)  PROVE IInv'
  <2>1. auditPending' \subseteq Entries /\ auditLog' \subseteq Entries
    BY <1>6, LogTyped DEF IInv, AuditView, AuditAction
  <2>2. reqs' = [reqs EXCEPT ![s] = Idle]
    BY <1>6 DEF AuditView, requestVars, IInv, TypeOK
  <2>3. QED BY <1>6, <2>1, <2>2, IdleOK, RequestStep DEF AuditView, requestVars
<1>7. QED BY <1>1, <1>3, <1>4, <1>5, <1>6 DEF UsersStart

\* A signup's row is pending, without tokens, and the first of its address.
LEMMA SignupInsertStep ==
  ASSUME IInv, NEW s \in Slots, SignupInsert(s), UNCHANGED faults
  PROVE  IInv'
<1> USE DEF IInv, SignupInsert, Respond
<1>1. PICK u \in UserIds :
        InsertUser(u, reqs[s].email, "editor", "pending") /\ Log("signup", u)
  OBVIOUS
<1>2. reqs[s].email \in Emails
  BY DEF RequestOK, LocalsOK
<1>3. AccountOK(u) /\ users[u].status = "unused" /\ users[u] \in UserRow
  BY <1>1 DEF InsertUser, TypeOK
<1> USE DEF InsertUser
<1>4. TypeOK'
  <2>1. users' \in [UserIds -> UserRow]
    BY <1>1, <1>2 DEF TypeOK, UserRow, Role
  <2>2. reqs' \in [Slots -> Request]
    BY IdleOK DEF TypeOK
  <2>3. auditPending' \subseteq Entries /\ auditLog' \subseteq Entries
    BY <1>1, LogTyped DEF AuditAction
  <2>4. QED BY <2>1, <2>2, <2>3 DEF TypeOK, Entries
<1>5. \A q \in Slots : RequestOK(reqs[q])'
  BY <1>1, <1>3, IdleOK DEF TypeOK, Request, UserRow, Idle, RequestOK, LocalsOK, OwnerOK,
                    PresentedOK, Admitted, UserPC, TokenPC, IssuingPC
<1>6. \A t \in TokenIds : RowOK(t)'
  BY <1>1, <1>3 DEF TypeOK, UserRow, RowOK, TokenExists, NoToken
<1>7. \A v \in UserIds : AccountOK(v)'
  BY <1>1, <1>3 DEF TypeOK, UserRow, AccountOK, Admitted
<1>8. EmailUnique'
  BY <1>1, <1>2 DEF TypeOK, UserRow, EmailUnique, UserExists, EmailFree, FindByEmail
<1>9. QED BY <1>4, <1>5, <1>6, <1>7, <1>8

\* ApproveSave and RoleSave: one column of one row changes, and a status only
\* to "active".
LEMMA AccountUpdateStep ==
  ASSUME IInv, NEW s \in Slots, NEW u \in UserIds, NEW row \in UserRow,
         row.email = users[u].email, row.hasLoggedIn = users[u].hasLoggedIn,
         row.status \in {"active", users[u].status},
         UpdateUser(u, row), Respond(s),
         auditPending' \subseteq Entries, auditLog' \subseteq Entries,
         UNCHANGED <<tokens, day, access, job, faults>>
  PROVE  IInv'
<1> USE DEF IInv, UpdateUser, Respond
<1>1. TypeOK'
  BY IdleOK DEF TypeOK, Entries
<1>2. \A q \in Slots : RequestOK(reqs[q])'
  BY IdleOK DEF TypeOK, Request, UserRow, Idle, RequestOK, LocalsOK, OwnerOK,
                PresentedOK, Admitted, UserPC, TokenPC, IssuingPC, UserExists
<1>3. \A t \in TokenIds : RowOK(t)'
  BY DEF TypeOK, UserRow, RowOK, TokenExists, NoToken
<1>4. \A v \in UserIds : AccountOK(v)'
  BY DEF TypeOK, AccountOK, Admitted
<1>5. EmailUnique'
  BY DEF TypeOK, EmailUnique, UserExists
<1>6. QED BY <1>1, <1>2, <1>3, <1>4, <1>5

\* RemoveDestroy and CleanupDestroy: a row goes, by its id, whatever it holds.
LEMMA DeleteUserStep ==
  ASSUME IInv, NEW u \in UserIds, DeleteUser(u),
         UNCHANGED reqs \/ \E s \in Slots : Respond(s),
         auditPending' \subseteq Entries, auditLog' \subseteq Entries, job' \in Job,
         UNCHANGED <<day, access, faults>>
  PROVE  IInv'
<1> USE DEF IInv, DeleteUser, Respond
<1>1. TypeOK'
  <2>1. users' \in [UserIds -> UserRow] /\ tokens' \in [TokenIds -> TokenRow]
    BY DEF TypeOK, UserRow, TokenRow, Role, NoUser, NoToken
  <2>2. reqs' \in [Slots -> Request]
    BY IdleOK DEF TypeOK
  <2>3. QED BY <2>1, <2>2 DEF TypeOK, Entries
<1>2. \A q \in Slots : RequestOK(reqs[q])'
  BY IdleOK DEF TypeOK, UserRow, TokenRow, NoUser, NoToken, Request, Idle, RequestOK, LocalsOK,
     OwnerOK, PresentedOK, UserPC, TokenPC, IssuingPC, Admitted, UserExists, TokenExists, RowOK
<1>3. \A t \in TokenIds : RowOK(t)'
  BY DEF TypeOK, UserRow, TokenRow, NoUser, NoToken, UserExists, TokenExists, RowOK
<1>4. \A v \in UserIds : AccountOK(v)'
  BY DEF TypeOK, UserRow, NoUser, AccountOK, Admitted, UserExists
<1>5. EmailUnique'
  BY DEF TypeOK, UserRow, NoUser, EmailUnique, UserExists
<1>6. QED BY <1>1, <1>2, <1>3, <1>4, <1>5

\* A handler that has read the row and goes on to its next statement.
LEMMA ReadOn ==
  ASSUME IInv, NEW s \in Slots, NEW pc \in {"approve_save", "role_save", "remove_destroy"},
         reqs[s].pc \in {"approve_read", "role_read", "remove_read"},
         pc = "role_save" => reqs[s].pc = "role_read",
         Continue(s, pc),
         UNCHANGED <<tableVars, auditVars, access, job, faults>>
  PROVE  IInv'
<1> DEFINE r == [reqs[s] EXCEPT !.pc = pc]
<1>1. reqs[s] \in Request /\ RequestOK(reqs[s])
  BY DEF IInv, TypeOK
<1>2. r \in Request
  BY <1>1 DEF Request, PC
<1>3. RequestOK(r)
  BY <1>1 DEF Request, RequestOK, LocalsOK, OwnerOK, PresentedOK, UserPC, TokenPC, IssuingPC
<1>4. reqs' = [reqs EXCEPT ![s] = r]
  BY DEF Continue
<1>5. QED BY <1>2, <1>3, <1>4, QuietRequestStep

\* Every statement of a handler of UsersService keeps the invariant.
LEMMA UsersContinueStep ==
  ASSUME IInv, NEW s \in Slots, UsersContinue(s), UNCHANGED faults
  PROVE  IInv'
<1> DEFINE u == reqs[s].userId
<1>1. reqs[s].pc \in UserPC => u \in UserIds /\ users[u] \in UserRow
  BY DEF IInv, TypeOK, RequestOK, LocalsOK
<1>2. ASSUME NEW action \in {"user_approved", "user_role_changed", "user_deleted"},
             u \in UserIds, Log(action, u)
      PROVE  auditPending' \subseteq Entries /\ auditLog' \subseteq Entries
  BY <1>2, LogTyped DEF IInv, AuditAction
<1>3. CASE SignupInsert(s)  BY <1>3, SignupInsertStep
<1>4. CASE SignupInsertFails(s)
  BY <1>4, IdleOK, QuietRequestStep DEF SignupInsertFails, Respond
<1>5. CASE NotFound(s)
  BY <1>5, IdleOK, QuietRequestStep DEF NotFound, Respond
<1>6. CASE ApproveRead(s)
  <2>1. CASE users[u].status = "pending"
    BY <1>6, <2>1, ReadOn DEF ApproveRead
  <2>2. CASE users[u].status # "pending"
    <3>1. auditPending' \subseteq Entries /\ auditLog' \subseteq Entries
      BY <1>1, <1>2, <1>6, <2>2 DEF ApproveRead, UserPC
    <3>2. QED BY <1>6, <2>2, <3>1, IdleOK, RequestStep DEF ApproveRead, Respond
  <2>3. QED BY <2>1, <2>2
<1>7. CASE ApproveSave(s)
  <2>1. u \in UserIds /\ users[u] \in UserRow
    BY <1>1, <1>7 DEF ApproveSave, UserPC
  <2>2. [users[u] EXCEPT !.status = "active"] \in UserRow
    BY <2>1 DEF UserRow
  <2>3. auditPending' \subseteq Entries /\ auditLog' \subseteq Entries
    BY <1>2, <1>7, <2>1 DEF ApproveSave
  <2>4. QED BY <1>7, <2>1, <2>2, <2>3, AccountUpdateStep DEF ApproveSave, UserRow
<1>8. CASE RoleRead(s)
  <2>1. CASE users[u].role # reqs[s].role
    BY <1>8, <2>1, ReadOn DEF RoleRead
  <2>2. CASE users[u].role = reqs[s].role
    <3>1. auditPending' \subseteq Entries /\ auditLog' \subseteq Entries
      BY <1>1, <1>2, <1>8, <2>2 DEF RoleRead, UserPC
    <3>2. QED BY <1>8, <2>2, <3>1, IdleOK, RequestStep DEF RoleRead, Respond
  <2>3. QED BY <2>1, <2>2
<1>9. CASE RoleSave(s)
  <2>1. u \in UserIds /\ users[u] \in UserRow /\ reqs[s].role \in Role
    BY <1>1, <1>9 DEF RoleSave, UserPC, IInv, RequestOK, LocalsOK
  <2>2. [users[u] EXCEPT !.role = reqs[s].role] \in UserRow
    BY <2>1 DEF UserRow
  <2>3. auditPending' \subseteq Entries /\ auditLog' \subseteq Entries
    BY <1>2, <1>9, <2>1 DEF RoleSave
  <2>4. QED BY <1>9, <2>1, <2>2, <2>3, AccountUpdateStep DEF RoleSave, UserRow
<1>10. CASE RemoveRead(s)
  BY <1>10, ReadOn DEF RemoveRead
<1>11. CASE RemoveDestroy(s)
  <2>1. u \in UserIds
    BY <1>1, <1>11 DEF RemoveDestroy, UserPC
  <2>2. auditPending' \subseteq Entries /\ auditLog' \subseteq Entries
    BY <1>2, <1>11, <2>1 DEF RemoveDestroy
  <2>3. QED BY <1>11, <2>1, <2>2, DeleteUserStep DEF RemoveDestroy, IInv, TypeOK
<1>12. QED
  BY <1>3, <1>4, <1>5, <1>6, <1>7, <1>8, <1>9, <1>10, <1>11 DEF UsersContinue

-----------------------------------------------------------------------------
(* The job, the audit log, the clock and the faults. *)

\* A step that leaves the two tables and the clients alone, and requests as
\* they are or dropped.
LEMMA BackgroundStep ==
  ASSUME IInv, reqs' = reqs \/ reqs' = [s \in Slots |-> Idle],
         auditPending' \subseteq Entries, auditLog' \subseteq Entries,
         job' \in Job, day' \in 0..MaxDay, faults' \in 0..MaxFaults,
         UNCHANGED <<users, tokens, access>>
  PROVE  IInv'
<1> USE DEF IInv
<1>1. TypeOK'
  BY IdleOK DEF TypeOK, Entries
<1>2. \A q \in Slots : RequestOK(reqs[q])'
  BY IdleOK DEF TypeOK, RequestOK, LocalsOK, OwnerOK, PresentedOK, Admitted
<1>3. \A t \in TokenIds : RowOK(t)'
  BY DEF RowOK, TokenExists, NoToken
<1>4. \A u \in UserIds : AccountOK(u)'
  BY DEF AccountOK, Admitted
<1>5. EmailUnique'
  BY DEF EmailUnique, UserExists
<1>6. QED BY <1>1, <1>2, <1>3, <1>4, <1>5

\* So does every statement of the cleanup job,
LEMMA CleanupInv == ASSUME IInv, Cleanup  PROVE IInv'
<1> USE DEF Cleanup, tableVars, requestVars
<1>0. job \in Job /\ day \in 0..MaxDay /\ faults \in 0..MaxFaults
  BY DEF IInv, TypeOK
<1>1. CASE CleanupFind
  <2>1. job' \in Job
    BY <1>1 DEF CleanupFind, NoJob, Job
  <2>2. QED BY <1>0, <1>1, <2>1, BackgroundStep DEF CleanupFind, IInv, TypeOK, auditVars, Entries
<1>2. ASSUME NEW u \in UserIds, CleanupLog(u)  PROVE IInv'
  <2>1. job' \in Job
    BY <1>0, <1>2 DEF CleanupLog, Job
  <2>2. auditPending' \subseteq Entries /\ auditLog' \subseteq Entries
    BY <1>2, LogTyped DEF CleanupLog, IInv, AuditAction
  <2>3. QED BY <1>0, <1>2, <2>1, <2>2, BackgroundStep DEF CleanupLog
<1>3. CASE CleanupDestroy
  <2>1. job.current \in UserIds /\ job' \in Job
    BY <1>0, <1>3 DEF CleanupDestroy, Job
  <2>2. QED BY <1>3, <2>1, DeleteUserStep DEF CleanupDestroy, IInv, TypeOK, auditVars, Entries
<1>4. QED BY <1>1, <1>2, <1>3 DEF CleanupStep

\* an audit entry that lands or is lost,
LEMMA AuditInv == ASSUME IInv, Audit  PROVE IInv'
<1>1. auditPending' \subseteq Entries /\ auditLog' \subseteq Entries
  BY DEF Audit, AuditInsert, AuditFail, IInv, TypeOK, Entries
<1>2. faults' \in 0..MaxFaults
  BY DEF Audit, Fault, IInv, TypeOK
<1>3. QED BY <1>1, <1>2, BackgroundStep DEF Audit, tableVars, requestVars, IInv, TypeOK

\* a day that passes,
LEMMA TimeInv == ASSUME IInv, Time  PROVE IInv'
<1>1. day' \in 0..MaxDay
  BY DEF Time, Tick, IInv, TypeOK
<1>2. QED BY <1>1, BackgroundStep DEF Time, Tick, auditVars, requestVars, IInv, TypeOK, Entries

\* and a failed statement or a restart.
LEMMA FaultsInv == ASSUME IInv, Faults  PROVE IInv'
<1>0. faults' \in 0..MaxFaults /\ NoJob \in Job
  BY DEF Faults, StatementFails, CleanupFails, Crash, Fault, IInv, TypeOK, NoJob, Job
<1>1. ASSUME NEW s \in Slots, StatementFails(s)  PROVE IInv'
  <2>1. reqs' = [reqs EXCEPT ![s] = Idle]
    BY <1>1 DEF StatementFails, Respond
  <2> USE DEF IInv
  <2>2. TypeOK'
    BY <1>0, <1>1, <2>1, IdleOK DEF TypeOK, StatementFails, tableVars, auditVars
  <2>3. \A q \in Slots : RequestOK(reqs[q])'
    BY <1>1, <2>1, IdleOK DEF TypeOK, StatementFails, tableVars, RequestOK, LocalsOK, OwnerOK,
                              PresentedOK, Admitted
  <2>4. \A t \in TokenIds : RowOK(t)'
    BY <1>1 DEF StatementFails, tableVars, RowOK, TokenExists, NoToken
  <2>5. \A u \in UserIds : AccountOK(u)'
    BY <1>1 DEF StatementFails, tableVars, AccountOK, Admitted
  <2>6. EmailUnique'
    BY <1>1 DEF StatementFails, tableVars, EmailUnique, UserExists
  <2>7. QED BY <2>2, <2>3, <2>4, <2>5, <2>6
<1>2. CASE CleanupFails
  BY <1>0, <1>2, BackgroundStep DEF CleanupFails, tableVars, auditVars, requestVars, IInv, TypeOK,
                                    Entries
<1>3. CASE Crash
  BY <1>0, <1>3, BackgroundStep DEF Crash, tableVars, IInv, TypeOK, Entries
<1>4. QED BY <1>1, <1>2, <1>3 DEF Faults

-----------------------------------------------------------------------------
(* The invariant, and the safety invariants of Identity that it implies. *)

\* The invariant holds of the seeded database.
LEMMA InitIInv == Init => IInv
<1> SUFFICES ASSUME Init  PROVE IInv
  OBVIOUS
<1> USE DEF Init, TablesInit, AuditInit, RequestsInit, UsersInit
<1>1. TypeOK
  <2>1. users \in [UserIds -> UserRow]
    BY DEF UserRow, NoUser, Role, Seeded
  <2>2. tokens \in [TokenIds -> TokenRow]
    BY DEF TokenRow, NoToken
  <2>3. job \in Job /\ reqs \in [Slots -> Request]
    BY IdleOK DEF Job, NoJob
  <2>4. QED BY <2>1, <2>2, <2>3 DEF TypeOK
<1>2. \A s \in Slots : RequestOK(reqs[s])
  BY IdleOK
<1>3. \A t \in TokenIds : RowOK(t)
  BY DEF RowOK, TokenExists, NoToken
<1>4. \A u \in UserIds : AccountOK(u)
  BY DEF AccountOK, NoUser
<1>5. EmailUnique
  BY DEF EmailUnique, UserExists, NoUser
<1>6. QED BY <1>1, <1>2, <1>3, <1>4, <1>5 DEF IInv

\* It is inductive: no step of handlers, job, log, clock or faults breaks it.
LEMMA NextIInv == IInv /\ [Next]_vars => IInv'
<1> SUFFICES ASSUME IInv, [Next]_vars  PROVE IInv'
  OBVIOUS
<1>1. CASE Calls
  BY <1>1, AuthStartStep, UsersStartStep DEF Calls
<1>2. CASE Handlers
  BY <1>2, AuthContinueStep, UsersContinueStep DEF Handlers
<1>3. CASE Cleanup  BY <1>3, CleanupInv
<1>4. CASE Audit  BY <1>4, AuditInv
<1>5. CASE Time  BY <1>5, TimeInv
<1>6. CASE Faults  BY <1>6, FaultsInv
<1>7. CASE UNCHANGED vars
  BY <1>7, BackgroundStep DEF vars, tableVars, auditVars, requestVars, IInv, TypeOK, Entries
<1>8. QED BY <1>1, <1>2, <1>3, <1>4, <1>5, <1>6, <1>7 DEF Next

\* The invariant that carries all the others.
THEOREM Invariance == Spec => []IInv
BY InitIInv, NextIInv, PTL DEF Spec

\* Every row, request and entry is well formed, in every state the handlers'
\* interleavings, the job and the faults can reach.
THEOREM TypeCorrect == Spec => []TypeOK
<1>1. IInv => TypeOK
  BY DEF IInv
<1>2. QED BY <1>1, Invariance, PTL

\* The argument of user-cleanup.service.ts:25-29 holds: a pending account owns
\* nothing that its deletion could cascade onto.
THEOREM PendingEmpty == Spec => []PendingAccountIsEmpty
<1>1. IInv => PendingAccountIsEmpty
  BY DEF IInv, TypeOK, UserRow, PendingAccountIsEmpty, AccountOK, Admitted, RowOK
<1>2. QED BY <1>1, Invariance, PTL

\* No refresh token outlives its account or precedes its approval.
THEOREM OwnersActive == Spec => []TokenOwnerActive
<1>1. IInv => TokenOwnerActive
  BY DEF IInv, TokenOwnerActive, RowOK
<1>2. QED BY <1>1, Invariance, PTL

\* One account an address, although signup looks before it inserts.
THEOREM EmailsUnique == Spec => []EmailUnique
<1>1. IInv => EmailUnique
  BY DEF IInv
<1>2. QED BY <1>1, Invariance, PTL

\* A token that was exchanged is dead, however many requests presented it.
THEOREM RotationKills == Spec => []RotatedTokenNotLive
<1>1. IInv => RotatedTokenNotLive
  BY DEF IInv, RotatedTokenNotLive, RowOK
<1>2. QED BY <1>1, Invariance, PTL

=============================================================================
