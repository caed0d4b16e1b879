-------------------------------- MODULE Auth --------------------------------
(***************************************************************************)
(* AuthService: login, refresh with rotation and reuse detection, logout.  *)
(*                                                                         *)
(* Answers that change nothing are left to stuttering: an unknown or       *)
(* expired refresh token (401), logout of an unknown or revoked one (200). *)
(***************************************************************************)
EXTENDS Requests

\* Requests that will insert a token if nothing stops them.
Issuing == {s \in Slots : reqs[s].pc \in {"login_save", "refresh_save",
                                          "refresh_user", "token_insert"}}

\* Bound: a request that may issue a token starts only while TokenIds has one
\* left for it.
TokenBudget ==
  Cardinality({t \in TokenIds : tokens[t].state = "unissued"}) > Cardinality(Issuing)

-----------------------------------------------------------------------------
(* POST /auth/login *)

\* Mutant: the status check left out.
MayLogInAnyStatus(u) == UserExists(u)

MayLogIn(u) == users[u].status = "active"

\* validateCredentials has read the row and the password matches.
LoginRead(s, email) ==
  /\ TokenBudget
  /\ \E u \in FindByEmail(email) :
       /\ MayLogIn(u)
       /\ Start(s, [Idle EXCEPT !.pc = "login_save", !.userId = u])
  /\ UNCHANGED <<tableVars, auditVars, access>>

\* Nobody has the address, the password is wrong, or the account is pending.
LoginReject(s, email) ==
  /\ reqs[s] = Idle
  /\ Log("login_failed", email)
  /\ UNCHANGED <<tableVars, requestVars>>

\* lastLoginAt is saved and login_success logged, before the token exists.
LoginSave(s) ==
  /\ reqs[s].pc = "login_save"
  /\ LET u == reqs[s].userId
     IN  /\ UpdateUser(u, [users[u] EXCEPT !.hasLoggedIn = TRUE])
         /\ Log("login_success", u)
  /\ Continue(s, "token_insert")
  /\ UNCHANGED <<tokens, day, access>>

\* Mutant: refresh does not pass stored.familyId on.
TokenInsertOwnFamily(s) ==
  /\ reqs[s].pc = "token_insert"
  /\ LET r == reqs[s]
     IN  /\ \E t \in TokenIds : InsertToken(t, r.userId, t, r.token)
         /\ access' = access \cup {r.userId}
  /\ Respond(s)
  /\ UNCHANGED <<users, day, auditVars>>

\* buildTokenResponse: without a familyId the new token opens a family.
TokenInsert(s) ==
  /\ reqs[s].pc = "token_insert"
  /\ LET r == reqs[s]
     IN  /\ \E t \in TokenIds :
              InsertToken(t, r.userId, IF r.familyId = None THEN t ELSE r.familyId, r.token)
         /\ access' = access \cup {r.userId}
  /\ Respond(s)
  /\ UNCHANGED <<users, day, auditVars>>

\* The account went away since it was read: the foreign key fails, 500.
TokenInsertFails(s) ==
  /\ reqs[s].pc = "token_insert"
  /\ ~ UserExists(reqs[s].userId)
  /\ Respond(s)
  /\ UNCHANGED <<tableVars, auditVars, access>>

-----------------------------------------------------------------------------
(* POST /auth/refresh *)

\* findOne has returned the row of t: what the handler keeps of it.
Stored(t, pc) == [Idle EXCEPT !.pc = pc, !.userId = tokens[t].userId,
                              !.token = t, !.familyId = tokens[t].familyId]

\* Mutant: the revokedAt check left out of refresh.
RefreshableIgnoringRevocation(t) == TokenExists(t) /\ ~ Expired(t)

Refreshable(t) == tokens[t].state = "live" /\ ~ Expired(t)

RefreshRead(s, t) ==
  /\ Refreshable(t)
  /\ TokenBudget
  /\ Start(s, Stored(t, "refresh_save"))
  /\ UNCHANGED <<tableVars, auditVars, access>>

\* The token was already revoked: reuse.  (Checked before expiry.)
RefreshReuse(s, t) ==
  /\ tokens[t].state = "revoked"
  /\ Start(s, Stored(t, "reuse_revoke"))
  /\ UNCHANGED <<tableVars, auditVars, access>>

ReuseRevoke(s) ==
  /\ reqs[s].pc = "reuse_revoke"
  /\ RevokeFamily(reqs[s].familyId)
  /\ Log("refresh_token_reuse_detected", reqs[s].familyId)
  /\ Respond(s)
  /\ UNCHANGED <<users, day, access>>

\* Mutant: the new pair is issued and the old token is never revoked.
RefreshSaveForgotten(s) ==
  /\ reqs[s].pc = "refresh_save"
  /\ Continue(s, "refresh_user")
  /\ UNCHANGED <<tableVars, auditVars, access>>

RefreshSave(s) ==
  /\ reqs[s].pc = "refresh_save"
  /\ RevokeToken(reqs[s].token)
  /\ Continue(s, "refresh_user")
  /\ UNCHANGED <<users, day, auditVars, access>>

\* findById of the owner, 401 when the account is gone.
RefreshUser(s) ==
  /\ reqs[s].pc = "refresh_user"
  /\ IF UserExists(reqs[s].userId) THEN Continue(s, "token_insert") ELSE Respond(s)
  /\ UNCHANGED <<tableVars, auditVars, access>>

-----------------------------------------------------------------------------
(* POST /auth/logout *)

LogoutRead(s, t) ==
  /\ tokens[t].state = "live"
  /\ Start(s, Stored(t, "logout_save"))
  /\ UNCHANGED <<tableVars, auditVars, access>>

LogoutSave(s) ==
  /\ reqs[s].pc = "logout_save"
  /\ RevokeToken(reqs[s].token)
  /\ Log("logout", reqs[s].userId)
  /\ Respond(s)
  /\ UNCHANGED <<users, day, access>>

-----------------------------------------------------------------------------
\* A call arrives.
AuthStart(s) ==
  \/ \E email \in Emails : LoginRead(s, email) \/ LoginReject(s, email)
  \/ \E t \in TokenIds : RefreshRead(s, t) \/ RefreshReuse(s, t) \/ LogoutRead(s, t)

\* The database answers a call in flight.
AuthContinue(s) ==
  \/ LoginSave(s)
  \/ TokenInsert(s)
  \/ TokenInsertFails(s)
  \/ ReuseRevoke(s)
  \/ RefreshSave(s)
  \/ RefreshUser(s)
  \/ LogoutSave(s)

=============================================================================
