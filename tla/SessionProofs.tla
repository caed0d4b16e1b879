--------------------------- MODULE SessionProofs ---------------------------
(***************************************************************************)
(* What TLAPS proves of the steps of Identity: approval is not undone, an  *)
(* ended session stays ended, a family forks before it has two live        *)
(* tokens, the handlers implement TokenLineage and Accounts, and the audit *)
(* log says what is true of the accounts.                                  *)
(***************************************************************************)
EXTENDS IdentityProofs

USE IdentityConstants

-----------------------------------------------------------------------------
(* What a step may do to the tables. *)

\* The statements that change refresh_tokens, and who issues them.
LEMMA TokenSteps ==
  ASSUME IInv, [Next]_vars
  PROVE  \/ UNCHANGED tokens
         \/ \E s \in Slots : TokenInsert(s)
         \/ \E s \in Slots : reqs[s].pc \in {"refresh_save", "logout_save"}
                               /\ RevokeToken(reqs[s].token)
         \/ \E s \in Slots : reqs[s].pc = "reuse_revoke" /\ RevokeFamily(reqs[s].familyId)
         \/ \E u \in UserIds : DeleteUser(u)
<1>1. CASE Calls
  BY <1>1 DEF Calls, AuthStart, UsersStart, LoginRead, LoginReject, RefreshRead, RefreshReuse,
     LogoutRead, SignupRead, ApproveAdmit, RoleAdmit, RemoveAdmit, Admit, AuditView, tableVars
<1>2. ASSUME NEW s \in Slots, AuthContinue(s)
      PROVE  \/ UNCHANGED tokens
             \/ TokenInsert(s)
             \/ reqs[s].pc \in {"refresh_save", "logout_save"} /\ RevokeToken(reqs[s].token)
             \/ reqs[s].pc = "reuse_revoke" /\ RevokeFamily(reqs[s].familyId)
  BY <1>2 DEF AuthContinue, LoginSave, TokenInsertFails, ReuseRevoke, RefreshSave, RefreshUser,
              LogoutSave, tableVars
<1>3. ASSUME NEW s \in Slots, UsersContinue(s)
      PROVE  UNCHANGED tokens \/ \E u \in UserIds : DeleteUser(u)
  <2>1. CASE RemoveDestroy(s)
    BY <2>1 DEF RemoveDestroy, IInv, RequestOK, LocalsOK, UserPC
  <2>2. QED BY <1>3, <2>1 DEF UsersContinue, SignupInsert, SignupInsertFails, NotFound,
     ApproveRead, ApproveSave, RoleRead, RoleSave, RemoveRead, tableVars
<1>4. CASE Cleanup
  <2>1. CASE CleanupDestroy
    BY <2>1 DEF CleanupDestroy, IInv, TypeOK, Job
  <2>2. QED BY <1>4, <2>1 DEF Cleanup, CleanupStep, CleanupFind, CleanupLog, tableVars
<1>5. CASE Audit \/ Time \/ Faults
  BY <1>5 DEF Audit, Time, Tick, Faults, StatementFails, CleanupFails, Crash, tableVars
<1>6. CASE UNCHANGED vars
  BY <1>6 DEF vars, tableVars
<1>7. QED BY <1>1, <1>2, <1>3, <1>4, <1>5, <1>6 DEF Next, Handlers

\* A request that may issue a token of a family either was one before or has
\* just read a live token of the family.
LEMMA IssuingSteps ==
  ASSUME IInv, [Next]_vars, NEW q \in Slots, reqs'[q].pc \in IssuingPC,
         reqs'[q].familyId # None
  PROVE  \/ reqs[q].pc \in IssuingPC /\ reqs[q].familyId = reqs'[q].familyId
         \/ \E t \in TokenIds : tokens[t].state = "live"
                                  /\ tokens[t].familyId = reqs'[q].familyId
<1> DEFINE Goal ==
      \/ reqs[q].pc \in IssuingPC /\ reqs[q].familyId = reqs'[q].familyId
      \/ \E t \in TokenIds : tokens[t].state = "live" /\ tokens[t].familyId = reqs'[q].familyId
<1>0. reqs \in [Slots -> Request]
  BY DEF IInv, TypeOK
<1>1. CASE reqs' = reqs
  BY <1>1
<1>2. ASSUME NEW s \in Slots, reqs' = [reqs EXCEPT ![s] = Idle]  PROVE Goal
  BY <1>0, <1>2 DEF Idle, IssuingPC
<1>3. ASSUME NEW s \in Slots, NEW pc \in PC, reqs' = [reqs EXCEPT ![s].pc = pc],
             pc \in IssuingPC => reqs[s].pc \in IssuingPC
      PROVE  Goal
  BY <1>0, <1>3 DEF Request
<1>4. ASSUME NEW s \in Slots, NEW r, reqs' = [reqs EXCEPT ![s] = r],
             r.pc \in IssuingPC =>
               \/ r.familyId = None
               \/ \E t \in TokenIds : tokens[t].state = "live" /\ tokens[t].familyId = r.familyId
      PROVE  Goal
  BY <1>0, <1>4
<1>5. CASE reqs' = [s \in Slots |-> Idle]
  BY <1>5 DEF Idle, IssuingPC
<1>6. ASSUME NEW s \in Slots, AuthStart(s)  PROVE Goal
  <2>1. ASSUME NEW email \in Emails, LoginRead(s, email)  PROVE Goal
    <3>1. PICK u \in UserIds :
            reqs' = [reqs EXCEPT ![s] = [Idle EXCEPT !.pc = "login_save", !.userId = u]]
      BY <2>1 DEF LoginRead, FindByEmail, Start
    <3>2. QED BY <1>4, <3>1 DEF Idle
  <2>2. ASSUME NEW t \in TokenIds, RefreshRead(s, t)  PROVE Goal
    <3>1. tokens[t].state = "live"
            /\ reqs' = [reqs EXCEPT ![s] = Stored(t, "refresh_save")]
      BY <2>2 DEF RefreshRead, Refreshable, Start
    <3>2. QED BY <1>4, <3>1 DEF Stored, Idle
  <2>3. ASSUME NEW t \in TokenIds, RefreshReuse(s, t) \/ LogoutRead(s, t)  PROVE Goal
    <3>1. \E pc \in {"reuse_revoke", "logout_save"} :
            reqs' = [reqs EXCEPT ![s] = Stored(t, pc)]
      BY <2>3 DEF RefreshReuse, LogoutRead, Start
    <3>2. QED BY <1>4, <3>1 DEF Stored, Idle, IssuingPC
  <2>4. QED BY <1>1, <1>6, <2>1, <2>2, <2>3 DEF AuthStart, LoginReject, requestVars
<1>7. ASSUME NEW s \in Slots, UsersStart(s)  PROVE Goal
  <2>1. ASSUME NEW r, Admit(s, r), r.pc \notin IssuingPC  PROVE Goal
    BY <1>4, <2>1 DEF Admit, Start
  <2>2. ASSUME NEW u \in UserIds,
               \/ ApproveAdmit(s, u)
               \/ \E role \in Role : RoleAdmit(s, u, role)
               \/ RemoveAdmit(s, u)
        PROVE  Goal
    BY <2>1, <2>2 DEF ApproveAdmit, RoleAdmit, RemoveAdmit, Idle, IssuingPC
  <2>3. ASSUME NEW email \in Emails, SignupRead(s, email)  PROVE Goal
    BY <1>4, <2>3 DEF SignupRead, Start, Idle, IssuingPC
  <2>4. QED BY <1>1, <1>7, <2>2, <2>3 DEF UsersStart, AuditView, requestVars
<1>8. ASSUME NEW s \in Slots, AuthContinue(s)  PROVE Goal
  BY <1>2, <1>3, <1>8 DEF AuthContinue, LoginSave, TokenInsert, TokenInsertFails, ReuseRevoke,
     RefreshSave, RefreshUser, LogoutSave, Continue, Respond, IssuingPC, PC
<1>9. ASSUME NEW s \in Slots, UsersContinue(s)  PROVE Goal
  BY <1>2, <1>3, <1>9 DEF UsersContinue, SignupInsert, SignupInsertFails, NotFound, ApproveRead,
     ApproveSave, RoleRead, RoleSave, RemoveRead, RemoveDestroy, Continue, Respond, IssuingPC, PC
<1>10. CASE Cleanup \/ Audit \/ Time \/ UNCHANGED vars
  BY <1>1, <1>10 DEF Cleanup, CleanupStep, CleanupFind, CleanupLog, CleanupDestroy, Audit, Time,
     vars, requestVars
<1>11. CASE Faults
  BY <1>1, <1>2, <1>5, <1>11 DEF Faults, StatementFails, CleanupFails, Crash, Respond, requestVars
<1>12. QED
  BY <1>6, <1>7, <1>8, <1>9, <1>10, <1>11 DEF Next, Calls, Handlers

-----------------------------------------------------------------------------
(* An ended session. *)

\* No step of any handler reopens a closed family.
LEMMA ClosedStep ==
  ASSUME IInv, [Next]_vars, NEW f \in TokenIds, Closed(f)
  PROVE  Closed(f)'
<1>0. tokens \in [TokenIds -> TokenRow] /\ reqs \in [Slots -> Request]
  BY DEF IInv, TypeOK
<1>1. ASSUME NEW s \in Slots, TokenInsert(s)
      PROVE  \E t \in TokenIds :
               /\ tokens[t].state = "unissued"
               /\ tokens'[t].state = "live"
               /\ tokens'[t].familyId # f
               /\ \A v \in TokenIds \ {t} : tokens'[v] = tokens[v]
  <2>1. s \in Issuing
    BY <1>1 DEF TokenInsert, Issuing
  <2>2. PICK t \in TokenIds :
          InsertToken(t, reqs[s].userId,
                      IF reqs[s].familyId = None THEN t ELSE reqs[s].familyId, reqs[s].token)
    BY <1>1 DEF TokenInsert
  <2>3. t # f /\ reqs[s].familyId # f
    BY <2>1, <2>2 DEF InsertToken, Closed, Issued
  <2>4. QED BY <1>0, <2>2, <2>3 DEF InsertToken, TokenRow
<1> DEFINE StillClosed ==
      /\ Issued(f)'
      /\ \A t \in TokenIds : tokens'[t].state = "live" => tokens'[t].familyId # f
<1>2. StillClosed
  <2>1. CASE UNCHANGED tokens  BY <2>1 DEF Closed, Issued
  <2>2. CASE \E s \in Slots : TokenInsert(s)  BY <1>1, <2>2 DEF Closed, Issued
  <2>3. ASSUME NEW s \in Slots, RevokeToken(reqs[s].token)
        PROVE  StillClosed
    BY <1>0, <2>3 DEF RevokeToken, TokenRow, Closed, Issued
  <2>4. ASSUME NEW s \in Slots, RevokeFamily(reqs[s].familyId)
        PROVE  StillClosed
    BY <1>0, <2>4 DEF RevokeFamily, TokenRow, Closed, Issued
  <2>5. ASSUME NEW u \in UserIds, DeleteUser(u)
        PROVE  StillClosed
    BY <1>0, <2>5 DEF DeleteUser, NoToken, Closed, Issued
  <2>6. QED BY <2>1, <2>2, <2>3, <2>4, <2>5, TokenSteps
<1>3. ASSUME NEW q \in Slots, reqs'[q].pc \in IssuingPC  PROVE reqs'[q].familyId # f
  BY <1>3, IssuingSteps DEF Closed, Issuing, IssuingPC
<1>4. QED BY <1>2, <1>3 DEF Closed, Issuing, IssuingPC

\* A session that ended does not come back.
THEOREM ClosedForGood == Spec => SessionStaysClosed
<1>1. IInv /\ [Next]_vars => [\A f \in TokenIds : Closed(f) => Closed(f)']_vars
  BY ClosedStep
<1>2. QED BY <1>1, Invariance, PTL DEF Spec, SessionStaysClosed

-----------------------------------------------------------------------------
(* The descent of a family. *)

\* A family is one account's, is named by a token that was issued, and holds the
\* parents of its tokens.
FamilyOK ==
  /\ \A t, v \in TokenIds :
       TokenExists(t) /\ TokenExists(v) /\ tokens[t].familyId = tokens[v].familyId
         => tokens[t].userId = tokens[v].userId
  /\ \A t \in TokenIds : TokenExists(t) => tokens[tokens[t].familyId].state # "unissued"
  /\ \A t \in TokenIds : TokenExists(t) /\ tokens[t].parent # None =>
       /\ TokenExists(tokens[t].parent)
       /\ tokens[tokens[t].parent].familyId = tokens[t].familyId

Leaf(t) == TokenExists(t) /\ \A c \in TokenIds : tokens[c].parent # t

Forked(f) ==
  \E a, b \in TokenIds :
    /\ a # b
    /\ tokens[a].parent # None /\ tokens[a].parent = tokens[b].parent
    /\ tokens[a].familyId = f

\* A family that has not forked has one youngest token.
LineInv ==
  \A t, v \in TokenIds :
    t # v /\ Leaf(t) /\ Leaf(v) /\ tokens[t].familyId = tokens[v].familyId
      => Forked(tokens[t].familyId)

\* An insert hands a token down within its family, or opens a family.
LEMMA InsertDescends ==
  ASSUME IInv, NEW s \in Slots, TokenInsert(s)
  PROVE  \E t, f \in TokenIds, u \in UserIds, p \in TokenIds \cup {None} :
           /\ InsertToken(t, u, f, p)
           /\ p = None => f = t
           /\ p # None => TokenExists(p) /\ tokens[p].familyId = f /\ tokens[p].userId = u
<1>1. PICK t \in TokenIds :
        InsertToken(t, reqs[s].userId,
                    IF reqs[s].familyId = None THEN t ELSE reqs[s].familyId, reqs[s].token)
  BY DEF TokenInsert
<1>2. reqs[s] \in Request /\ RequestOK(reqs[s]) /\ reqs[s].pc = "token_insert"
        /\ reqs[s].userId \in UserIds
  BY DEF IInv, TypeOK, TokenInsert, RequestOK, LocalsOK, UserPC
<1>3. CASE reqs[s].token = None
  <2>1. reqs[s].familyId = None
    BY <1>2, <1>3 DEF RequestOK, LocalsOK
  <2>2. InsertToken(t, reqs[s].userId, t, None)
    BY <1>1, <1>3, <2>1
  <2>3. QED BY <1>2, <2>2
<1>4. CASE reqs[s].token # None
  <2>1. /\ reqs[s].token \in TokenIds
        /\ reqs[s].familyId \in TokenIds
        /\ tokens[reqs[s].token].state = "revoked"
        /\ tokens[reqs[s].token].userId = reqs[s].userId
        /\ tokens[reqs[s].token].familyId = reqs[s].familyId
    BY <1>1, <1>2, <1>4 DEF InsertToken, UserExists, Request, RequestOK, LocalsOK, PresentedOK
  <2>2. reqs[s].familyId # None
    BY <2>1
  <2>3. InsertToken(t, reqs[s].userId, reqs[s].familyId, reqs[s].token)
    BY <1>1, <2>2
  <2>4. TokenExists(reqs[s].token)
    BY <2>1 DEF TokenExists
  <2>5. QED BY <1>2, <2>1, <2>2, <2>3, <2>4
<1>5. QED BY <1>3, <1>4

\* The insert leaves every family in order, and gives only a token that had a
\* child a second one.
LEMMA InsertLine ==
  ASSUME IInv, FamilyOK, LineInv, NEW s \in Slots, TokenInsert(s)
  PROVE  FamilyOK' /\ LineInv'
<1>0. tokens \in [TokenIds -> TokenRow]
  BY DEF IInv, TypeOK
<1>1. PICK t, f \in TokenIds, u \in UserIds, p \in TokenIds \cup {None} :
        /\ InsertToken(t, u, f, p)
        /\ p = None => f = t
        /\ p # None => TokenExists(p) /\ tokens[p].familyId = f /\ tokens[p].userId = u
  BY InsertDescends
<1>2. /\ tokens[t].state = "unissued" /\ ~ TokenExists(t) /\ tokens[t].parent = None
      /\ tokens[t].familyId = None
  <2>1. tokens[t].state = "unissued" /\ ~ TokenExists(t)
    BY <1>1 DEF InsertToken, TokenExists
  <2>2. tokens[t] = NoToken("unissued")
    BY <2>1 DEF IInv, RowOK
  <2>3. QED BY <2>1, <2>2 DEF NoToken
<1>3. /\ tokens'[t].state = "live" /\ tokens'[t].userId = u
      /\ tokens'[t].familyId = f /\ tokens'[t].parent = p
      /\ \A v \in TokenIds \ {t} : tokens'[v] = tokens[v]
  BY <1>0, <1>1 DEF InsertToken
<1>4. /\ TokenExists(t)'
      /\ \A v \in TokenIds \ {t} : TokenExists(v)' <=> TokenExists(v)
  BY <1>3 DEF TokenExists
<1>5. p # t
  BY <1>1, <1>2
<1>6. \A v \in TokenIds : TokenExists(v) /\ tokens[v].familyId = f =>
        p # None /\ tokens[v].userId = u
  <2> SUFFICES ASSUME NEW v \in TokenIds, TokenExists(v), tokens[v].familyId = f
               PROVE  p # None /\ tokens[v].userId = u
    OBVIOUS
  <2>1. p # None
    BY <1>1, <1>2 DEF FamilyOK
  <2>2. QED BY <1>1, <2>1 DEF FamilyOK
<1>7. FamilyOK'
  <2>1. \A x, y \in TokenIds :
          TokenExists(x)' /\ TokenExists(y)' /\ tokens'[x].familyId = tokens'[y].familyId
            => tokens'[x].userId = tokens'[y].userId
    BY <1>3, <1>4, <1>6 DEF FamilyOK
  <2>2. ASSUME NEW x \in TokenIds, TokenExists(x)'
        PROVE  tokens'[tokens'[x].familyId].state # "unissued"
    <3>1. CASE x = t
      <4>1. CASE p = None
        BY <1>1, <1>3, <3>1, <4>1
      <4>2. CASE p # None
        <5>1. tokens[f].state # "unissued" /\ f # t
          BY <1>1, <1>2, <4>2 DEF FamilyOK
        <5>2. QED BY <1>3, <3>1, <5>1
      <4>3. QED BY <4>1, <4>2
    <3>2. CASE x # t
      <4>1. TokenExists(x) /\ tokens'[x] = tokens[x] /\ tokens[x].familyId \in TokenIds
        BY <1>3, <1>4, <2>2, <3>2 DEF IInv, RowOK
      <4>2. tokens[tokens[x].familyId].state # "unissued"
        BY <4>1 DEF FamilyOK
      <4>3. QED BY <1>3, <4>1, <4>2
    <3>3. QED BY <3>1, <3>2
  <2>3. ASSUME NEW x \in TokenIds, TokenExists(x)', NEW q, q = tokens'[x].parent, q # None
        PROVE  TokenExists(q)' /\ tokens'[q].familyId = tokens'[x].familyId
    <3>1. CASE x = t
      <4>1. p \in TokenIds \ {t} /\ tokens'[x].parent = p /\ tokens'[x].familyId = f
        BY <1>3, <1>5, <2>3, <3>1
      <4>2. TokenExists(p)' /\ tokens'[p].familyId = f
        BY <1>1, <1>3, <1>4, <4>1
      <4>3. QED BY <2>3, <4>1, <4>2
    <3>2. CASE x # t
      <4>1. /\ TokenExists(x) /\ tokens'[x] = tokens[x]
            /\ q \in TokenIds /\ q = tokens[x].parent
        BY <1>0, <1>3, <1>4, <2>3, <3>2 DEF TokenRow
      <4>2. TokenExists(q) /\ tokens[q].familyId = tokens[x].familyId
        BY <2>3, <4>1 DEF FamilyOK
      <4>3. q # t
        BY <1>2, <4>2
      <4>4. TokenExists(q)' /\ tokens'[q] = tokens[q]
        BY <1>3, <1>4, <4>1, <4>2, <4>3
      <4>5. QED BY <4>1, <4>2, <4>4
    <3>3. QED BY <3>1, <3>2
  <2>4. QED BY <2>1, <2>2, <2>3 DEF FamilyOK, TokenExists
<1>8. ASSUME NEW g, Forked(g)  PROVE Forked(g)'
  <2>1. PICK a, b \in TokenIds :
          /\ a # b
          /\ tokens[a].parent # None /\ tokens[a].parent = tokens[b].parent
          /\ tokens[a].familyId = g
    BY <1>8 DEF Forked
  <2>2. a # t /\ b # t
    BY <1>2, <2>1
  <2>3. QED BY <1>3, <2>1, <2>2 DEF Forked
<1>9. ASSUME NEW x \in TokenIds \ {t}, Leaf(x)'
      PROVE  Leaf(x) /\ x # p /\ tokens'[x] = tokens[x]
  BY <1>2, <1>3, <1>4, <1>9 DEF Leaf
<1>10. ASSUME NEW y \in TokenIds \ {t}, Leaf(y)', tokens'[y].familyId = f
       PROVE  Forked(f)'
  <2>1. Leaf(y) /\ y # p /\ TokenExists(y) /\ tokens[y].familyId = f
    BY <1>9, <1>10 DEF Leaf
  <2>2. p \in TokenIds /\ TokenExists(p) /\ tokens[p].familyId = f /\ p # None
    BY <1>1, <1>6, <2>1
  <2>3. CASE Leaf(p)
    BY <1>8, <2>1, <2>2, <2>3 DEF LineInv
  <2>4. CASE ~ Leaf(p)
    <3>1. PICK c \in TokenIds : tokens[c].parent = p
      BY <2>2, <2>4 DEF Leaf
    <3>2. c # t
      BY <1>2, <2>2, <3>1
    <3>3. tokens'[c].parent = p /\ tokens'[t].parent = p /\ tokens'[t].familyId = f
      BY <1>3, <3>1, <3>2
    <3>4. QED BY <2>2, <3>2, <3>3 DEF Forked
  <2>5. QED BY <2>3, <2>4
<1>11. LineInv'
  <2> SUFFICES ASSUME NEW x \in TokenIds, NEW y \in TokenIds, x # y, Leaf(x)', Leaf(y)',
                      NEW g, g = tokens'[x].familyId, g = tokens'[y].familyId
               PROVE  Forked(g)'
    BY DEF LineInv, Forked
  <2>1. CASE x # t /\ y # t
    <3>1. Forked(tokens[x].familyId)
      BY <1>9, <2>1 DEF LineInv
    <3>2. tokens'[x].familyId = tokens[x].familyId
      BY <1>9, <2>1
    <3>3. QED BY <1>8, <3>1, <3>2
  <2>2. CASE x = t
    <3>1. Forked(f)'
      BY <1>3, <1>10, <2>2
    <3>2. QED BY <1>3, <2>2, <3>1
  <2>3. CASE y = t
    <3>1. Forked(f)'
      BY <1>3, <1>10, <2>3
    <3>2. QED BY <1>3, <2>3, <3>1
  <2>4. QED BY <2>1, <2>2, <2>3
<1>12. QED BY <1>7, <1>11

\* Revoking changes no descent.
LEMMA RevokeLine ==
  ASSUME IInv, FamilyOK, LineInv,
         \A t \in TokenIds : /\ tokens'[t].userId = tokens[t].userId
                             /\ tokens'[t].familyId = tokens[t].familyId
                             /\ tokens'[t].parent = tokens[t].parent
                             /\ TokenExists(t)' <=> TokenExists(t)
                             /\ tokens'[t].state = "unissued" <=> tokens[t].state = "unissued"
  PROVE  FamilyOK' /\ LineInv'
<1>0. /\ \A t \in TokenIds : TokenExists(t) => tokens[t].familyId \in TokenIds
      /\ \A t \in TokenIds : tokens[t].parent \in TokenIds \cup {None}
  BY DEF IInv, TypeOK, RowOK, TokenRow
<1>1. FamilyOK'
  <2>1. \A t \in TokenIds : TokenExists(t)' => tokens'[tokens'[t].familyId].state # "unissued"
    BY <1>0 DEF FamilyOK
  <2>2. ASSUME NEW t \in TokenIds, TokenExists(t)', NEW q, q = tokens'[t].parent, q # None
        PROVE  TokenExists(q)' /\ tokens'[q].familyId = tokens'[t].familyId
    BY <1>0, <2>2 DEF FamilyOK
  <2>3. \A t, v \in TokenIds :
          TokenExists(t)' /\ TokenExists(v)' /\ tokens'[t].familyId = tokens'[v].familyId
            => tokens'[t].userId = tokens'[v].userId
    BY DEF FamilyOK
  <2>4. QED BY <2>1, <2>2, <2>3 DEF FamilyOK, TokenExists
<1>2. \A t \in TokenIds : Leaf(t)' <=> Leaf(t)
  BY DEF Leaf
<1>3. \A g : Forked(g)' <=> Forked(g)
  BY DEF Forked
<1>4. LineInv'
  <2> SUFFICES ASSUME NEW x \in TokenIds, NEW y \in TokenIds, x # y, Leaf(x)', Leaf(y)',
                      NEW g, g = tokens'[x].familyId, g = tokens'[y].familyId
               PROVE  Forked(g)'
    BY DEF LineInv, Forked
  <2>1. Forked(g)
    BY <1>2 DEF LineInv
  <2>2. QED BY <1>3, <2>1
<1>5. QED BY <1>1, <1>4

\* An account takes its families with it whole.
LEMMA DeleteLine ==
  ASSUME IInv, FamilyOK, LineInv, NEW u \in UserIds, DeleteUser(u)
  PROVE  FamilyOK' /\ LineInv'
<1>0. tokens \in [TokenIds -> TokenRow] /\ None \notin TokenIds
  BY DEF IInv, TypeOK
<1>1. tokens' = [t \in TokenIds |-> IF TokenExists(t) /\ tokens[t].userId = u
                                    THEN NoToken("deleted") ELSE tokens[t]]
  BY DEF DeleteUser
<1>2. \A t \in TokenIds :
        /\ TokenExists(t)' => TokenExists(t) /\ tokens[t].userId # u /\ tokens'[t] = tokens[t]
        /\ TokenExists(t) /\ tokens[t].userId # u => TokenExists(t)' /\ tokens'[t] = tokens[t]
        /\ tokens'[t].parent # None => TokenExists(t)'
        /\ tokens'[t].state = "unissued" => tokens[t].state = "unissued"
  BY <1>0, <1>1 DEF TokenExists, NoToken, IInv, RowOK
<1>3. \A t \in TokenIds : /\ TokenExists(t) => tokens[t].familyId \in TokenIds
                          /\ tokens[t].parent # None => tokens[t].parent \in TokenIds
                          /\ tokens[t].parent # None => TokenExists(t)
  BY <1>0 DEF IInv, RowOK, TokenRow, NoToken
<1>4. \A t \in TokenIds : tokens[t].parent # None =>
        tokens[tokens[t].parent].userId = tokens[t].userId
  <2> TAKE t \in TokenIds
  <2> SUFFICES ASSUME tokens[t].parent # None
               PROVE  tokens[tokens[t].parent].userId = tokens[t].userId
    OBVIOUS
  <2>1. /\ TokenExists(t) /\ tokens[t].parent \in TokenIds /\ TokenExists(tokens[t].parent)
        /\ tokens[tokens[t].parent].familyId = tokens[t].familyId
    BY <1>3 DEF FamilyOK
  <2>2. QED BY <2>1 DEF FamilyOK
<1>5. FamilyOK'
  <2>1. \A x, y \in TokenIds :
          TokenExists(x)' /\ TokenExists(y)' /\ tokens'[x].familyId = tokens'[y].familyId
            => tokens'[x].userId = tokens'[y].userId
    BY <1>2 DEF FamilyOK
  <2>2. \A x \in TokenIds : TokenExists(x)' => tokens'[tokens'[x].familyId].state # "unissued"
    BY <1>2, <1>3 DEF FamilyOK
  <2>3. ASSUME NEW x \in TokenIds, TokenExists(x)', NEW q, q = tokens'[x].parent, q # None
        PROVE  TokenExists(q)' /\ tokens'[q].familyId = tokens'[x].familyId
    <3>1. TokenExists(x) /\ tokens[x].userId # u /\ tokens'[x] = tokens[x]
      BY <1>2, <2>3
    <3>2. q \in TokenIds /\ q = tokens[x].parent
      BY <1>3, <2>3, <3>1
    <3>3. TokenExists(q) /\ tokens[q].familyId = tokens[x].familyId /\ tokens[q].userId # u
      BY <1>4, <2>3, <3>1, <3>2 DEF FamilyOK
    <3>4. TokenExists(q)' /\ tokens'[q] = tokens[q]
      BY <1>2, <3>2, <3>3
    <3>5. QED BY <3>1, <3>3, <3>4
  <2>4. QED BY <2>1, <2>2, <2>3 DEF FamilyOK, TokenExists
<1>6. \A x \in TokenIds : Leaf(x)' => Leaf(x)
  <2> SUFFICES ASSUME NEW x \in TokenIds, Leaf(x)', NEW c \in TokenIds, tokens[c].parent = x
               PROVE  FALSE
    BY <1>2 DEF Leaf
  <2>1. tokens[x].userId # u
    BY <1>2 DEF Leaf
  <2>2. tokens[c].parent # None
    BY <1>0
  <2>3. TokenExists(c) /\ tokens[c].userId # u
    BY <1>3, <1>4, <2>1, <2>2
  <2>4. tokens'[c].parent = x
    BY <1>2, <2>3
  <2>5. QED BY <2>4 DEF Leaf
<1>7. LineInv'
  <2> SUFFICES ASSUME NEW x \in TokenIds, NEW y \in TokenIds, x # y, Leaf(x)', Leaf(y)',
                      NEW g, g = tokens'[x].familyId, g = tokens'[y].familyId
               PROVE  Forked(g)'
    BY DEF LineInv, Forked
  <2>1. /\ TokenExists(x) /\ tokens[x].userId # u /\ tokens'[x] = tokens[x]
        /\ tokens'[y] = tokens[y]
    BY <1>2 DEF Leaf
  <2>2. Forked(tokens[x].familyId)
    BY <1>6, <2>1 DEF LineInv
  <2>3. PICK a, b \in TokenIds :
          /\ a # b
          /\ tokens[a].parent # None /\ tokens[a].parent = tokens[b].parent
          /\ tokens[a].familyId = tokens[x].familyId
    BY <2>2 DEF Forked
  <2>4. TokenExists(a) /\ TokenExists(b) /\ tokens[a].userId # u
    BY <1>3, <2>1, <2>3 DEF FamilyOK
  <2>5. tokens[b].userId = tokens[a].userId
    BY <1>4, <2>3
  <2>6. tokens'[a] = tokens[a] /\ tokens'[b] = tokens[b]
    BY <1>2, <2>4, <2>5
  <2>7. QED BY <2>1, <2>3, <2>6 DEF Forked
<1>8. QED BY <1>5, <1>7

\* Step by step.
LEMMA LineNext ==
  ASSUME IInv, FamilyOK, LineInv, [Next]_vars
  PROVE  FamilyOK' /\ LineInv'
<1>0. tokens \in [TokenIds -> TokenRow]
  BY DEF IInv, TypeOK
<1>1. CASE UNCHANGED tokens
  BY <1>1, RevokeLine DEF TokenExists
<1>2. ASSUME NEW s \in Slots, RevokeToken(reqs[s].token)
      PROVE  FamilyOK' /\ LineInv'
  BY <1>0, <1>2, RevokeLine DEF RevokeToken, TokenExists, TokenRow
<1>3. ASSUME NEW s \in Slots, RevokeFamily(reqs[s].familyId)
      PROVE  FamilyOK' /\ LineInv'
  BY <1>0, <1>3, RevokeLine DEF RevokeFamily, TokenExists, TokenRow
<1>4. QED BY <1>1, <1>2, <1>3, InsertLine, DeleteLine, TokenSteps

\* Of two live tokens of one family neither is a parent, so that the family has
\* forked: two refreshes have redeemed one token (auth.service.ts:92-127).
THEOREM LiveTokensOfAFork == Spec => []OneLiveUnlessForked
<1>1. Init => FamilyOK /\ LineInv
  BY DEF Init, TablesInit, NoToken, FamilyOK, LineInv, Leaf, TokenExists
<1>2. IInv /\ FamilyOK /\ LineInv /\ [Next]_vars => FamilyOK' /\ LineInv'
  BY LineNext
<1>3. IInv /\ LineInv => OneLiveUnlessForked
  <2> SUFFICES ASSUME IInv, LineInv, NEW t \in TokenIds, NEW v \in TokenIds, t # v,
                      tokens[t].state = "live", tokens[v].state = "live",
                      tokens[t].familyId = tokens[v].familyId
               PROVE  Forked(tokens[t].familyId)
    BY DEF OneLiveUnlessForked, Forked
  <2>1. ASSUME NEW x \in TokenIds, tokens[x].state = "live"  PROVE Leaf(x)
    BY <2>1 DEF Leaf, TokenExists, IInv, RowOK
  <2>2. QED BY <2>1 DEF LineInv
<1>4. QED BY <1>1, <1>2, <1>3, Invariance, PTL DEF Spec

-----------------------------------------------------------------------------
(* Approval. *)

\* The statements that change users, and who issues them.
LEMMA AccountSteps ==
  ASSUME IInv, [Next]_vars
  PROVE  \/ UNCHANGED users
         \/ \E s \in Slots : SignupInsert(s)
         \/ \E v \in UserIds, row \in UserRow :
              /\ row.createdAt = users[v].createdAt
              /\ row.status \in {"active", users[v].status}
              /\ UpdateUser(v, row)
         \/ \E s \in Slots : RemoveDestroy(s)
         \/ CleanupDestroy
<1>0. users \in [UserIds -> UserRow]
  BY DEF IInv, TypeOK
<1> DEFINE Update == \E v \in UserIds, row \in UserRow :
                       /\ row.createdAt = users[v].createdAt
                       /\ row.status \in {"active", users[v].status}
                       /\ UpdateUser(v, row)
<1>1. ASSUME NEW s \in Slots, AuthContinue(s)  PROVE UNCHANGED users \/ Update
  <2>1. CASE LoginSave(s)
    <3> DEFINE u == reqs[s].userId
               row == [users[u] EXCEPT !.hasLoggedIn = TRUE]
    <3>1. u \in UserIds /\ UpdateUser(u, row)
      BY <2>1 DEF LoginSave, IInv, RequestOK, LocalsOK, UserPC
    <3>2. row \in UserRow /\ row.createdAt = users[u].createdAt /\ row.status = users[u].status
      BY <1>0, <3>1 DEF UserRow
    <3>3. QED BY <3>1, <3>2
  <2>2. QED BY <1>1, <2>1 DEF AuthContinue, TokenInsert, TokenInsertFails, ReuseRevoke,
     RefreshSave, RefreshUser, LogoutSave, tableVars
<1>2. ASSUME NEW s \in Slots, UsersContinue(s)
      PROVE  UNCHANGED users \/ Update \/ SignupInsert(s) \/ RemoveDestroy(s)
  <2>1. CASE ApproveSave(s)
    <3> DEFINE u == reqs[s].userId
               row == [users[u] EXCEPT !.status = "active"]
    <3>1. u \in UserIds /\ UpdateUser(u, row)
      BY <2>1 DEF ApproveSave, IInv, RequestOK, LocalsOK, UserPC
    <3>2. row \in UserRow /\ row.createdAt = users[u].createdAt /\ row.status = "active"
      BY <1>0, <3>1 DEF UserRow
    <3>3. QED BY <3>1, <3>2
  <2>2. CASE RoleSave(s)
    <3> DEFINE u == reqs[s].userId
               row == [users[u] EXCEPT !.role = reqs[s].role]
    <3>1. u \in UserIds /\ reqs[s].role \in Role /\ UpdateUser(u, row)
      BY <2>2 DEF RoleSave, IInv, RequestOK, LocalsOK, UserPC
    <3>2. row \in UserRow /\ row.createdAt = users[u].createdAt /\ row.status = users[u].status
      BY <1>0, <3>1 DEF UserRow
    <3>3. QED BY <3>1, <3>2
  <2>3. QED BY <1>2, <2>1, <2>2 DEF UsersContinue, SignupInsertFails, NotFound, ApproveRead,
     RoleRead, RemoveRead, tableVars
<1>3. CASE Calls
  BY <1>3 DEF Calls, AuthStart, UsersStart, LoginRead, LoginReject, RefreshRead, RefreshReuse,
     LogoutRead, SignupRead, ApproveAdmit, RoleAdmit, RemoveAdmit, Admit, AuditView, tableVars
<1>4. CASE Cleanup
  BY <1>4 DEF Cleanup, CleanupStep, CleanupFind, CleanupLog, tableVars
<1>5. CASE Audit \/ Time \/ Faults \/ UNCHANGED vars
  BY <1>5 DEF Audit, Time, Tick, Faults, StatementFails, CleanupFails, Crash, vars, tableVars
<1>6. QED BY <1>1, <1>2, <1>3, <1>4, <1>5 DEF Next, Handlers

\* What happens to one account in one step.
LEMMA RowStep ==
  ASSUME IInv, [Next]_vars, NEW u \in UserIds, users[u].status # "unused"
  PROVE  /\ users[u].status = "active" => users'[u].status \in {"active", "deleted"}
         /\ users[u].status = "deleted" => users'[u].status = "deleted"
         /\ users'[u].status # "unused"
         /\ \/ users'[u].status = "deleted"
            \/ users'[u].createdAt = users[u].createdAt
<1>0. users \in [UserIds -> UserRow]
  BY DEF IInv, TypeOK
<1> DEFINE Goal ==
      /\ users[u].status = "active" => users'[u].status \in {"active", "deleted"}
      /\ users[u].status = "deleted" => users'[u].status = "deleted"
      /\ users'[u].status # "unused"
      /\ \/ users'[u].status = "deleted"
         \/ users'[u].createdAt = users[u].createdAt
<1>1. CASE UNCHANGED users  BY <1>1
<1>2. CASE \E s \in Slots : SignupInsert(s)
  BY <1>0, <1>2 DEF SignupInsert, InsertUser
<1>3. ASSUME NEW v \in UserIds, NEW row \in UserRow, row.createdAt = users[v].createdAt,
             row.status \in {"active", users[v].status}, UpdateUser(v, row)
      PROVE  Goal
  <2>1. CASE UserExists(v) /\ v = u
    <3>1. users'[u] = row /\ users[u].status \in {"pending", "active"}
      BY <1>0, <1>3, <2>1 DEF UpdateUser, UserExists
    <3>2. QED BY <1>3, <2>1, <3>1
  <2>2. CASE ~ (UserExists(v) /\ v = u)
    <3>1. users'[u] = users[u]
      BY <1>0, <1>3, <2>2 DEF UpdateUser
    <3>2. QED BY <3>1
  <2>3. QED BY <2>1, <2>2
<1>4. ASSUME NEW v \in UserIds, DeleteUser(v)
      PROVE  users'[u] = users[u] \/ users'[u].status = "deleted"
  BY <1>0, <1>4 DEF DeleteUser, NoUser
<1>5. CASE \E s \in Slots : RemoveDestroy(s)
  BY <1>4, <1>5 DEF RemoveDestroy, IInv, RequestOK, LocalsOK, UserPC
<1>6. CASE CleanupDestroy
  BY <1>4, <1>6 DEF CleanupDestroy, IInv, TypeOK, Job
<1>7. QED BY <1>1, <1>2, <1>3, <1>5, <1>6, AccountSteps

\* No handler that read an account before its approval takes the approval back.
THEOREM ApprovalKept == Spec => ApprovalSurvives
<1>1. IInv /\ [Next]_vars =>
        [\A u \in UserIds : users[u].status = "active" =>
            users'[u].status \in {"active", "deleted"}]_vars
  BY RowStep
<1>2. QED BY <1>1, Invariance, PTL DEF Spec, ApprovalSurvives

-----------------------------------------------------------------------------
(* The cleanup job. *)

Due(u) == users[u].createdAt + PENDING_ACCOUNT_TTL_DAYS < day

\* What the job holds was due when it was read, and time only runs on.
JobOK ==
  \A u \in job.stale \cup ({job.current} \ {None}) :
    users[u].status = "deleted" \/ (UserExists(u) /\ Due(u))

\* The clock only goes forward.
LEMMA DayStep ==
  ASSUME IInv, [Next]_vars
  PROVE  day \in Nat /\ day' \in Nat /\ day <= day'
<1>0. day \in Nat /\ (UNCHANGED day => day \in Nat /\ day' \in Nat /\ day <= day')
  BY DEF IInv, TypeOK
<1>1. CASE Time
  BY <1>0, <1>1 DEF Time, Tick
<1>2. CASE Calls
  BY <1>0, <1>2 DEF Calls, AuthStart, UsersStart, LoginRead, LoginReject, RefreshRead,
     RefreshReuse, LogoutRead, SignupRead, ApproveAdmit, RoleAdmit, RemoveAdmit, Admit, AuditView,
     tableVars
<1>3. CASE Handlers
  BY <1>0, <1>3 DEF Handlers, AuthContinue, LoginSave, TokenInsert, TokenInsertFails, ReuseRevoke,
     RefreshSave, RefreshUser, LogoutSave, UsersContinue, SignupInsert, SignupInsertFails,
     NotFound, ApproveRead, ApproveSave, RoleRead, RoleSave, RemoveRead, RemoveDestroy, tableVars
<1>4. CASE Cleanup \/ Audit \/ Faults \/ UNCHANGED vars
  BY <1>0, <1>4 DEF Cleanup, CleanupStep, CleanupFind, CleanupLog, CleanupDestroy, Audit, Faults,
     StatementFails, CleanupFails, Crash, vars, tableVars
<1>5. QED BY <1>1, <1>2, <1>3, <1>4 DEF Next

\* What the job holds stays due: no step makes a due account young again.
LEMMA JobOKStep ==
  ASSUME IInv, JobOK, [Next]_vars
  PROVE  JobOK'
<1> DEFINE Held == job.stale \cup ({job.current} \ {None})
<1>0. job \in Job /\ users \in [UserIds -> UserRow] /\ Held \subseteq UserIds
  BY DEF IInv, TypeOK, Job
<1>1. \A u \in Held' : u \in Held \/ (CleanupFind /\ Stale(u) /\ u \in UserIds)
  <2>1. CASE UNCHANGED job  BY <2>1
  <2>2. CASE Cleanup
    BY <1>0, <2>2, IdentityConstants DEF Cleanup, CleanupFind, CleanupStep, CleanupLog,
       CleanupDestroy, NoJob, Job
  <2>3. CASE Faults
    BY <2>1, <2>3 DEF Faults, StatementFails, CleanupFails, Crash, NoJob
  <2>4. CASE Calls
    BY <2>1, <2>4 DEF Calls, UsersStart, SignupRead, ApproveAdmit, RoleAdmit, RemoveAdmit, Admit,
       AuditView
  <2>5. CASE Handlers
    BY <2>1, <2>5 DEF Handlers, UsersContinue, SignupInsert, SignupInsertFails, NotFound,
       ApproveRead, ApproveSave, RoleRead, RoleSave, RemoveRead, RemoveDestroy
  <2>6. CASE Audit \/ Time \/ UNCHANGED vars
    BY <2>1, <2>6 DEF Audit, Time, vars
  <2>7. QED BY <2>2, <2>3, <2>4, <2>5, <2>6 DEF Next
<1>2. ASSUME NEW u \in UserIds, users[u].status = "deleted" \/ (UserExists(u) /\ Due(u))
      PROVE  (users[u].status = "deleted" \/ (UserExists(u) /\ Due(u)))'
  <2>1. users[u].status # "unused" /\ users[u].createdAt \in Nat /\ users'[u] \in UserRow
    BY <1>0, <1>2, NextIInv DEF UserExists, UserRow, IInv, TypeOK
  <2>2. QED
    BY <1>2, <2>1, RowStep, DayStep, IdentityConstants DEF Due, UserExists, UserRow
<1>3. ASSUME NEW u \in UserIds, CleanupFind, Stale(u)
      PROVE  (users[u].status = "deleted" \/ (UserExists(u) /\ Due(u)))'
  <2>1. users[u].createdAt < day - PENDING_ACCOUNT_TTL_DAYS * 1
    BY <1>3 DEF Stale, Policy!deletionCutoffDate
  <2>2. users[u].createdAt \in Nat /\ day \in Nat
    BY <1>0, DayStep DEF UserRow
  <2>3. UserExists(u) /\ Due(u)
    BY <1>3, <2>1, <2>2, IdentityConstants DEF Stale, UserExists, Due
  <2>4. QED BY <2>3, <1>2
<1>4. QED BY <1>0, <1>1, <1>2, <1>3 DEF JobOK

\* An account that disappears was being removed, or was in the job's hands.
LEMMA DeletionStep ==
  ASSUME IInv, JobOK, [Next]_vars, NEW u \in UserIds,
         UserExists(u), users'[u].status = "deleted"
  PROVE  BeingRemoved(u) \/ Due(u)
<1>0. users \in [UserIds -> UserRow]
  BY DEF IInv, TypeOK
<1>1. CASE UNCHANGED users  BY <1>1 DEF UserExists
<1>2. CASE \E s \in Slots : SignupInsert(s)
  BY <1>0, <1>2 DEF SignupInsert, InsertUser, UserExists
<1>3. ASSUME NEW v \in UserIds, NEW row \in UserRow,
             row.status \in {"active", users[v].status}, UpdateUser(v, row)
      PROVE  FALSE
  BY <1>0, <1>3 DEF UpdateUser, UserExists
<1>4. ASSUME NEW v \in UserIds, DeleteUser(v)  PROVE v = u
  BY <1>0, <1>4 DEF DeleteUser, UserExists
<1>5. CASE \E s \in Slots : RemoveDestroy(s)
  BY <1>4, <1>5 DEF RemoveDestroy, BeingRemoved, IInv, RequestOK, LocalsOK, UserPC
<1>6. CASE CleanupDestroy
  <2>1. job.current \in UserIds
    BY <1>6 DEF CleanupDestroy, IInv, TypeOK, Job
  <2>2. job.current = u
    BY <1>4, <1>6, <2>1 DEF CleanupDestroy
  <2>3. QED BY <2>1, <2>2, IdentityConstants DEF JobOK, UserExists
<1>7. QED BY <1>1, <1>2, <1>3, <1>5, <1>6, AccountSteps

\* Unless an administrator removes it, no account is deleted before its time,
\* although the job deletes by an id it read long before.
THEOREM NotBeforeDue == Spec => DeletedOnlyWhenDue
<1>1. Init => JobOK
  BY DEF Init, UsersInit, NoJob, JobOK
<1>2. IInv /\ JobOK /\ [Next]_vars => JobOK'
  BY JobOKStep
<1>3. IInv /\ JobOK /\ [Next]_vars =>
        [\A u \in UserIds : UserExists(u) /\ users'[u].status = "deleted" =>
            \/ BeingRemoved(u)
            \/ users[u].createdAt + PENDING_ACCOUNT_TTL_DAYS < day]_vars
  BY DeletionStep DEF Due
<1>4. QED BY <1>1, <1>2, <1>3, Invariance, PTL DEF Spec, DeletedOnlyWhenDue

-----------------------------------------------------------------------------
(* Refinement. *)

\* Every step maps to a step of TokenLineage or to a stutter.
LEMMA LineageStep ==
  ASSUME IInv, [Next]_vars
  PROVE  Lineage!Next \/ UNCHANGED LineageToken
<1>0. tokens \in [TokenIds -> TokenRow]
  BY DEF IInv, TypeOK
<1>1. CASE UNCHANGED tokens
  BY <1>1 DEF LineageToken
<1>2. ASSUME NEW s \in Slots, TokenInsert(s)  PROVE Lineage!Next
  <2> DEFINE r == reqs[s]
  <2>1. PICK t \in TokenIds :
          InsertToken(t, r.userId, IF r.familyId = None THEN t ELSE r.familyId, r.token)
    BY <1>2 DEF TokenInsert
  <2>2. r \in Request /\ RequestOK(r) /\ r.pc = "token_insert" /\ r.userId \in UserIds
    BY <1>2 DEF IInv, TypeOK, TokenInsert, RequestOK, LocalsOK, UserPC
  <2>3. CASE r.token = None
    <3>1. r.familyId = None
      BY <2>2, <2>3 DEF RequestOK, LocalsOK
    <3>2. Lineage!Open(t, r.userId)
      BY <1>0, <2>1, <2>3, <3>1 DEF InsertToken, Lineage!Open, Lineage!Issue, LineageToken, TokenRow
    <3>3. QED BY <2>2, <3>2 DEF Lineage!Next
  <2>4. CASE r.token # None
    <3>1. /\ r.token \in TokenIds
          /\ r.familyId # None
          /\ tokens[r.token].state = "revoked"
          /\ tokens[r.token].userId = r.userId
          /\ tokens[r.token].familyId = r.familyId
      BY <2>1, <2>2, <2>4 DEF InsertToken, UserExists, Request, RequestOK, LocalsOK, PresentedOK
    <3>2. Lineage!Rotate(t, r.token)
      BY <1>0, <2>1, <3>1 DEF InsertToken, Lineage!Rotate, Lineage!Issue, LineageToken, TokenRow
    <3>3. QED BY <3>1, <3>2 DEF Lineage!Next
  <2>5. QED BY <2>3, <2>4
<1>3. ASSUME NEW s \in Slots, reqs[s].pc \in {"refresh_save", "logout_save"},
             RevokeToken(reqs[s].token)
      PROVE  Lineage!Next \/ UNCHANGED LineageToken
  <2> DEFINE t == reqs[s].token
  <2>1. t \in TokenIds
    BY <1>3 DEF IInv, RequestOK, LocalsOK, TokenPC
  <2>2. CASE tokens[t].state = "live"
    <3>1. tokens[t].familyId \in TokenIds
      BY <2>1, <2>2 DEF IInv, RowOK, TokenExists
    <3>2. t \in Lineage!Live(tokens[t].familyId)
      BY <2>1, <2>2 DEF Lineage!Live, LineageToken
    <3>3. LineageToken' = [v \in TokenIds |->
             IF v \in {t} THEN [LineageToken[v] EXCEPT !.state = "revoked"] ELSE LineageToken[v]]
      BY <1>0, <1>3, <2>1, <2>2 DEF RevokeToken, LineageToken, TokenRow
    <3>4. Lineage!Revoke(tokens[t].familyId)
      BY <3>2, <3>3 DEF Lineage!Revoke
    <3>5. QED BY <3>1, <3>4 DEF Lineage!Next
  <2>3. CASE tokens[t].state # "live"
    BY <1>0, <1>3, <2>1, <2>3 DEF RevokeToken, LineageToken, TokenRow
  <2>4. QED BY <2>2, <2>3
<1>4. ASSUME NEW s \in Slots, reqs[s].pc = "reuse_revoke", RevokeFamily(reqs[s].familyId)
      PROVE  Lineage!Next
  <2> DEFINE f == reqs[s].familyId
  <2>1. f \in TokenIds
    BY <1>4 DEF IInv, RequestOK, LocalsOK, TokenPC
  <2>2. LineageToken' = [v \in TokenIds |->
           IF v \in Lineage!Live(f) THEN [LineageToken[v] EXCEPT !.state = "revoked"]
                                    ELSE LineageToken[v]]
    BY <1>0, <1>4, <2>1 DEF RevokeFamily, LineageToken, TokenRow, Lineage!Live
  <2>3. Lineage!Revoke(f)
    BY <2>2 DEF Lineage!Revoke
  <2>4. QED BY <2>1, <2>3 DEF Lineage!Next
<1>5. ASSUME NEW u \in UserIds, DeleteUser(u)  PROVE Lineage!Next
  <2>1. \A t \in TokenIds : TokenExists(t) /\ tokens[t].userId = u <=> tokens[t].userId = u
    BY <1>0 DEF IInv, RowOK, NoToken
  <2>2. Lineage!Purge(u)
    BY <1>0, <1>5, <2>1 DEF DeleteUser, Lineage!Purge, Lineage!NoRow, NoToken, LineageToken,
                            TokenRow
  <2>3. QED BY <2>2 DEF Lineage!Next
<1>6. QED BY <1>1, <1>2, <1>3, <1>4, <1>5, TokenSteps

\* The handlers implement TokenLineage: whatever interleaves, each step of
\* theirs is a step of it or changes no token.
THEOREM Refinement == Spec => ImplementsLineage
<1>1. Init => Lineage!Init
  BY DEF Init, TablesInit, NoToken, Lineage!Init, Lineage!NoRow, LineageToken
<1>2. IInv /\ [Next]_vars => [Lineage!Next]_LineageToken
  BY LineageStep
<1>3. QED BY <1>1, <1>2, Invariance, PTL DEF Spec, ImplementsLineage, Lineage!Spec

-----------------------------------------------------------------------------
(* Accounts, beside which the content half runs: whatever that half relies *)
(* on about accounts, Identity provides.                                    *)

\* UPDATE users, as the content half sees it.
LEMMA UpdateStep ==
  ASSUME users \in [UserIds -> UserRow], NEW u \in UserIds, NEW row \in UserRow,
         row.status \in {"active", users[u].status}, UpdateUser(u, row)
  PROVE  Account!Next \/ UNCHANGED Standing
<1>1. CASE UserExists(u) /\ row.status = "active"
  <2>1. users' = [users EXCEPT ![u] = row] /\ users[u].status \in {"pending", "active"}
    BY <1>1 DEF UpdateUser, UserExists
  <2>2. row.role \in {"editor", "admin"} /\ users[u].role \in {"editor", "admin"}
    BY DEF UserRow, Role
  <2>3. Standing' = [Standing EXCEPT ![u] = row.role]
    BY <1>1, <2>1 DEF Standing
  <2>4. Standing[u] # "gone"
    BY <2>1, <2>2 DEF Standing
  <2>5. CASE Standing[u] = row.role
    <3>1. PICK f : f = Standing
      OBVIOUS
    <3>2. f = [v \in UserIds |-> f[v]] /\ f[u] = row.role
      BY <2>5, <3>1 DEF Standing
    <3>3. [f EXCEPT ![u] = row.role] = f
      BY <3>2
    <3>4. QED BY <2>3, <3>1, <3>3
  <2>6. CASE Standing[u] # row.role
    BY <2>2, <2>3, <2>4, <2>6 DEF Account!Next, Account!Grant, Account!Roles
  <2>7. QED BY <2>5, <2>6
<1>2. CASE UserExists(u) /\ row.status # "active"
  <2>1. users' = [users EXCEPT ![u] = row] /\ users[u].status = "pending"
           /\ row.status = "pending"
    BY <1>2 DEF UpdateUser, UserExists
  <2>2. QED BY <2>1 DEF Standing
<1>3. CASE ~ UserExists(u)
  BY <1>3 DEF UpdateUser, Standing
<1>4. QED BY <1>1, <1>2, <1>3

\* DELETE FROM users, as the content half sees it.
LEMMA DeleteStep ==
  ASSUME users \in [UserIds -> UserRow], NEW u \in UserIds, DeleteUser(u)
  PROVE  Account!Next \/ UNCHANGED Standing
<1>1. CASE UserExists(u)
  <2>1. users' = [users EXCEPT ![u] = NoUser("deleted")] /\ users[u].status \in {"pending", "active"}
    BY <1>1 DEF DeleteUser, UserExists
  <2>2. Standing' = [Standing EXCEPT ![u] = "gone"]
    BY <2>1 DEF Standing, NoUser
  <2>3. Standing[u] # "gone"
    BY <2>1 DEF Standing, UserRow, Role
  <2>4. QED BY <2>2, <2>3 DEF Account!Next, Account!Delete
<1>2. CASE ~ UserExists(u)
  BY <1>2 DEF DeleteUser, Standing
<1>3. QED BY <1>1, <1>2

\* Every step of Identity, as the content half sees it.
LEMMA AccountStep ==
  ASSUME IInv, [Next]_vars
  PROVE  Account!Next \/ UNCHANGED Standing
<1>0. users \in [UserIds -> UserRow]
  BY DEF IInv, TypeOK
<1>1. CASE UNCHANGED users
  BY <1>1 DEF Standing
<1>2. CASE \E s \in Slots : SignupInsert(s)
  <2>1. PICK u \in UserIds, email \in Emails \cup {None} :
          /\ users[u].status = "unused"
          /\ users' = [users EXCEPT ![u] = [status |-> "pending", email |-> email,
                         role |-> "editor", createdAt |-> day, hasLoggedIn |-> FALSE]]
    BY <1>2 DEF SignupInsert, InsertUser, IInv, TypeOK, Request
  <2>2. QED BY <1>0, <2>1 DEF Standing
<1>3. CASE \E u \in UserIds, row \in UserRow :
             /\ row.status \in {"active", users[u].status}
             /\ UpdateUser(u, row)
  BY <1>0, <1>3, UpdateStep
<1>4. CASE \E s \in Slots : RemoveDestroy(s)
  BY <1>0, <1>4, DeleteStep DEF RemoveDestroy, IInv, RequestOK, LocalsOK, UserPC
<1>5. CASE CleanupDestroy
  BY <1>0, <1>5, DeleteStep DEF CleanupDestroy, IInv, TypeOK, Job
<1>6. QED BY <1>1, <1>2, <1>3, <1>4, <1>5, AccountSteps

\* Identity implements Accounts: an account is approved, changes its role and
\* goes in atomic steps, and never comes back, for any number of requests, jobs
\* and faults.
THEOREM AccountsRefinement == Spec => ImplementsAccounts
<1>1. Init => Account!Init
  BY IdentityConstants DEF Init, TablesInit, NoUser, Account!Init, Standing
<1>2. IInv /\ [Next]_vars => [Account!Next]_Standing
  BY AccountStep
<1>3. QED BY <1>1, <1>2, Invariance, PTL DEF Spec, ImplementsAccounts, Account!Spec

-----------------------------------------------------------------------------
(* The audit log: its entries do not run ahead of the accounts and, but    *)
(* for faults, no account goes without one.                                *)

\* The entries the theorems are about.
AccountActions == {"user_deleted", "user_approved", "user_auto_deleted"}

\* A handler about to write to an account has found it.
HeldOK ==
  \A s \in Slots : reqs[s].pc \in {"approve_save", "remove_destroy"} =>
    users[reqs[s].userId].status # "unused"

\* What the entries about an account, on their way or landed, leave it to be.
EntriesOK(u) ==
  /\ Logged("user_deleted", u) => users[u].status = "deleted"
  /\ Logged("user_approved", u) => users[u].status \in {"active", "deleted"}
  /\ Logged("user_auto_deleted", u) =>
       users[u].status = "deleted" \/ job.current = u \/ faults > 0

\* The inductive invariant, beside IInv and JobOK.
LoggedInv ==
  /\ HeldOK
  /\ \A u \in UserIds : EntriesOK(u)

-----------------------------------------------------------------------------
\* What log() adds.
LEMMA LogAdds ==
  ASSUME NEW action, NEW subject, Log(action, subject), NEW b, NEW u
  PROVE  /\ Logged(b, u)' => Logged(b, u) \/ (b = action /\ u = subject)
         /\ Logged(b, u) => Logged(b, u)'
         /\ action \in Audited => Logged(action, subject)'
BY DEF Log, Logged

\* A step of another kind adds nothing.
LEMMA NothingAdded ==
  ASSUME auditPending' \cup auditLog' \subseteq auditPending \cup auditLog, NEW b, NEW u
  PROVE  Logged(b, u)' => Logged(b, u)
BY DEF Logged

\* Who adds an entry about an account.
LEMMA NewEntries ==
  ASSUME IInv, [Next]_vars, NEW b \in AccountActions, NEW u \in UserIds,
         Logged(b, u)', ~ Logged(b, u)
  PROVE  \/ /\ b = "user_deleted"
            /\ \E s \in Slots : RemoveDestroy(s) /\ reqs[s].userId = u
         \/ /\ b = "user_approved"
            /\ \E s \in Slots : /\ reqs[s].userId = u
                                /\ \/ ApproveSave(s)
                                   \/ ApproveRead(s) /\ users[u].status = "active"
         \/ /\ b = "user_auto_deleted"
            /\ CleanupLog(u)
<1>1. b \notin {"login_success", "login_failed", "signup", "logout", "user_role_changed",
                "refresh_token_reuse_detected", "audit_log_viewed"}
  BY DEF AccountActions
<1>2. ~ UNCHANGED auditVars
  BY DEF auditVars, Logged
<1>3. ASSUME NEW action, NEW subject, Log(action, subject)
      PROVE  b = action /\ u = subject
  BY <1>3, LogAdds
<1>4. ASSUME NEW s \in Slots, AuthStart(s)
      PROVE  FALSE
  <2>1. CASE \E email \in Emails : LoginReject(s, email)
    BY <1>1, <1>3, <2>1 DEF LoginReject
  <2>2. CASE ~ \E email \in Emails : LoginReject(s, email)
    BY <1>2, <1>4, <2>2 DEF AuthStart, LoginRead, RefreshRead, RefreshReuse, LogoutRead
  <2>3. QED BY <2>1, <2>2
<1>5. ASSUME NEW s \in Slots, UsersStart(s)
      PROVE  FALSE
  <2>1. CASE \E v \in UserIds : AuditView(s, v)
    BY <1>1, <1>3, <2>1 DEF AuditView
  <2>2. CASE ~ \E v \in UserIds : AuditView(s, v)
    BY <1>2, <1>5, <2>2 DEF UsersStart, SignupRead, ApproveAdmit, RoleAdmit, RemoveAdmit, Admit
  <2>3. QED BY <2>1, <2>2
<1>6. ASSUME NEW s \in Slots, AuthContinue(s)
      PROVE  FALSE
  <2>1. CASE LoginSave(s)
    BY <1>1, <1>3, <2>1 DEF LoginSave
  <2>2. CASE ReuseRevoke(s)
    BY <1>1, <1>3, <2>2 DEF ReuseRevoke
  <2>3. CASE LogoutSave(s)
    BY <1>1, <1>2, <1>3, <2>3 DEF LogoutSave
  <2>4. CASE TokenInsert(s) \/ TokenInsertFails(s) \/ RefreshSave(s) \/ RefreshUser(s)
    BY <1>2, <2>4 DEF TokenInsert, TokenInsertFails, RefreshSave, RefreshUser
  <2>5. QED BY <1>6, <2>1, <2>2, <2>3, <2>4 DEF AuthContinue
<1>7. ASSUME NEW s \in Slots, UsersContinue(s)
      PROVE  \/ b = "user_deleted" /\ RemoveDestroy(s) /\ reqs[s].userId = u
             \/ /\ b = "user_approved" /\ reqs[s].userId = u
                /\ ApproveSave(s) \/ (ApproveRead(s) /\ users[u].status = "active")
  <2>1. CASE SignupInsert(s)
    BY <1>1, <1>3, <2>1 DEF SignupInsert
  <2>2. CASE ApproveRead(s)
    <3>1. CASE users[reqs[s].userId].status = "pending"
      BY <1>2, <2>2, <3>1 DEF ApproveRead
    <3>2. CASE users[reqs[s].userId].status # "pending"
      BY <1>3, <2>2, <3>2 DEF ApproveRead, UserExists
    <3>3. QED BY <3>1, <3>2
  <2>3. CASE ApproveSave(s)
    BY <1>3, <2>3 DEF ApproveSave
  <2>4. CASE RoleRead(s)
    BY <1>1, <1>2, <1>3, <2>4 DEF RoleRead
  <2>5. CASE RoleSave(s)
    BY <1>1, <1>3, <2>5 DEF RoleSave
  <2>6. CASE RemoveDestroy(s)
    BY <1>3, <2>6 DEF RemoveDestroy
  <2>7. CASE SignupInsertFails(s) \/ NotFound(s) \/ RemoveRead(s)
    BY <1>2, <2>7 DEF SignupInsertFails, NotFound, RemoveRead
  <2>8. QED BY <1>7, <2>1, <2>2, <2>3, <2>4, <2>5, <2>6, <2>7 DEF UsersContinue
<1>8. CASE Cleanup
  <2>1. CASE \E v \in UserIds : CleanupLog(v)
    <3>1. PICK v \in UserIds : CleanupLog(v)
      BY <2>1
    <3>2. b = "user_auto_deleted" /\ u = v
      BY <1>3, <3>1 DEF CleanupLog
    <3>3. QED BY <3>1, <3>2
  <2>2. CASE CleanupFind \/ CleanupDestroy
    BY <1>2, <2>2 DEF CleanupFind, CleanupDestroy
  <2>3. QED BY <1>8, <2>1, <2>2 DEF Cleanup, CleanupStep
<1>9. ~ Audit
  BY DEF Audit, AuditInsert, AuditFail, Logged
<1>10. ~ Time /\ ~ UNCHANGED vars
  BY <1>2 DEF Time, vars
<1>11. ~ Faults
  BY <1>2 DEF Faults, StatementFails, CleanupFails, Crash, Logged, auditVars
<1>12. QED BY <1>4, <1>5, <1>6, <1>7, <1>8, <1>9, <1>10, <1>11 DEF Next, Calls, Handlers

\* A handler holds an account only after it has found it.
LEMMA NewlyHeld ==
  ASSUME IInv, [Next]_vars, NEW s \in Slots,
         reqs'[s].pc \in {"approve_save", "remove_destroy"}
  PROVE  \/ reqs'[s] = reqs[s]
         \/ reqs'[s].userId = reqs[s].userId /\ UserExists(reqs[s].userId)
<1>0. reqs \in [Slots -> Request]
  BY DEF IInv, TypeOK
<1>1. Idle.pc = "idle"
  BY DEF Idle
<1>2. ASSUME NEW q \in Slots, NEW pc, Continue(q, pc), pc \notin {"approve_save", "remove_destroy"}
      PROVE  reqs'[s] = reqs[s]
  BY <1>0, <1>2 DEF Continue, Request
<1>3. ASSUME NEW q \in Slots, NEW r, reqs' = [reqs EXCEPT ![q] = r],
             r.pc \notin {"approve_save", "remove_destroy"}
      PROVE  reqs'[s] = reqs[s]
  BY <1>0, <1>3
<1>4. ASSUME NEW q \in Slots, Respond(q)
      PROVE  reqs'[s] = reqs[s]
  BY <1>1, <1>3, <1>4 DEF Respond
<1>5. ASSUME NEW q \in Slots, AuthStart(q) \/ UsersStart(q)
      PROVE  reqs'[s] = reqs[s]
  <2>1. ASSUME NEW r, Start(q, r), r.pc \notin {"approve_save", "remove_destroy"}
        PROVE  reqs'[s] = reqs[s]
    BY <1>3, <2>1 DEF Start
  <2>2. ASSUME NEW email \in Emails, LoginRead(q, email)
        PROVE  reqs'[s] = reqs[s]
    <3>1. PICK u \in UserIds : Start(q, [Idle EXCEPT !.pc = "login_save", !.userId = u])
      BY <2>2 DEF LoginRead, FindByEmail
    <3>2. QED BY <2>1, <3>1 DEF Idle
  <2>3. ASSUME NEW t \in TokenIds, RefreshRead(q, t) \/ RefreshReuse(q, t) \/ LogoutRead(q, t)
        PROVE  reqs'[s] = reqs[s]
    <3>1. \E pc \in {"refresh_save", "reuse_revoke", "logout_save"} : Start(q, Stored(t, pc))
      BY <2>3 DEF RefreshRead, RefreshReuse, LogoutRead
    <3>2. QED BY <2>1, <3>1 DEF Stored, Idle
  <2>4. ASSUME NEW email \in Emails, SignupRead(q, email)
        PROVE  reqs'[s] = reqs[s]
    BY <2>1, <2>4 DEF SignupRead, Idle
  <2>5. ASSUME NEW u \in UserIds,
               \/ ApproveAdmit(q, u)
               \/ \E role \in Role : RoleAdmit(q, u, role)
               \/ RemoveAdmit(q, u)
        PROVE  reqs'[s] = reqs[s]
    <3>1. \/ Start(q, [Idle EXCEPT !.pc = "approve_read", !.userId = u])
          \/ \E role \in Role : Start(q, [Idle EXCEPT !.pc = "role_read", !.userId = u, !.role = role])
          \/ Start(q, [Idle EXCEPT !.pc = "remove_read", !.userId = u])
      BY <2>5 DEF ApproveAdmit, RoleAdmit, RemoveAdmit, Admit
    <3>2. QED BY <2>1, <3>1 DEF Idle
  <2>6. CASE UNCHANGED requestVars
    BY <2>6 DEF requestVars
  <2>7. AuthStart(q) => reqs'[s] = reqs[s]
    BY <2>2, <2>3, <2>6 DEF AuthStart, LoginReject
  <2>8. UsersStart(q) => reqs'[s] = reqs[s]
    BY <2>4, <2>5, <2>6 DEF UsersStart, AuditView
  <2>9. QED BY <1>5, <2>7, <2>8
<1>6. ASSUME NEW q \in Slots, AuthContinue(q)
      PROVE  reqs'[s] = reqs[s]
  BY <1>2, <1>4, <1>6 DEF AuthContinue, LoginSave, TokenInsert, TokenInsertFails, ReuseRevoke,
     RefreshSave, RefreshUser, LogoutSave
<1>7. ASSUME NEW q \in Slots, UsersContinue(q)
      PROVE  \/ reqs'[s] = reqs[s]
             \/ reqs'[s].userId = reqs[s].userId /\ UserExists(reqs[s].userId)
  <2>1. CASE Respond(q)
    BY <1>4, <2>1
  <2>2. CASE ~ Respond(q)
    <3>1. /\ Continue(q, "approve_save") \/ Continue(q, "remove_destroy")
             \/ Continue(q, "role_save")
          /\ UserExists(reqs[q].userId)
      BY <1>7, <2>2 DEF UsersContinue, SignupInsert, SignupInsertFails, NotFound, ApproveRead,
         ApproveSave, RoleRead, RoleSave, RemoveRead, RemoveDestroy
    <3>2. QED BY <1>0, <3>1 DEF Continue, Request
  <2>3. QED BY <2>1, <2>2
<1>8. CASE Cleanup \/ Audit \/ Time \/ UNCHANGED vars
  BY <1>8 DEF Cleanup, CleanupStep, CleanupFind, CleanupLog, CleanupDestroy, Audit, Time, vars,
     requestVars
<1>9. CASE Faults
  <2>1. CASE Crash
    BY <1>1, <2>1 DEF Crash
  <2>2. CASE CleanupFails
    BY <2>2 DEF CleanupFails, requestVars
  <2>3. CASE \E q \in Slots : StatementFails(q)
    BY <1>4, <2>3 DEF StatementFails
  <2>4. QED BY <1>9, <2>1, <2>2, <2>3 DEF Faults
<1>10. QED BY <1>5, <1>6, <1>7, <1>8, <1>9 DEF Next, Calls, Handlers

\* And an account that was found is never an unused id again.
LEMMA HeldStep ==
  ASSUME IInv, HeldOK, [Next]_vars
  PROVE  HeldOK'
<1> SUFFICES ASSUME NEW s \in Slots, reqs'[s].pc \in {"approve_save", "remove_destroy"}
             PROVE  users'[reqs'[s].userId].status # "unused"
  BY DEF HeldOK
<1>1. reqs'[s].userId \in UserIds
  BY NextIInv DEF IInv, RequestOK, LocalsOK, UserPC
<1>2. users[reqs'[s].userId].status # "unused"
  BY NewlyHeld DEF HeldOK, UserExists
<1>3. QED BY <1>1, <1>2, RowStep

\* Faults are counted, and no step takes one back.
LEMMA FaultStep ==
  ASSUME IInv, [Next]_vars
  PROVE  faults \in Nat /\ faults' \in Nat /\ faults <= faults'
<1>0. faults \in Nat
  BY DEF IInv, TypeOK
<1>1. CASE UNCHANGED faults
  BY <1>0, <1>1
<1>2. CASE Fault
  BY <1>0, <1>2 DEF Fault
<1>3. UNCHANGED faults \/ Fault
  BY DEF Next, Calls, Handlers, Cleanup, Audit, Time, Faults, StatementFails, CleanupFails, Crash,
     vars
<1>4. QED BY <1>1, <1>2, <1>3

\* The account that the job has in hand.
LEMMA CurrentStep ==
  ASSUME IInv, [Next]_vars
  PROVE  \/ job'.current = job.current
         \/ job'.current = None /\ (Fault \/ CleanupDestroy)
         \/ \E u \in UserIds : CleanupLog(u) /\ job'.current = u
<1>0. job \in Job
  BY DEF IInv, TypeOK
<1>1. CASE Calls
  BY <1>1 DEF Calls, UsersStart, SignupRead, ApproveAdmit, RoleAdmit, RemoveAdmit, Admit, AuditView
<1>2. CASE Handlers
  BY <1>2 DEF Handlers, UsersContinue, SignupInsert, SignupInsertFails, NotFound,
     ApproveRead, ApproveSave, RoleRead, RoleSave, RemoveRead, RemoveDestroy
<1>3. CASE Cleanup
  BY <1>0, <1>3 DEF Cleanup, CleanupStep, CleanupFind, CleanupLog, CleanupDestroy, NoJob, Job
<1>4. CASE Faults
  BY <1>4 DEF Faults, StatementFails, CleanupFails, Crash, NoJob
<1>5. CASE Audit \/ Time \/ UNCHANGED vars
  BY <1>5 DEF Audit, Time, vars
<1>6. QED BY <1>1, <1>2, <1>3, <1>4, <1>5 DEF Next

\* It is let go once it is deleted, or by a fault.
LEMMA JobStep ==
  ASSUME IInv, JobOK, [Next]_vars, NEW u \in UserIds, job.current = u
  PROVE  users'[u].status = "deleted" \/ job'.current = u \/ faults' > 0
<1>0. users \in [UserIds -> UserRow] /\ u # None
  BY IdentityConstants DEF IInv, TypeOK
<1>1. CASE Fault
  BY <1>1 DEF Fault, IInv, TypeOK
<1>2. CASE CleanupDestroy
  <2>1. users[u].status = "deleted" \/ UserExists(u)
    BY <1>0 DEF JobOK
  <2>2. DeleteUser(u)
    BY <1>2 DEF CleanupDestroy
  <2>3. QED BY <1>0, <2>1, <2>2 DEF DeleteUser, NoUser
<1>3. CASE \E v \in UserIds : CleanupLog(v)
  BY <1>0, <1>3 DEF CleanupLog
<1>4. QED BY <1>1, <1>2, <1>3, CurrentStep

\* Who deletes an account.
LEMMA WhoDeletes ==
  ASSUME IInv, [Next]_vars, NEW u \in UserIds, users[u].status # "deleted",
         users'[u].status = "deleted"
  PROVE  \/ \E s \in Slots : RemoveDestroy(s) /\ reqs[s].userId = u
         \/ CleanupDestroy /\ job.current = u
<1>0. users \in [UserIds -> UserRow]
  BY DEF IInv, TypeOK
<1>1. CASE UNCHANGED users
  BY <1>1
<1>2. CASE \E s \in Slots : SignupInsert(s)
  BY <1>0, <1>2 DEF SignupInsert, InsertUser
<1>3. ASSUME NEW v \in UserIds, NEW row \in UserRow,
             row.status \in {"active", users[v].status}, UpdateUser(v, row)
      PROVE  FALSE
  BY <1>0, <1>3 DEF UpdateUser, UserExists
<1>4. ASSUME NEW v \in UserIds, DeleteUser(v)
      PROVE  v = u
  BY <1>0, <1>4 DEF DeleteUser
<1>5. ASSUME NEW s \in Slots, RemoveDestroy(s)
      PROVE  reqs[s].userId = u
  BY <1>4, <1>5 DEF RemoveDestroy, IInv, RequestOK, LocalsOK, UserPC
<1>6. CASE CleanupDestroy
  BY <1>4, <1>6 DEF CleanupDestroy, IInv, TypeOK, Job
<1>7. QED BY <1>1, <1>2, <1>3, <1>5, <1>6, AccountSteps

\* What an entry about an account says is true when it is written, and stays so.
LEMMA EntriesStep ==
  ASSUME IInv, JobOK, HeldOK, [Next]_vars, NEW u \in UserIds, EntriesOK(u)
  PROVE  EntriesOK(u)'
<1>0. users \in [UserIds -> UserRow] /\ job \in Job /\ faults \in Nat
  BY DEF IInv, TypeOK
<1>1. ASSUME Logged("user_deleted", u)'
      PROVE  users'[u].status = "deleted"
  <2>1. CASE Logged("user_deleted", u)
    BY <2>1, RowStep DEF EntriesOK
  <2>2. CASE ~ Logged("user_deleted", u)
    <3>1. PICK s \in Slots : RemoveDestroy(s) /\ reqs[s].userId = u
      BY <1>1, <2>2, NewEntries DEF AccountActions
    <3>2. users[u].status \in {"pending", "active", "deleted"}
      BY <1>0, <3>1 DEF RemoveDestroy, HeldOK, UserRow
    <3>3. DeleteUser(u)
      BY <3>1 DEF RemoveDestroy
    <3>4. QED BY <1>0, <3>2, <3>3 DEF DeleteUser, UserExists, NoUser
  <2>3. QED BY <2>1, <2>2
<1>2. ASSUME Logged("user_approved", u)'
      PROVE  users'[u].status \in {"active", "deleted"}
  <2>1. CASE users[u].status \in {"active", "deleted"}
    BY <2>1, RowStep
  <2>2. CASE users[u].status \notin {"active", "deleted"}
    <3>1. PICK s \in Slots : ApproveSave(s) /\ reqs[s].userId = u
      BY <1>2, <2>2, NewEntries DEF AccountActions, EntriesOK
    <3>2. users[u].status = "pending"
      BY <1>0, <2>2, <3>1 DEF ApproveSave, HeldOK, UserRow
    <3>3. UpdateUser(u, [users[u] EXCEPT !.status = "active"])
      BY <3>1 DEF ApproveSave
    <3>4. users'[u] = [users[u] EXCEPT !.status = "active"]
      BY <1>0, <3>2, <3>3 DEF UpdateUser, UserExists
    <3>5. QED BY <1>0, <3>4 DEF UserRow
  <2>3. QED BY <2>1, <2>2
<1>3. ASSUME Logged("user_auto_deleted", u)'
      PROVE  users'[u].status = "deleted" \/ job'.current = u \/ faults' > 0
  <2>1. CASE users[u].status = "deleted"
    BY <2>1, RowStep
  <2>2. CASE ~ Logged("user_auto_deleted", u)
    <3>1. CleanupLog(u)
      BY <1>3, <2>2, NewEntries DEF AccountActions
    <3>2. QED BY <3>1 DEF CleanupLog
  <2>3. CASE faults > 0
    BY <1>0, <2>3, FaultStep
  <2>4. CASE job.current = u
    BY <2>4, JobStep
  <2>5. QED BY <2>1, <2>2, <2>3, <2>4 DEF EntriesOK
<1>4. QED BY <1>1, <1>2, <1>3 DEF EntriesOK

LEMMA LoggedInvHolds == Spec => [](IInv /\ JobOK /\ LoggedInv)
<1>1. Init => JobOK /\ LoggedInv
  <2> SUFFICES ASSUME Init PROVE JobOK /\ LoggedInv
    OBVIOUS
  <2>1. JobOK
    BY DEF Init, UsersInit, NoJob, JobOK
  <2>2. HeldOK
    BY DEF Init, RequestsInit, Idle, HeldOK
  <2>3. \A u \in UserIds : EntriesOK(u)
    BY DEF Init, AuditInit, EntriesOK, Logged
  <2>4. QED BY <2>1, <2>2, <2>3 DEF LoggedInv
<1>2. IInv /\ JobOK /\ LoggedInv /\ [Next]_vars => (JobOK /\ LoggedInv)'
  BY JobOKStep, HeldStep, EntriesStep DEF LoggedInv
<1>3. QED BY <1>1, <1>2, Invariance, PTL DEF Spec

\* The audit log does not run ahead of the deletions: an account it reports
\* deleted is gone, but for the entry that the job writes first
\* (users.service.ts:83-90, user-cleanup.service.ts:55-64).
THEOREM EntriesNotAhead == Spec => []AuditNotAhead
<1>1. LoggedInv => AuditNotAhead
  <2> SUFFICES ASSUME LoggedInv, NEW u \in UserIds
               PROVE  /\ <<"user_deleted", u>> \in auditLog => users[u].status = "deleted"
                      /\ <<"user_auto_deleted", u>> \in auditLog =>
                           users[u].status = "deleted" \/ job.current = u \/ faults > 0
    BY DEF AuditNotAhead
  <2>1. \A b : <<b, u>> \in auditLog => Logged(b, u)
    BY DEF Logged
  <2>2. QED BY <2>1 DEF LoggedInv, EntriesOK
<1>2. QED BY <1>1, LoggedInvHolds, PTL

\* An account that is reported as approved, or is about to be, waits no more.  That
\* it was ever approved does not follow: approve() that is overtaken by the
\* deletion of its account updates no row and logs all the same.
ApprovedNotPending ==
  \A u \in UserIds : Logged("user_approved", u) => users[u].status \in {"active", "deleted"}

\* user_approved is logged only of an account that is active, or gone with or
\* without an approval (users.service.ts:51-60).
THEOREM ApprovedWaitNoMore == Spec => []ApprovedNotPending
<1>1. LoggedInv => ApprovedNotPending
  BY DEF LoggedInv, EntriesOK, ApprovedNotPending
<1>2. QED BY <1>1, LoggedInvHolds, PTL

-----------------------------------------------------------------------------
(* The other direction: no account goes without an entry. *)

\* Without a fault, an entry once written is on its way or has landed.
LEMMA EntriesStay ==
  ASSUME IInv, [Next]_vars, faults' = 0, NEW b, NEW u, Logged(b, u)
  PROVE  Logged(b, u)'
<1>0. faults = 0
  BY FaultStep DEF IInv, TypeOK
<1>1. \A action, subject : Log(action, subject) => Logged(b, u)'
  BY LogAdds
<1>2. UNCHANGED auditVars => Logged(b, u)'
  BY DEF Logged, auditVars
<1>3. CASE Calls
  BY <1>1, <1>2, <1>3 DEF Calls, AuthStart, UsersStart, LoginRead, LoginReject, RefreshRead,
     RefreshReuse, LogoutRead, SignupRead, ApproveAdmit, RoleAdmit, RemoveAdmit, Admit, AuditView
<1>4. CASE Handlers
  BY <1>1, <1>2, <1>4 DEF Handlers, AuthContinue, LoginSave, TokenInsert, TokenInsertFails,
     ReuseRevoke, RefreshSave, RefreshUser, LogoutSave, UsersContinue, SignupInsert,
     SignupInsertFails, NotFound, ApproveRead, ApproveSave, RoleRead, RoleSave, RemoveRead,
     RemoveDestroy
<1>5. CASE Cleanup
  BY <1>1, <1>2, <1>5 DEF Cleanup, CleanupStep, CleanupFind, CleanupLog, CleanupDestroy
<1>6. CASE Audit
  <2>1. PICK entry \in auditPending : AuditInsert(entry)
    BY <1>0, <1>6 DEF Audit, Fault
  <2>2. QED BY <2>1 DEF AuditInsert, Logged
<1>7. CASE Time \/ UNCHANGED vars
  BY <1>2, <1>7 DEF Time, vars
<1>8. CASE Faults
  BY <1>0, <1>8 DEF Faults, StatementFails, CleanupFails, Crash, Fault
<1>9. QED BY <1>3, <1>4, <1>5, <1>6, <1>7, <1>8 DEF Next

\* The entries the theorem needs, if the log keeps them.
Traced(u) == Logged("user_deleted", u) \/ Logged("user_auto_deleted", u)

\* The inductive invariant of this direction.
TraceInv ==
  faults = 0 =>
    /\ job.current # None => Logged("user_auto_deleted", job.current)
    /\ \A u \in UserIds : users[u].status = "deleted" => Traced(u)

\* No step of a service, of the job or of the log breaks it.
LEMMA TraceStep ==
  ASSUME {"user_deleted", "user_auto_deleted"} \subseteq Audited, IInv, TraceInv, [Next]_vars
  PROVE  TraceInv'
<1> SUFFICES ASSUME faults' = 0
             PROVE  /\ job'.current # None => Logged("user_auto_deleted", job.current)'
                    /\ \A u \in UserIds : users'[u].status = "deleted" => Traced(u)'
  BY DEF TraceInv
<1>0. faults = 0 /\ users \in [UserIds -> UserRow] /\ job \in Job
  BY FaultStep DEF IInv, TypeOK
<1>1. ASSUME job'.current # None
      PROVE  Logged("user_auto_deleted", job.current)'
  <2>1. CASE job'.current = job.current
    <3>1. PICK u : u = job.current
      OBVIOUS
    <3>2. Logged("user_auto_deleted", u)'
      BY <1>0, <1>1, <2>1, <3>1, EntriesStay DEF TraceInv
    <3>3. QED BY <2>1, <3>1, <3>2 DEF Logged
  <2>2. CASE job'.current # job.current
    <3>1. PICK u \in UserIds : CleanupLog(u)
      BY <1>1, <2>2, CurrentStep
    <3>2. Logged("user_auto_deleted", u)' /\ job'.current = u
      BY <3>1, LogAdds DEF CleanupLog
    <3>3. QED BY <3>2 DEF Logged
  <2>3. QED BY <2>1, <2>2
<1>2. ASSUME NEW u \in UserIds, users'[u].status = "deleted"
      PROVE  Traced(u)'
  <2>1. CASE users[u].status = "deleted"
    BY <1>0, <2>1, EntriesStay DEF TraceInv, Traced
  <2>2. CASE users[u].status # "deleted"
    <3>1. \/ \E s \in Slots : RemoveDestroy(s) /\ reqs[s].userId = u
          \/ CleanupDestroy /\ job.current = u
      BY <1>2, <2>2, WhoDeletes
    <3>2. CASE \E s \in Slots : RemoveDestroy(s) /\ reqs[s].userId = u
      <4>1. Log("user_deleted", u)
        BY <3>2 DEF RemoveDestroy
      <4>2. QED BY <4>1, LogAdds DEF Traced
    <3>3. CASE CleanupDestroy /\ job.current = u
      <4>1. Logged("user_auto_deleted", u)
        BY <1>0, <3>3 DEF CleanupDestroy, TraceInv
      <4>2. QED BY <4>1, EntriesStay DEF Traced
    <3>4. QED BY <3>1, <3>2, <3>3
  <2>3. QED BY <2>1, <2>2
<1>3. QED BY <1>1, <1>2

\* If the log keeps both kinds of entries, and while no fault happens, no account
\* is gone without one: the handler logs after its DELETE, the job before it.
THEOREM TraceLeft ==
  ASSUME {"user_deleted", "user_auto_deleted"} \subseteq Audited
  PROVE  Spec => []DeletionLeavesTrace
<1>1. Init => TraceInv
  BY IdentityConstants DEF Init, UsersInit, NoJob, TablesInit, NoUser, TraceInv
<1>2. IInv /\ TraceInv /\ [Next]_vars => TraceInv'
  BY TraceStep
<1>3. TraceInv => DeletionLeavesTrace
  BY DEF TraceInv, DeletionLeavesTrace, Traced
<1>4. QED BY <1>1, <1>2, <1>3, Invariance, PTL DEF Spec

=============================================================================
