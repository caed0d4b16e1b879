------------------------------- MODULE Tables -------------------------------
(***************************************************************************)
(* The two tables the identity half of the backend keeps in Postgres --    *)
(* users and refresh_tokens -- with the statements the services issue on   *)
(* them.  A statement is atomic; everything a service does between two     *)
(* statements may interleave with everything else.                         *)
(*                                                                         *)
(* A row is a member of a fixed set of identifiers (UUIDs in the code).    *)
(* An identifier is allotted once and never again, so each one is unused,  *)
(* then a row, then deleted.  Times are whole days: no property needs a    *)
(* finer clock (PendingAccountPolicy has the milliseconds).                *)
(***************************************************************************)
EXTENDS Integers, FiniteSets

CONSTANTS UserIds,                   \* users.id
          Emails,                    \* users.email
          TokenIds,                  \* refresh_tokens.id, and with it the raw token
          None,                      \* SQL NULL
          SeedEmail,                 \* the seeded accounts: [seeded ids -> Emails]
          SeedAdmins,                \* those of them that are administrators
          PENDING_ACCOUNT_TTL_DAYS,
          RefreshDays,               \* jwt.refreshExpiresInDays
          MaxDay                     \* bound: the last day of a behaviour

Seeded == DOMAIN SeedEmail

ASSUME IdentityConstants ==
  /\ None \notin UserIds \cup Emails \cup TokenIds
  /\ Seeded \subseteq UserIds
  /\ SeedEmail \in [Seeded -> Emails]
  /\ \A u, v \in Seeded : SeedEmail[u] = SeedEmail[v] => u = v
  /\ SeedAdmins \subseteq Seeded
  /\ PENDING_ACCOUNT_TTL_DAYS \in Nat
  /\ RefreshDays \in Nat
  /\ MaxDay \in Nat

VARIABLES users,    \* the users table
          tokens,   \* the refresh_tokens table
          day       \* Date.now()

tableVars == <<users, tokens, day>>

Role == {"admin", "editor"}

Policy == INSTANCE PendingAccountPolicy WITH DAY_MS <- 1

-----------------------------------------------------------------------------
(* The rows. *)

\* "unused" and "deleted" stand for the absence of a row; the code's own
\* UserStatus has "pending" and "active".  passwordHash and name are left out;
\* of lastLoginAt the model keeps whether it is NULL.
UserRow == [status : {"unused", "pending", "active", "deleted"},
            email : Emails \cup {None}, role : Role,
            createdAt : 0..MaxDay, hasLoggedIn : BOOLEAN]

\* revokedAt is NULL in state "live" and a date in state "revoked".  A family
\* (a random UUID) is named by the token that opened it.  parent is a history
\* field and not a column: the token that was redeemed for this one.
TokenRow == [state : {"unissued", "live", "revoked", "deleted"},
             userId : UserIds \cup {None}, familyId : TokenIds \cup {None},
             expiresAt : Nat, parent : TokenIds \cup {None}]

NoUser(status) == [status |-> status, email |-> None, role |-> "editor",
                   createdAt |-> 0, hasLoggedIn |-> FALSE]

NoToken(state) == [state |-> state, userId |-> None, familyId |-> None,
                   expiresAt |-> 0, parent |-> None]

UserExists(u) == users[u].status \in {"pending", "active"}

TokenExists(t) == tokens[t].state \in {"live", "revoked"}

\* The database the app starts on: the seeders' accounts, which migration
\* 20260101000015 makes active.
TablesInit ==
  /\ users = [u \in UserIds |->
                IF u \in Seeded
                THEN [status |-> "active", email |-> SeedEmail[u],
                      role |-> IF u \in SeedAdmins THEN "admin" ELSE "editor",
                      createdAt |-> 0, hasLoggedIn |-> FALSE]
                ELSE NoUser("unused")]
  /\ tokens = [t \in TokenIds |-> NoToken("unissued")]
  /\ day = 0

-----------------------------------------------------------------------------
(* Statements on users. *)

FindByEmail(email) == {u \in UserIds : UserExists(u) /\ users[u].email = email}

\* Mutant: the users.email column without its unique index.
EmailFreeUnchecked(email) == TRUE

\* The unique index on users.email.
EmailFree(email) == FindByEmail(email) = {}

\* INSERT INTO users; u is the fresh UUID.
InsertUser(u, email, role, status) ==
  /\ users[u].status = "unused"
  /\ EmailFree(email)
  /\ users' = [users EXCEPT ![u] = [status |-> status, email |-> email, role |-> role,
                                    createdAt |-> day, hasLoggedIn |-> FALSE]]

\* Mutant: save() inserts the row when there is none to update.
UpsertUser(u, row) == users' = [users EXCEPT ![u] = row]

\* UPDATE users SET <one column> WHERE id = u.  Sequelize's save() writes the
\* changed columns only, and matching no row is not an error.
UpdateUser(u, row) ==
  users' = IF UserExists(u) THEN [users EXCEPT ![u] = row] ELSE users

\* Mutant: refresh_tokens.userId without ON DELETE CASCADE.
DeleteUserKeepingTokens(u) ==
  /\ users' = [users EXCEPT ![u] = IF UserExists(u) THEN NoUser("deleted") ELSE @]
  /\ UNCHANGED tokens

\* DELETE FROM users WHERE id = u, which cascades to the account's tokens.
DeleteUser(u) ==
  /\ users' = [users EXCEPT ![u] = IF UserExists(u) THEN NoUser("deleted") ELSE @]
  /\ tokens' = [t \in TokenIds |->
                  IF TokenExists(t) /\ tokens[t].userId = u
                  THEN NoToken("deleted") ELSE tokens[t]]

-----------------------------------------------------------------------------
(* Statements on refresh_tokens. *)

\* INSERT INTO refresh_tokens, of a fresh random token t.  The foreign key on
\* userId rejects it when the account is gone.
InsertToken(t, u, family, parent) ==
  /\ tokens[t].state = "unissued"
  /\ UserExists(u)
  /\ tokens' = [tokens EXCEPT ![t] = [state |-> "live", userId |-> u, familyId |-> family,
                                      expiresAt |-> day + RefreshDays, parent |-> parent]]

\* UPDATE refresh_tokens SET revokedAt = now WHERE id = t.
RevokeToken(t) ==
  tokens' = [tokens EXCEPT ![t].state = IF @ = "live" THEN "revoked" ELSE @]

\* UPDATE refresh_tokens SET revokedAt = now WHERE familyId = f AND revokedAt IS NULL.
RevokeFamily(f) ==
  tokens' = [t \in TokenIds |->
               IF tokens[t].state = "live" /\ tokens[t].familyId = f
               THEN [tokens[t] EXCEPT !.state = "revoked"] ELSE tokens[t]]

Expired(t) == tokens[t].expiresAt < day

\* Time passes.
Tick ==
  /\ day < MaxDay
  /\ day' = day + 1
  /\ UNCHANGED <<users, tokens>>

=============================================================================
