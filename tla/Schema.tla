------------------------------- MODULE Schema -------------------------------
(***************************************************************************)
(* The migrations and seeders, as sequelize-cli runs them from somebody's  *)
(* machine on the database of the running app: statement by statement,     *)
(* with no transaction around them.  A migration that is done is recorded  *)
(* in SequelizeMeta; seeders are not recorded at all.                      *)
(*                                                                         *)
(* Of the schema the model keeps what a later statement, or the app, can   *)
(* trip over: tables, columns and indexes added, row-level security,       *)
(* policies and grants, and the seeded rows.  ENUM types are left out.     *)
(***************************************************************************)
EXTENDS Naturals, FiniteSets, Sequences, FiniteSetsExt

\* A migration is named by the number of its file.
Migrations == {1, 2} \cup 5..6 \cup 8..16

\* Bound: no run is interrupted while so many migrations are broken off.
CONSTANT MaxBroken
ASSUME MaxBrokenAssumption == MaxBroken \in Nat

VARIABLES present,   \* the objects there are in the database
          recorded,  \* the SequelizeMeta table
          cli,       \* what sequelize-cli is doing
          tokens,    \* what refresh tokens there are
          broken     \* history: migrations whose last run was broken off

vars == <<present, recorded, cli, tokens, broken>>

\* No tokens, tokens that all have a family, or some that have none.
TokenRows == {"none", "families", "loose"}

Quiet == [doing |-> "nothing", migration |-> 0, step |-> 1]

Cli == [doing : {"nothing", "up", "down", "seed", "unseed"}, migration : Migrations \cup {0},
        step : 1..20]

Init ==
  /\ present = {}
  /\ recorded = {}
  /\ cli = Quiet
  /\ tokens = "none"
  /\ broken = {}

-----------------------------------------------------------------------------
(* Objects, and the statements that make and unmake them. *)

Table(t) == <<"table", t>>
Column(t, c) == <<"column", t, c>>
Required(t, c) == <<"required", t, c>>
Index(t, c) == <<"index", t, c>>
Rls(t) == <<"rls", t>>
Policy(t) == <<"policy", t>>
Grant(t) == <<"grant", t>>
Rows(t) == <<"rows", t>>
Role == <<"role", "cms_app">>
Usage == <<"usage", "public">>

\* The foreign keys of the tables as they are created: whose table is whose
\* parent's.  The one of media.uploadedByUserId, which comes later, adds nothing
\* to it: while there is media there is articles, and users does not go.
Parents(t) == CASE t = "articles" -> {"users"}
                [] t = "article_tags" -> {"articles", "tags"}
                [] t = "media" -> {"articles"}
                [] t = "refresh_tokens" -> {"users"}
                [] OTHER -> {}

Ancestors(t) == Parents(t) \cup UNION {Parents(p) : p \in Parents(t)}

\* What goes with an object: a table takes all it has along, a column its index
\* and its NOT NULL, deleted rows the rows that refer to them.
Cascade(object) ==
  {x \in present :
     \/ x = object
     \/ object[1] = "table" /\ x[2] = object[2]
     \/ object[1] = "column" /\ Len(x) = 3 /\ Tail(x) = Tail(object)
     \/ object[1] = "rows" /\ x[1] = "rows" /\ object[2] \in Ancestors(x[2])}

\* "ensure" does not mind that the object is there, nor "discard" that it is
\* not; "add" and "remove" do.
Statement(verb, object, needs) == [verb |-> verb, object |-> object, needs |-> needs]

CreateTable(t) == Statement("ensure", Table(t), {Table(p) : p \in Parents(t)})
DropTable(t) == Statement("drop", Table(t), {})
AddIndex(t, c) == Statement("add", Index(t, c), {Table(t)})
AddColumn(t, c) == Statement("add", Column(t, c), {Table(t)})
RemoveColumn(t, c) == Statement("remove", Column(t, c), {Table(t)})
EnableRls(t) == Statement("ensure", Rls(t), {Table(t)})
DisableRls(t) == Statement("discard", Rls(t), {Table(t)})
CreatePolicy(t) == Statement("add", Policy(t), {Table(t), Role})
DropPolicy(t) == Statement("discard", Policy(t), {Table(t)})
GrantAll(t) == Statement("ensure", Grant(t), {Table(t), Role})
RevokeAll(t) == Statement("discard", Grant(t), {Table(t), Role})
BulkInsert(t) == Statement("add", Rows(t), {Table(t)} \cup {Rows(p) : p \in Parents(t)})
BulkDelete(t) == Statement("discard", Rows(t), {Table(t)})

-----------------------------------------------------------------------------
(* The migrations: what each does, up and down. *)

CreateUsers == <<CreateTable("users")>>

CreateArticles ==
  <<CreateTable("articles"), AddIndex("articles", "authorId"), AddIndex("articles", "published")>>

CreateTags == <<CreateTable("tags")>>

CreateArticleTags ==
  <<CreateTable("article_tags"), AddIndex("article_tags", "pkey"),
    AddIndex("article_tags", "tagId")>>

CreateMedia ==
  <<CreateTable("media"), AddIndex("media", "articleId"), AddIndex("media", "createdAt")>>

\* The loops of migrations 9 and 10 over TABLES.
OnEachTable(Of(_)) ==
  Of("users") \o Of("articles") \o Of("tags") \o Of("article_tags") \o Of("media")

EnableRlsUp == OnEachTable(LAMBDA t : <<EnableRls(t)>>)
EnableRlsDown == OnEachTable(LAMBDA t : <<DisableRls(t)>>)

\* Mutant: CREATE POLICY without the DROP before it.
ScopedAppRoleOnce ==
  <<Statement("password", Role, {}), Statement("ensure", Usage, {Role})>>
    \o OnEachTable(LAMBDA t : <<GrantAll(t), CreatePolicy(t)>>)

\* The role is created or altered, which takes DB_APP_ROLE_PASSWORD.
ScopedAppRoleUp ==
  <<Statement("password", Role, {}), Statement("ensure", Usage, {Role})>>
    \o OnEachTable(LAMBDA t : <<GrantAll(t), DropPolicy(t), CreatePolicy(t)>>)

\* Mutant: nothing is revoked.
ScopedAppRoleKept ==
  OnEachTable(LAMBDA t : <<DropPolicy(t)>>) \o <<Statement("discard", Usage, {Role})>>

\* The role stays.
ScopedAppRoleDown ==
  OnEachTable(LAMBDA t : <<DropPolicy(t), RevokeAll(t)>>)
    \o <<Statement("discard", Usage, {Role})>>

\* Mutant: a table added without its policy.
CreateAuditLogsBare ==
  <<CreateTable("audit_logs"), AddIndex("audit_logs", "createdAt"),
    AddIndex("audit_logs", "actorUserId"), EnableRls("audit_logs"), GrantAll("audit_logs")>>

CreateAuditLogs ==
  <<CreateTable("audit_logs"), AddIndex("audit_logs", "createdAt"),
    AddIndex("audit_logs", "actorUserId"),
    EnableRls("audit_logs"), CreatePolicy("audit_logs"), GrantAll("audit_logs")>>

CreateRefreshTokens ==
  <<CreateTable("refresh_tokens"), AddIndex("refresh_tokens", "userId"),
    AddIndex("refresh_tokens", "tokenHash"),
    EnableRls("refresh_tokens"), CreatePolicy("refresh_tokens"), GrantAll("refresh_tokens")>>

FamilyId == Column("refresh_tokens", "familyId")

\* Mutant: NOT NULL that is not checked against the rows there are (NOT VALID).
AddFamilyNotValid ==
  <<AddColumn("refresh_tokens", "familyId"),
    Statement("backfill", FamilyId, {FamilyId}),
    Statement("ensure", Required("refresh_tokens", "familyId"), {FamilyId}),
    AddIndex("refresh_tokens", "familyId")>>

\* The UPDATE gives every token without a family one of its own.
AddFamily ==
  <<AddColumn("refresh_tokens", "familyId"),
    Statement("backfill", FamilyId, {FamilyId}),
    Statement("require", Required("refresh_tokens", "familyId"), {FamilyId}),
    AddIndex("refresh_tokens", "familyId")>>

AddUploader ==
  <<AddColumn("media", "uploadedByUserId"), AddIndex("media", "uploadedByUserId")>>

AddUserStatus == <<AddColumn("users", "status")>>

AddLastLogin == <<AddColumn("users", "lastLoginAt")>>

Up(m) ==
  CASE m = 1 -> CreateUsers           [] m = 2 -> CreateArticles
    [] m = 5 -> CreateTags            [] m = 6 -> CreateArticleTags
    [] m = 8 -> CreateMedia           [] m = 9 -> EnableRlsUp
    [] m = 10 -> ScopedAppRoleUp      [] m = 11 -> CreateAuditLogs
    [] m = 12 -> CreateRefreshTokens  [] m = 13 -> AddFamily
    [] m = 14 -> AddUploader          [] m = 15 -> AddUserStatus
    [] m = 16 -> AddLastLogin

\* down of a migration that creates a table drops it.
Down(m) ==
  CASE m = 9 -> EnableRlsDown
    [] m = 10 -> ScopedAppRoleDown
    [] m = 13 -> <<RemoveColumn("refresh_tokens", "familyId")>>
    [] m = 14 -> <<RemoveColumn("media", "uploadedByUserId")>>
    [] m = 15 -> <<RemoveColumn("users", "status")>>
    [] m = 16 -> <<RemoveColumn("users", "lastLoginAt")>>
    [] OTHER -> <<DropTable(Up(m)[1].object[2])>>

DemoUsers == <<BulkInsert("users")>>
DemoArticles == <<BulkInsert("articles")>>
DemoTags == <<BulkInsert("tags"), BulkInsert("article_tags")>>

\* db:seed, and db:seed:undo in the opposite order; the links go with the tags.
Seed == DemoUsers \o DemoArticles \o DemoTags
Unseed == <<BulkDelete("tags"), BulkDelete("articles"), BulkDelete("users")>>

Script == CASE cli.doing = "up" -> Up(cli.migration)
            [] cli.doing = "down" -> Down(cli.migration)
            [] cli.doing = "seed" -> Seed
            [] cli.doing = "unseed" -> Unseed

-----------------------------------------------------------------------------
(* One statement at a time. *)

Running == cli.doing # "nothing" /\ cli.step <= Len(Script)
Through == cli.doing # "nothing" /\ cli.step > Len(Script)
Current == Script[cli.step]

\* What the database refuses.
Refused(st) ==
  \/ ~(st.needs \subseteq present)
  \/ st.verb = "add" /\ st.object \in present
  \/ st.verb = "remove" /\ st.object \notin present
  \/ st.verb = "drop" /\ \E x \in present : x[1] = "table" /\ st.object[2] \in Parents(x[2])
  \/ st.verb = "require" /\ tokens = "loose"

Unmakes(st) == st.verb \in {"remove", "drop", "discard"}

TokensAfter(st) ==
  CASE st.object = Table("refresh_tokens") /\ st.verb = "drop" -> "none"
    [] st.object = FamilyId /\ st.verb = "backfill" /\ tokens = "loose" -> "families"
    [] st.object = FamilyId /\ st.verb = "remove" /\ tokens = "families" -> "loose"
    [] OTHER -> tokens

Execute ==
  /\ Running
  /\ ~Refused(Current)
  /\ present' = IF Unmakes(Current) THEN present \ Cascade(Current.object)
                                    ELSE present \cup {Current.object}
  /\ tokens' = TokensAfter(Current)
  /\ cli' = [cli EXCEPT !.step = @ + 1]
  /\ UNCHANGED <<recorded, broken>>

\* A run that stops after its first statement leaves half a migration.
BrokenOff ==
  /\ broken' = IF cli.step > 1 /\ cli.migration # 0
               THEN broken \cup {<<cli.doing, cli.migration>>} ELSE broken
  /\ cli' = Quiet
  /\ UNCHANGED <<present, recorded, tokens>>

\* The password is read from the environment, and may be missing.
StatementFails ==
  /\ Running
  /\ Refused(Current) \/ Current.verb = "password"
  /\ BrokenOff

\* The process or the connection dies.
Interrupted ==
  /\ cli.doing # "nothing"
  /\ Cardinality(broken) < MaxBroken
  /\ BrokenOff

Start(doing, m) ==
  /\ cli = Quiet
  /\ cli' = [doing |-> doing, migration |-> m, step |-> 1]
  /\ UNCHANGED <<present, recorded, tokens, broken>>

\* db:migrate takes the pending migrations in the order of their numbers ...
Migrate ==
  /\ Migrations # recorded
  /\ Start("up", Min(Migrations \ recorded))

\* ... and db:migrate:undo the last that is recorded.
Undo ==
  /\ recorded # {}
  /\ Start("down", Max(recorded))

\* Neither db:seed nor db:seed:undo asks what was seeded before.
RunSeeders == \E doing \in {"seed", "unseed"} : Start(doing, 0)

Mended(m) == broken \ {<<"up", m>>, <<"down", m>>}

Record ==
  /\ Through
  /\ recorded' = CASE cli.doing = "up" -> recorded \cup {cli.migration}
                   [] cli.doing = "down" -> recorded \ {cli.migration}
                   [] OTHER -> recorded
  /\ broken' = Mended(cli.migration)
  /\ cli' = Quiet
  /\ UNCHANGED <<present, tokens>>

-----------------------------------------------------------------------------
(* The running app signs somebody in while all this goes on.  Migrations   *)
(* are run before the release that needs them is deployed, so it may be    *)
(* the release that knows of no families.                                  *)

InsertToken(kind) ==
  /\ Table("refresh_tokens") \in present
  /\ tokens' = kind
  /\ UNCHANGED <<present, recorded, cli, broken>>

PreviousRelease ==
  /\ Required("refresh_tokens", "familyId") \notin present
  /\ InsertToken("loose")

CurrentRelease ==
  /\ FamilyId \in present
  /\ InsertToken(IF tokens = "loose" THEN "loose" ELSE "families")

Next ==
  \/ Execute \/ StatementFails \/ Interrupted
  \/ Migrate \/ Undo \/ RunSeeders \/ Record
  \/ PreviousRelease \/ CurrentRelease

Spec == Init /\ [][Next]_vars

-----------------------------------------------------------------------------
(* Properties. *)

OfTable(x) == x[1] \notin {"role", "usage"}

\* The state has its type.  Whatever was broken off, an object is there only
\* with its table, no token lacks a family once the column says NOT NULL, and
\* what is recorded is always the first so many migrations.
TypeOK ==
  /\ cli \in Cli
  /\ recorded \subseteq Migrations
  /\ tokens \in TokenRows
  /\ broken \subseteq {"up", "down"} \X Migrations
  /\ \A x \in present : OfTable(x) => Table(x[2]) \in present
  /\ Required("refresh_tokens", "familyId") \in present => tokens # "loose"
  /\ \A m \in recorded : \A n \in Migrations : n < m => n \in recorded

\* What a migration leaves behind when it has gone through.
Makes(m) == {Up(m)[i].object : i \in DOMAIN Up(m)}

\* Undoing is the exact opposite of migrating: when nothing was broken off,
\* the database holds what the recorded migrations make and nothing else, the
\* demo rows and the role, which a migration undone leaves there, apart.
SchemaMatchesRecord ==
  cli = Quiet /\ broken = {} =>
    LET schema == {x \in present : x[1] # "rows"}
    IN  schema \ {Role} = (UNION {Makes(m) : m \in recorded}) \ {Role}

\* With every migration recorded, the role the app connects as may read and
\* write each of its tables: row-level security is on for all of them, so a
\* table added without its policy, or its grant, would be out of its reach.
AppReachesItsTables ==
  recorded = Migrations /\ broken = {} /\ cli.doing # "down" =>
    /\ {Role, Usage} \subseteq present
    /\ \A x \in present :
         x[1] = "table" => {Rls(x[2]), Policy(x[2]), Grant(x[2])} \subseteq present

\* Migrations that can be broken off anywhere and run again.
Repeatable == ({"up"} \X {1, 5, 9, 10}) \cup ({"down"} \X {9, 10})

\* A migration fails for one of three reasons only: the password is missing,
\* the previous release has signed somebody in between the backfill and the
\* NOT NULL, or one was broken off that cannot be repeated.  A seeder fails
\* only on rows, or for want of tables, that were so before it ran.
FailsForAReason ==
  [][StatementFails =>
       \/ Current.verb \in {"password", "require"}
       \/ broken \ Repeatable # {}
       \/ /\ cli.doing \in {"seed", "unseed"}
          /\ \/ Current.object \in present
             \/ \E t \in {"users", "articles", "tags", "article_tags"} :
                  Table(t) \notin present]_vars
=============================================================================
