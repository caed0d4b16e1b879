---------------------------- MODULE SchemaProofs ----------------------------
(***************************************************************************)
(* What TLAPS proves of migrations and seeders, however many migrations    *)
(* are broken off: the database holds what the record says, the app's role *)
(* reaches every table, and a migration fails for one of three reasons.    *)
(***************************************************************************)
EXTENDS Schema, TLAPS

-----------------------------------------------------------------------------
(* The inductive invariant. *)

\* What an object takes along when it goes, whether or not it is there.
Takes(object, x) ==
  \/ x = object
  \/ object[1] = "table" /\ x[2] = object[2]
  \/ object[1] = "column" /\ Len(x) = 3 /\ Tail(x) = Tail(object)
  \/ object[1] = "rows" /\ x[1] = "rows" /\ object[2] \in Ancestors(x[2])

\* sequelize-cli works at the end of the record.
CliOK ==
  /\ cli \in [doing : {"nothing", "up", "down", "seed", "unseed"},
              migration : Migrations \cup {0}, step : Nat \ {0}]
  /\ cli.doing = "nothing" => cli = Quiet
  /\ cli.doing \in {"seed", "unseed"} => cli.migration = 0
  /\ cli.doing = "up" =>
       /\ cli.migration \in Migrations \ recorded
       /\ \A n \in Migrations : n < cli.migration => n \in recorded
  /\ cli.doing = "down" =>
       /\ cli.migration \in recorded
       /\ \A n \in recorded : n <= cli.migration
  /\ cli.doing = "up" => cli.step <= Len(Up(cli.migration)) + 1
  /\ cli.doing = "down" => cli.step <= Len(Down(cli.migration)) + 1
  /\ cli.doing = "seed" => cli.step <= Len(Seed) + 1
  /\ cli.doing = "unseed" => cli.step <= Len(Unseed) + 1

RecordOK ==
  /\ recorded \subseteq Migrations
  /\ \A m \in recorded : \A n \in Migrations : n < m => n \in recorded

\* A migration broken off on its way up is not recorded, one on its way down is.
BrokenOK ==
  /\ broken \subseteq {"up", "down"} \X Migrations
  /\ \A n \in Migrations : <<"up", n>> \in broken => n \notin recorded
  /\ \A n \in Migrations : <<"down", n>> \in broken => n \in recorded

TokensOK ==
  /\ tokens \in TokenRows
  /\ Required("refresh_tokens", "familyId") \in present => tokens # "loose"

\* Nothing is there that is not of some migration or seeder, and nothing
\* without its table; the role, once there, stays.
PresentOK ==
  /\ \A x \in present : x = Rows(x[2]) \/ \E n \in Migrations : x \in Makes(n)
  /\ \A x \in present : OfTable(x) => Table(x[2]) \in present
  /\ 10 \in recorded => Role \in present

\* What was made by the statements that have gone through, and is still there;
\* of something unmade that only holds until the next statement.
Made(st) == IF Unmakes(st) THEN st.object \notin present ELSE st.object \in present

UpOK ==
  cli.doing = "up" =>
    /\ \A j \in 1..(cli.step - 1) :
         LET st == Up(cli.migration)[j]
         IN  ~Unmakes(st) \/ j = cli.step - 1 => Made(st)
    /\ <<"up", cli.migration>> \notin broken =>
         \A x \in present \cap Makes(cli.migration) :
           \/ x = Role
           \/ \E j \in 1..(cli.step - 1) : Up(cli.migration)[j].object = x

SeedOK ==
  cli.doing = "seed" => \A j \in 1..(cli.step - 1) : Seed[j].object \in present

DownOK ==
  cli.doing = "down" =>
    \A j \in 1..(cli.step - 1) : \A x \in present : ~Takes(Down(cli.migration)[j].object, x)

\* Nobody is at work on migration n, nor was broken off while at it.
Settled(n) ==
  /\ {<<"up", n>>, <<"down", n>>} \cap broken = {}
  /\ ~(cli.migration = n /\ cli.step > 1)

\* Then it is there altogether, or not at all but for the role.
Whole(n) ==
  /\ n \in recorded => Makes(n) \subseteq present
  /\ n \notin recorded => Makes(n) \cap present \subseteq {Role}

SettledWhole == \A n \in Migrations : Settled(n) => Whole(n)

SchemaInv ==
  /\ CliOK
  /\ RecordOK
  /\ BrokenOK
  /\ TokensOK
  /\ PresentOK
  /\ UpOK
  /\ SeedOK
  /\ DownOK
  /\ SettledWhole

-----------------------------------------------------------------------------
(* What the migrations make, and what they take away. *)

Five == {"users", "articles", "tags", "article_tags", "media"}

\* The scripts one by one.
LEMMA Ups ==
  /\ Up(1) = CreateUsers         /\ Up(2) = CreateArticles
  /\ Up(5) = CreateTags          /\ Up(6) = CreateArticleTags
  /\ Up(8) = CreateMedia         /\ Up(9) = EnableRlsUp
  /\ Up(10) = ScopedAppRoleUp    /\ Up(11) = CreateAuditLogs
  /\ Up(12) = CreateRefreshTokens
  /\ Up(13) = AddFamily          /\ Up(14) = AddUploader
  /\ Up(15) = AddUserStatus      /\ Up(16) = AddLastLogin
BY DEF Up

\* ... and back again.
LEMMA Downs ==
  /\ Down(1) = <<DropTable("users")>>          /\ Down(2) = <<DropTable("articles")>>
  /\ Down(5) = <<DropTable("tags")>>           /\ Down(6) = <<DropTable("article_tags")>>
  /\ Down(8) = <<DropTable("media")>>          /\ Down(9) = EnableRlsDown
  /\ Down(10) = ScopedAppRoleDown
  /\ Down(11) = <<DropTable("audit_logs")>>    /\ Down(12) = <<DropTable("refresh_tokens")>>
  /\ Down(13) = <<RemoveColumn("refresh_tokens", "familyId")>>
  /\ Down(14) = <<RemoveColumn("media", "uploadedByUserId")>>
  /\ Down(15) = <<RemoveColumn("users", "status")>>
  /\ Down(16) = <<RemoveColumn("users", "lastLoginAt")>>
<1>1. /\ Up(1)[1].object[2] = "users" /\ Up(2)[1].object[2] = "articles"
      /\ Up(5)[1].object[2] = "tags" /\ Up(6)[1].object[2] = "article_tags"
      /\ Up(8)[1].object[2] = "media" /\ Up(11)[1].object[2] = "audit_logs"
      /\ Up(12)[1].object[2] = "refresh_tokens"
  BY Ups DEF CreateUsers, CreateArticles, CreateTags, CreateArticleTags, CreateMedia,
             CreateAuditLogs, CreateRefreshTokens, CreateTable, Statement, Table
<1>2. QED BY <1>1 DEF Down

Migrated == {1, 2, 5, 6, 8, 9, 10, 11, 12, 13, 14, 15, 16}

\* The numbers of the migrations, one by one.
LEMMA MigrationsAre == Migrations = Migrated
BY DEF Migrations, Migrated

\* What each of them makes.
LEMMA MakesWhat ==
  /\ Makes(1) = {Table("users")}
  /\ Makes(2) = {Table("articles"), Index("articles", "authorId"), Index("articles", "published")}
  /\ Makes(5) = {Table("tags")}
  /\ Makes(6) = {Table("article_tags"), Index("article_tags", "pkey"),
                 Index("article_tags", "tagId")}
  /\ Makes(8) = {Table("media"), Index("media", "articleId"), Index("media", "createdAt")}
  /\ Makes(9) = {Rls(t) : t \in Five}
  /\ Makes(10) = {Role, Usage} \cup {Grant(t) : t \in Five} \cup {Policy(t) : t \in Five}
  /\ Makes(11) = {Table("audit_logs"), Index("audit_logs", "createdAt"),
                  Index("audit_logs", "actorUserId"), Rls("audit_logs"), Policy("audit_logs"),
                  Grant("audit_logs")}
  /\ Makes(12) = {Table("refresh_tokens"), Index("refresh_tokens", "userId"),
                  Index("refresh_tokens", "tokenHash"), Rls("refresh_tokens"),
                  Policy("refresh_tokens"), Grant("refresh_tokens")}
  /\ Makes(13) = {FamilyId, Required("refresh_tokens", "familyId"),
                  Index("refresh_tokens", "familyId")}
  /\ Makes(14) = {Column("media", "uploadedByUserId"), Index("media", "uploadedByUserId")}
  /\ Makes(15) = {Column("users", "status")}
  /\ Makes(16) = {Column("users", "lastLoginAt")}
<1>1. /\ Makes(1) = {Table("users")}
      /\ Makes(5) = {Table("tags")}
  BY Ups DEF Makes, CreateUsers, CreateTags, CreateTable, Statement
<1>2. Makes(2) = {Table("articles"), Index("articles", "authorId"), Index("articles", "published")}
  BY Ups DEF Makes, CreateArticles, CreateTable, AddIndex, Statement
<1>3. Makes(6) = {Table("article_tags"), Index("article_tags", "pkey"),
                  Index("article_tags", "tagId")}
  BY Ups DEF Makes, CreateArticleTags, CreateTable, AddIndex, Statement
<1>4. Makes(8) = {Table("media"), Index("media", "articleId"), Index("media", "createdAt")}
  BY Ups DEF Makes, CreateMedia, CreateTable, AddIndex, Statement
<1>5. Makes(9) = {Rls(t) : t \in Five}
  BY Ups DEF Makes, EnableRlsUp, OnEachTable, EnableRls, Statement, Five
<1>6. Makes(10) = {Role, Usage} \cup {Grant(t) : t \in Five} \cup {Policy(t) : t \in Five}
  BY Ups DEF Makes, ScopedAppRoleUp, OnEachTable, GrantAll, DropPolicy, CreatePolicy, Statement,
             Five
<1>7. Makes(11) = {Table("audit_logs"), Index("audit_logs", "createdAt"),
                  Index("audit_logs", "actorUserId"), Rls("audit_logs"), Policy("audit_logs"),
                  Grant("audit_logs")}
  BY Ups DEF Makes, CreateAuditLogs, CreateTable, AddIndex, EnableRls, GrantAll, CreatePolicy,
             Statement
<1>8. Makes(12) = {Table("refresh_tokens"), Index("refresh_tokens", "userId"),
                  Index("refresh_tokens", "tokenHash"), Rls("refresh_tokens"),
                  Policy("refresh_tokens"), Grant("refresh_tokens")}
  BY Ups DEF Makes, CreateRefreshTokens, CreateTable, AddIndex, EnableRls, GrantAll,
             CreatePolicy, Statement
<1>9. Makes(13) = {FamilyId, Required("refresh_tokens", "familyId"),
                  Index("refresh_tokens", "familyId")}
  BY Ups DEF Makes, AddFamily, AddColumn, AddIndex, Statement, FamilyId
<1>10. Makes(14) = {Column("media", "uploadedByUserId"), Index("media", "uploadedByUserId")}
  BY Ups DEF Makes, AddUploader, AddColumn, AddIndex, Statement
<1>11. Makes(15) = {Column("users", "status")} /\ Makes(16) = {Column("users", "lastLoginAt")}
  BY Ups DEF Makes, AddUserStatus, AddLastLogin, AddColumn, Statement
<1>12. QED BY <1>1, <1>2, <1>3, <1>4, <1>5, <1>6, <1>7, <1>8, <1>9, <1>10, <1>11

\* Every object is of one migration, and none comes before its table's.
TableMaker(t) ==
  IF t = "users" THEN 1 ELSE IF t = "articles" THEN 2 ELSE IF t = "tags" THEN 5
  ELSE IF t = "article_tags" THEN 6 ELSE IF t = "media" THEN 8
  ELSE IF t = "audit_logs" THEN 11 ELSE 12

ColumnMaker(t, c) ==
  IF c = "familyId" THEN 13 ELSE IF c = "uploadedByUserId" THEN 14
  ELSE IF c = "status" THEN 15 ELSE IF c = "lastLoginAt" THEN 16 ELSE TableMaker(t)

Maker(x) ==
  IF x[1] \in {"role", "usage"} THEN 10
  ELSE IF x[1] = "rls" /\ x[2] \in Five THEN 9
  ELSE IF x[1] \in {"policy", "grant"} /\ x[2] \in Five THEN 10
  ELSE IF x[1] \in {"column", "required", "index"} THEN ColumnMaker(x[2], x[3])
  ELSE TableMaker(x[2])

\* The parts an object is made of.
LEMMA Parts ==
  /\ \A t : /\ Table(t)[1] = "table" /\ Table(t)[2] = t
           /\ Rls(t)[1] = "rls" /\ Rls(t)[2] = t
           /\ Policy(t)[1] = "policy" /\ Policy(t)[2] = t
           /\ Grant(t)[1] = "grant" /\ Grant(t)[2] = t
           /\ Rows(t)[1] = "rows" /\ Rows(t)[2] = t
           /\ Len(Table(t)) = 2 /\ Len(Rls(t)) = 2 /\ Len(Policy(t)) = 2
           /\ Len(Grant(t)) = 2 /\ Len(Rows(t)) = 2
  /\ \A t, c : /\ Column(t, c)[1] = "column" /\ Column(t, c)[2] = t /\ Column(t, c)[3] = c
              /\ Index(t, c)[1] = "index" /\ Index(t, c)[2] = t /\ Index(t, c)[3] = c
              /\ Required(t, c)[1] = "required" /\ Required(t, c)[2] = t /\ Required(t, c)[3] = c
              /\ Len(Column(t, c)) = 3 /\ Len(Index(t, c)) = 3 /\ Len(Required(t, c)) = 3
              /\ Tail(Column(t, c)) = <<t, c>>
              /\ Tail(Index(t, c)) = <<t, c>>
              /\ Tail(Required(t, c)) = <<t, c>>
  /\ Role[1] = "role" /\ Usage[1] = "usage" /\ Len(Role) = 2 /\ Len(Usage) = 2
BY DEF Table, Rls, Policy, Grant, Rows, Column, Index, Required, Role, Usage

\* An object with three parts, or two.
Object(x) ==
  \/ x \in {Role, Usage}
  \/ x[1] \in {"table", "rls", "policy", "grant"} /\ x = <<x[1], x[2]>>
  \/ x[1] \in {"column", "required", "index"} /\ x = <<x[1], x[2], x[3]>>

\* The migration an object is of, and the shape it has.
LEMMA OneMaker ==
  \A n \in Migrations : \A x \in Makes(n) :
    /\ Maker(x) = n
    /\ Object(x)
    /\ OfTable(x) => TableMaker(x[2]) \in 1..n
<1> SUFFICES ASSUME NEW n \in Migrations, NEW x \in Makes(n)
             PROVE  /\ Maker(x) = n
                    /\ Object(x)
                    /\ OfTable(x) => TableMaker(x[2]) \in 1..n
  OBVIOUS
<1> USE DEF Maker, TableMaker, ColumnMaker, Object, OfTable, Table, Index, Rls, Grant, Policy, Role,
            Usage, FamilyId, Column, Required, Five
<1>1. CASE n = 1 BY <1>1, MakesWhat
<1>2. CASE n = 2 BY <1>2, MakesWhat
<1>3. CASE n = 5 BY <1>3, MakesWhat
<1>4. CASE n = 6 BY <1>4, MakesWhat
<1>5. CASE n = 8 BY <1>5, MakesWhat
<1>6. CASE n = 9 BY <1>6, MakesWhat
<1>7. CASE n = 10 BY <1>7, MakesWhat
<1>8. CASE n = 11 BY <1>8, MakesWhat
<1>9. CASE n = 12 BY <1>9, MakesWhat
<1>10. CASE n = 13 BY <1>10, MakesWhat
<1>11. CASE n = 14 BY <1>11, MakesWhat
<1>12. CASE n = 15 BY <1>12, MakesWhat
<1>13. CASE n = 16 BY <1>13, MakesWhat
<1>14. QED BY <1>1, <1>2, <1>3, <1>4, <1>5, <1>6, <1>7, <1>8, <1>9, <1>10, <1>11, <1>12, <1>13,
              MigrationsAre DEF Migrated

\* The foreign keys, table by table.
LEMMA ParentsAre ==
  /\ Parents("users") = {}            /\ Parents("articles") = {"users"}
  /\ Parents("tags") = {}             /\ Parents("article_tags") = {"articles", "tags"}
  /\ Parents("media") = {"articles"}  /\ Parents("audit_logs") = {}
  /\ Parents("refresh_tokens") = {"users"}
BY DEF Parents

\* The CREATE TABLE statements.
LEMMA Creates ==
  /\ CreateTable("users") = Statement("ensure", Table("users"), {})
  /\ CreateTable("articles") = Statement("ensure", Table("articles"), {Table("users")})
  /\ CreateTable("tags") = Statement("ensure", Table("tags"), {})
  /\ CreateTable("article_tags") =
       Statement("ensure", Table("article_tags"), {Table("articles"), Table("tags")})
  /\ CreateTable("media") = Statement("ensure", Table("media"), {Table("articles")})
  /\ CreateTable("audit_logs") = Statement("ensure", Table("audit_logs"), {})
  /\ CreateTable("refresh_tokens") =
       Statement("ensure", Table("refresh_tokens"), {Table("users")})
BY ParentsAre DEF CreateTable

\* How long the scripts are.
LEMMA UpsAreTuples ==
  \A m \in Migrations : Len(Up(m)) \in 1..17 /\ DOMAIN Up(m) = 1..Len(Up(m))
<1> SUFFICES ASSUME NEW m \in Migrations
             PROVE  Len(Up(m)) \in 1..17 /\ DOMAIN Up(m) = 1..Len(Up(m))
  OBVIOUS
<1>1. CASE m \in {1, 2, 5, 6, 8}
  BY <1>1, Ups DEF CreateUsers, CreateArticles, CreateTags, CreateArticleTags, CreateMedia
<1>2. CASE m \in {9, 10}
  BY <1>2, Ups DEF EnableRlsUp, ScopedAppRoleUp, OnEachTable
<1>3. CASE m \in {11, 12, 13, 14, 15, 16}
  BY <1>3, Ups DEF CreateAuditLogs, CreateRefreshTokens, AddFamily, AddUploader, AddUserStatus,
                   AddLastLogin
<1>4. QED BY <1>1, <1>2, <1>3, MigrationsAre DEF Migrated

\* What an earlier migration leaves for a later one.
Earlier(y, m) == Maker(y) < m /\ y \in Makes(Maker(y)) /\ (y = Role \/ y[1] = "table")

\* From which migration on a table is there, and the role.
LEMMA Tables ==
  ASSUME NEW m \in Migrations
  PROVE  /\ m > 1 => Earlier(Table("users"), m)
         /\ m > 2 => Earlier(Table("articles"), m)
         /\ m > 5 => Earlier(Table("tags"), m)
         /\ m > 6 => Earlier(Table("article_tags"), m)
         /\ m > 8 => Earlier(Table("media"), m)
         /\ m > 10 => Earlier(Role, m)
         /\ m > 12 => Earlier(Table("refresh_tokens"), m)
<1>1. /\ Maker(Table("users")) = 1 /\ Maker(Table("articles")) = 2 /\ Maker(Table("tags")) = 5
      /\ Maker(Table("article_tags")) = 6 /\ Maker(Table("media")) = 8 /\ Maker(Role) = 10
      /\ Maker(Table("refresh_tokens")) = 12
  BY DEF Maker, Table, TableMaker, Role
<1>2. /\ Table("users") \in Makes(1) /\ Table("articles") \in Makes(2)
      /\ Table("tags") \in Makes(5) /\ Table("article_tags") \in Makes(6)
      /\ Table("media") \in Makes(8) /\ Role \in Makes(10)
      /\ Table("refresh_tokens") \in Makes(12)
  BY MakesWhat
<1>3. \A t : Table(t)[1] = "table"
  BY DEF Table
<1>4. QED BY <1>1, <1>2, <1>3, MigrationsAre DEF Earlier, Migrated

\* What the statements of a migration up have in common.
UpStatement(m, st) ==
  /\ Unmakes(st) => m = 10 /\ st.object[1] = "policy"
  /\ st.verb \notin {"drop", "remove"}
  /\ st.verb = "add" => m \notin {1, 5, 9}
  /\ (st.verb = "require") <=> (st.object = Required("refresh_tokens", "familyId"))
  /\ st.verb = "backfill" => st.object = FamilyId
  /\ \A y \in st.needs : Earlier(y, m) \/ y = Up(m)[1].object
  /\ OfTable(st.object) =>
       \/ st.object[1] = "table" /\ st.object = Table(st.object[2])
       \/ Table(st.object[2]) \in st.needs
       \/ FamilyId \in st.needs /\ st.object[2] = "refresh_tokens"

\* The object of the first statement of a migration, which the others may need.
LEMMA FirstMade ==
  /\ Up(1)[1].object = Table("users")          /\ Up(2)[1].object = Table("articles")
  /\ Up(5)[1].object = Table("tags")           /\ Up(6)[1].object = Table("article_tags")
  /\ Up(8)[1].object = Table("media")          /\ Up(10)[1].object = Role
  /\ Up(11)[1].object = Table("audit_logs")    /\ Up(12)[1].object = Table("refresh_tokens")
  /\ Up(13)[1].object = FamilyId
BY Ups DEF CreateUsers, CreateArticles, CreateTags, CreateArticleTags, CreateMedia, CreateAuditLogs,
           CreateRefreshTokens, ScopedAppRoleUp, OnEachTable, AddFamily, AddColumn, FamilyId,
           Statement, CreateTable

\* What a statement of a migration has, once the first of them has gone through.
Given(m, y) == Earlier(y, m) \/ y = Up(m)[1].object

\* The statements a migration may have, when the table is there, and the role.
LEMMA StatementsOnTables ==
  ASSUME NEW m \in Migrations, NEW t, Given(m, Table(t))
  PROVE  /\ UpStatement(m, EnableRls(t))
         /\ Given(m, Role) => UpStatement(m, GrantAll(t))
         /\ m \notin {1, 5, 9} /\ Given(m, Role) => UpStatement(m, CreatePolicy(t))
         /\ m = 10 => UpStatement(m, DropPolicy(t))
         /\ m \notin {1, 5, 9} =>
              \A c : UpStatement(m, AddIndex(t, c)) /\ UpStatement(m, AddColumn(t, c))
<1> USE DEF Given, UpStatement, Unmakes, OfTable, Statement, FamilyId, Required
<1>1. UpStatement(m, EnableRls(t)) BY DEF EnableRls, Rls
<1>2. Given(m, Role) => UpStatement(m, GrantAll(t)) BY DEF GrantAll, Grant
<1>3. m \notin {1, 5, 9} /\ Given(m, Role) => UpStatement(m, CreatePolicy(t))
  BY DEF CreatePolicy, Policy
<1>4. m = 10 => UpStatement(m, DropPolicy(t)) BY DEF DropPolicy, Policy
<1>5. ASSUME m \notin {1, 5, 9}, NEW c
      PROVE  UpStatement(m, AddIndex(t, c)) /\ UpStatement(m, AddColumn(t, c))
  BY <1>5 DEF AddIndex, AddColumn, Index, Column
<1>6. QED BY <1>1, <1>2, <1>3, <1>4, <1>5

\* A table is created when those of its parents are there.
LEMMA CreateTableStatement ==
  ASSUME NEW m \in Migrations, NEW t, NEW ps, CreateTable(t) = Statement("ensure", Table(t), ps),
         \A y \in ps : Earlier(y, m)
  PROVE  UpStatement(m, CreateTable(t))
BY DEF UpStatement, Unmakes, OfTable, Statement, Table, Required

\* Migration 10, statement by statement.
LEMMA AppRoleStatements ==
  /\ Len(Up(10)) = 17
  /\ Up(10)[1] = Statement("password", Role, {})
  /\ Up(10)[2] = Statement("ensure", Usage, {Role})
  /\ Up(10)[3] = GrantAll("users")          /\ Up(10)[4] = DropPolicy("users")
  /\ Up(10)[5] = CreatePolicy("users")
  /\ Up(10)[6] = GrantAll("articles")       /\ Up(10)[7] = DropPolicy("articles")
  /\ Up(10)[8] = CreatePolicy("articles")
  /\ Up(10)[9] = GrantAll("tags")           /\ Up(10)[10] = DropPolicy("tags")
  /\ Up(10)[11] = CreatePolicy("tags")
  /\ Up(10)[12] = GrantAll("article_tags")  /\ Up(10)[13] = DropPolicy("article_tags")
  /\ Up(10)[14] = CreatePolicy("article_tags")
  /\ Up(10)[15] = GrantAll("media")         /\ Up(10)[16] = DropPolicy("media")
  /\ Up(10)[17] = CreatePolicy("media")
BY Ups DEF ScopedAppRoleUp, OnEachTable

\* Every statement of every migration is of that kind.
LEMMA UpStatements ==
  ASSUME NEW m \in Migrations, NEW i \in 1..Len(Up(m))
  PROVE  UpStatement(m, Up(m)[i])
<1> DEFINE st == Up(m)[i]
<1> USE MigrationsAre DEF Migrated, Given
<1>1. CASE m \in {1, 2, 5, 6, 8}
  <2>1. /\ m = 1 => st = CreateTable("users")
        /\ m = 5 => st = CreateTable("tags")
        /\ m = 2 => st \in {CreateTable("articles"), AddIndex("articles", "authorId"),
                            AddIndex("articles", "published")}
        /\ m = 6 => st \in {CreateTable("article_tags"), AddIndex("article_tags", "pkey"),
                            AddIndex("article_tags", "tagId")}
        /\ m = 8 => st \in {CreateTable("media"), AddIndex("media", "articleId"),
                            AddIndex("media", "createdAt")}
    <3>1. m = 1 => st = CreateTable("users") BY Ups DEF CreateUsers
    <3>2. m = 5 => st = CreateTable("tags") BY Ups DEF CreateTags
    <3>3. m = 2 => st \in {CreateTable("articles"), AddIndex("articles", "authorId"),
                           AddIndex("articles", "published")}
      BY Ups DEF CreateArticles
    <3>4. m = 6 => st \in {CreateTable("article_tags"), AddIndex("article_tags", "pkey"),
                           AddIndex("article_tags", "tagId")}
      BY Ups DEF CreateArticleTags
    <3>5. m = 8 => st \in {CreateTable("media"), AddIndex("media", "articleId"),
                           AddIndex("media", "createdAt")}
      BY Ups DEF CreateMedia
    <3>6. QED BY <3>1, <3>2, <3>3, <3>4, <3>5
  <2>2. /\ m = 2 => Given(m, Table("articles"))
        /\ m = 6 => Given(m, Table("article_tags"))
        /\ m = 8 => Given(m, Table("media"))
    BY FirstMade
  <2>3. /\ m = 1 => UpStatement(m, CreateTable("users"))
        /\ m = 2 => UpStatement(m, CreateTable("articles"))
        /\ m = 5 => UpStatement(m, CreateTable("tags"))
        /\ m = 6 => UpStatement(m, CreateTable("article_tags"))
        /\ m = 8 => UpStatement(m, CreateTable("media"))
    BY Creates, Tables, CreateTableStatement
  <2>4. QED BY <1>1, <2>1, <2>2, <2>3, StatementsOnTables
<1>2. CASE m \in {11, 12}
  <2>1. /\ m = 11 => st \in {CreateTable("audit_logs"), AddIndex("audit_logs", "createdAt"),
                             AddIndex("audit_logs", "actorUserId"), EnableRls("audit_logs"),
                             CreatePolicy("audit_logs"), GrantAll("audit_logs")}
        /\ m = 12 => st \in {CreateTable("refresh_tokens"), AddIndex("refresh_tokens", "userId"),
                             AddIndex("refresh_tokens", "tokenHash"), EnableRls("refresh_tokens"),
                             CreatePolicy("refresh_tokens"), GrantAll("refresh_tokens")}
    BY Ups DEF CreateAuditLogs, CreateRefreshTokens
  <2>2. /\ m = 11 => Given(m, Table("audit_logs"))
        /\ m = 12 => Given(m, Table("refresh_tokens"))
        /\ Given(m, Role)
    BY <1>2, FirstMade, Tables
  <2>3. /\ m = 11 => UpStatement(m, CreateTable("audit_logs"))
        /\ m = 12 => UpStatement(m, CreateTable("refresh_tokens"))
    BY Creates, Tables, CreateTableStatement
  <2>4. QED BY <1>2, <2>1, <2>2, <2>3, StatementsOnTables
<1>3. CASE m \in {14, 15, 16}
  <2>1. /\ m = 14 => st \in {AddColumn("media", "uploadedByUserId"),
                             AddIndex("media", "uploadedByUserId")}
        /\ m = 15 => st = AddColumn("users", "status")
        /\ m = 16 => st = AddColumn("users", "lastLoginAt")
    BY Ups DEF AddUploader, AddUserStatus, AddLastLogin
  <2>2. QED BY <1>3, <2>1, Tables, StatementsOnTables
<1>4. CASE m = 9
  <2>1. st \in {EnableRls(t) : t \in Five}
    BY <1>4, Ups DEF EnableRlsUp, OnEachTable, Five
  <2>2. QED BY <1>4, <2>1, Tables, StatementsOnTables DEF Five
<1>5. CASE m = 10
  <2>1. st \in {Statement("password", Role, {}), Statement("ensure", Usage, {Role})}
                 \cup {GrantAll(t) : t \in Five} \cup {DropPolicy(t) : t \in Five}
                 \cup {CreatePolicy(t) : t \in Five}
    <3>1. i \in 1..17 BY <1>5, AppRoleStatements
    <3>2. i \in {3, 6, 9, 12, 15} => st \in {GrantAll(t) : t \in Five}
      BY <1>5, AppRoleStatements DEF Five
    <3>3. i \in {4, 7, 10, 13, 16} => st \in {DropPolicy(t) : t \in Five}
      BY <1>5, AppRoleStatements DEF Five
    <3>4. i \in {5, 8, 11, 14, 17} => st \in {CreatePolicy(t) : t \in Five}
      BY <1>5, AppRoleStatements DEF Five
    <3>5. i \in {1, 2} =>
            st \in {Statement("password", Role, {}), Statement("ensure", Usage, {Role})}
      BY <1>5, AppRoleStatements
    <3>6. QED BY <3>1, <3>2, <3>3, <3>4, <3>5
  <2>2. \A t \in Five : Given(m, Table(t))
    BY <1>5, Tables DEF Five
  <2>3. Given(m, Role) BY <1>5, FirstMade
  <2>4. /\ UpStatement(m, Statement("password", Role, {}))
        /\ UpStatement(m, Statement("ensure", Usage, {Role}))
    BY <2>3 DEF UpStatement, Unmakes, OfTable, Statement, Role, Usage, Required
  <2>5. QED BY <1>5, <2>1, <2>2, <2>3, <2>4, StatementsOnTables
<1>6. CASE m = 13
  <2>1. st \in {AddColumn("refresh_tokens", "familyId"),
                Statement("backfill", FamilyId, {FamilyId}),
                Statement("require", Required("refresh_tokens", "familyId"), {FamilyId}),
                AddIndex("refresh_tokens", "familyId")}
    BY <1>6, Ups DEF AddFamily
  <2>2. UpStatement(m, Statement("backfill", FamilyId, {FamilyId}))
    BY <1>6, FirstMade DEF UpStatement, Unmakes, OfTable, Statement, FamilyId, Column, Required
  <2>3. UpStatement(m, Statement("require", Required("refresh_tokens", "familyId"), {FamilyId}))
    BY <1>6, FirstMade DEF UpStatement, Unmakes, OfTable, Statement, FamilyId, Column, Required
  <2>4. Given(m, Table("refresh_tokens")) BY <1>6, Tables
  <2>5. QED BY <1>6, <2>1, <2>2, <2>3, <2>4, StatementsOnTables
<1>7. QED BY <1>1, <1>2, <1>3, <1>4, <1>5, <1>6

\* What the statements of migration 10 are about: it ...
LEMMA AppRoleObjects ==
  /\ Up(10)[1].object = Role                  /\ Up(10)[2].object = Usage
  /\ Up(10)[3].object = Grant("users")        /\ Up(10)[4].object = Policy("users")
  /\ Up(10)[5].object = Policy("users")       /\ Up(10)[6].object = Grant("articles")
  /\ Up(10)[7].object = Policy("articles")    /\ Up(10)[8].object = Policy("articles")
  /\ Up(10)[9].object = Grant("tags")         /\ Up(10)[10].object = Policy("tags")
  /\ Up(10)[11].object = Policy("tags")       /\ Up(10)[12].object = Grant("article_tags")
  /\ Up(10)[13].object = Policy("article_tags")
  /\ Up(10)[14].object = Policy("article_tags")
  /\ Up(10)[15].object = Grant("media")       /\ Up(10)[16].object = Policy("media")
  /\ Up(10)[17].object = Policy("media")
  /\ \A i \in {1, 2} \cup {3, 6, 9, 12, 15} : Up(10)[i].verb \in {"password", "ensure"}
  /\ \A i \in {4, 7, 10, 13, 16} : Up(10)[i].verb = "discard" /\ Up(10)[i + 1].verb = "add"
BY AppRoleStatements DEF GrantAll, DropPolicy, CreatePolicy, Statement

\* ... drops nothing that it made, and adds only what it has just dropped.
LEMMA AppRoleOrder ==
  ASSUME NEW i \in 1..17
  PROVE  /\ Unmakes(Up(10)[i]) => \A j \in 1..(i - 1) : Up(10)[j].object # Up(10)[i].object
         /\ Up(10)[i].verb = "add" =>
              /\ i > 1
              /\ Unmakes(Up(10)[i - 1])
              /\ Up(10)[i - 1].object = Up(10)[i].object
<1>1. i \in {1, 2} \cup {3, 6, 9, 12, 15} \cup {4, 7, 10, 13, 16} \cup {5, 8, 11, 14, 17}
  OBVIOUS
<1>2. CASE i \in {1, 2} \cup {3, 6, 9, 12, 15} BY <1>2, AppRoleObjects DEF Unmakes
<1>3. CASE i \in {5, 8, 11, 14, 17}
  BY <1>3, AppRoleObjects DEF Unmakes
<1>4. CASE i \in {4, 7, 10, 13, 16}
  <2>1. Up(10)[i].verb = "discard" BY <1>4, AppRoleObjects
  <2>2. ASSUME NEW j \in 1..(i - 1) PROVE Up(10)[j].object # Up(10)[i].object
    <3>1. CASE i = 4 BY <3>1, AppRoleObjects DEF Policy, Grant, Role, Usage
    <3>2. CASE i = 7 BY <3>2, AppRoleObjects DEF Policy, Grant, Role, Usage
    <3>3. CASE i = 10 BY <3>3, AppRoleObjects DEF Policy, Grant, Role, Usage
    <3>4. CASE i = 13 BY <3>4, AppRoleObjects DEF Policy, Grant, Role, Usage
    <3>5. CASE i = 16 BY <3>5, AppRoleObjects DEF Policy, Grant, Role, Usage
    <3>6. QED BY <1>4, <3>1, <3>2, <3>3, <3>4, <3>5
  <2>3. QED BY <2>1, <2>2
<1>5. QED BY <1>1, <1>2, <1>3, <1>4

\* Elsewhere what is added was not made before.
LEMMA AddedOnce ==
  ASSUME NEW m \in Migrations \ {10}, NEW i \in 1..Len(Up(m)), NEW j \in 1..(i - 1),
         Up(m)[i].verb = "add"
  PROVE  Up(m)[j].object # Up(m)[i].object
<1> USE DEF AddIndex, AddColumn, EnableRls, CreatePolicy, GrantAll, Statement, Table, Index, Rls,
            Policy, Grant, Column, Required
<1>1. CASE m = 2
  <2>1. /\ Len(Up(2)) = 3
        /\ Up(2)[1].object = Table("articles")
        /\ Up(2)[2].object = Index("articles", "authorId")
        /\ Up(2)[3].object = Index("articles", "published")
    BY Ups, Creates DEF CreateArticles
  <2>2. QED BY <1>1, <2>1
<1>2. CASE m = 6
  <2>1. /\ Len(Up(6)) = 3
        /\ Up(6)[1].object = Table("article_tags")
        /\ Up(6)[2].object = Index("article_tags", "pkey")
        /\ Up(6)[3].object = Index("article_tags", "tagId")
    BY Ups, Creates DEF CreateArticleTags
  <2>2. QED BY <1>2, <2>1
<1>3. CASE m = 8
  <2>1. /\ Len(Up(8)) = 3
        /\ Up(8)[1].object = Table("media")
        /\ Up(8)[2].object = Index("media", "articleId")
        /\ Up(8)[3].object = Index("media", "createdAt")
    BY Ups, Creates DEF CreateMedia
  <2>2. QED BY <1>3, <2>1
<1>4. CASE m = 11
  <2>1. /\ Len(Up(11)) = 6
        /\ Up(11)[1].object = Table("audit_logs")
        /\ Up(11)[2].object = Index("audit_logs", "createdAt")
        /\ Up(11)[3].object = Index("audit_logs", "actorUserId")
        /\ Up(11)[4].object = Rls("audit_logs")  /\ Up(11)[5].object = Policy("audit_logs")
        /\ Up(11)[6].object = Grant("audit_logs")
    BY Ups, Creates DEF CreateAuditLogs
  <2>2. QED BY <1>4, <2>1
<1>5. CASE m = 12
  <2>1. /\ Len(Up(12)) = 6
        /\ Up(12)[1].object = Table("refresh_tokens")
        /\ Up(12)[2].object = Index("refresh_tokens", "userId")
        /\ Up(12)[3].object = Index("refresh_tokens", "tokenHash")
        /\ Up(12)[4].object = Rls("refresh_tokens")  /\ Up(12)[5].object = Policy("refresh_tokens")
        /\ Up(12)[6].object = Grant("refresh_tokens")
    BY Ups, Creates DEF CreateRefreshTokens
  <2>2. QED BY <1>5, <2>1
<1>6. CASE m = 13
  <2>1. /\ Len(Up(13)) = 4
        /\ Up(13)[1].object = Column("refresh_tokens", "familyId")
        /\ Up(13)[2].object = Column("refresh_tokens", "familyId")
        /\ Up(13)[2].verb = "backfill"
        /\ Up(13)[3].object = Required("refresh_tokens", "familyId")
        /\ Up(13)[4].object = Index("refresh_tokens", "familyId")
    BY Ups DEF AddFamily, FamilyId
  <2>2. QED BY <1>6, <2>1
<1>7. CASE m = 14
  <2>1. /\ Len(Up(14)) = 2
        /\ Up(14)[1].object = Column("media", "uploadedByUserId")
        /\ Up(14)[2].object = Index("media", "uploadedByUserId")
    BY Ups DEF AddUploader
  <2>2. QED BY <1>7, <2>1
<1>8. CASE m \in {1, 5, 15, 16}
  <2>1. Len(Up(m)) = 1
    BY <1>8, Ups DEF CreateUsers, CreateTags, AddUserStatus, AddLastLogin
  <2>2. QED BY <2>1
<1>9. CASE m = 9
  BY <1>9, UpStatements DEF UpStatement
<1>10. QED BY <1>1, <1>2, <1>3, <1>4, <1>5, <1>6, <1>7, <1>8, <1>9, MigrationsAre DEF Migrated

\* A migration that has gone through has made all of what it makes, ...
LEMMA AllMade ==
  ASSUME NEW m \in Migrations, NEW x \in Makes(m)
  PROVE  \E j \in 1..Len(Up(m)) : ~Unmakes(Up(m)[j]) /\ Up(m)[j].object = x
<1>1. PICK j \in 1..Len(Up(m)) : Up(m)[j].object = x
  BY UpsAreTuples DEF Makes
<1>2. CASE m # 10
  BY <1>1, <1>2, UpStatements DEF UpStatement
<1>3. CASE m = 10
  <2>1. Len(Up(10)) = 17 BY AppRoleStatements
  <2>2. CASE j \in {4, 7, 10, 13, 16}
    <3>1. ~Unmakes(Up(10)[j + 1]) /\ Up(10)[j + 1].object = Up(10)[j].object
      BY <2>2, AppRoleObjects DEF Unmakes
    <3>2. QED BY <1>1, <1>3, <2>1, <2>2, <3>1
  <2>3. CASE j \notin {4, 7, 10, 13, 16}
    <3>1. Up(10)[j].verb # "discard"
      <4>1. CASE j \in {1, 2} \cup {3, 6, 9, 12, 15} BY <4>1, AppRoleObjects
      <4>2. CASE j \in {5, 8, 11, 14, 17} BY <4>2, AppRoleObjects
      <4>3. QED BY <1>3, <2>1, <2>3, <4>1, <4>2
    <3>2. QED BY <1>1, <1>3, <3>1, UpStatements DEF UpStatement, Unmakes
  <2>4. QED BY <2>2, <2>3
<1>4. QED BY <1>2, <1>3

\* ... beginning with a statement that needs nothing of the migration's own.
LEMMA FirstStatement ==
  ASSUME NEW m \in Migrations
  PROVE  /\ ~Unmakes(Up(m)[1])
         /\ \A y \in Up(m)[1].needs : Earlier(y, m)
<1> USE Ups, Creates, Tables DEF Statement, Unmakes
<1>1. CASE m \in {1, 5, 11}
  BY <1>1 DEF CreateUsers, CreateTags, CreateAuditLogs
<1>2. CASE m = 2 BY <1>2 DEF CreateArticles
<1>3. CASE m = 6 BY <1>3 DEF CreateArticleTags
<1>4. CASE m = 8 BY <1>4 DEF CreateMedia
<1>5. CASE m = 9 BY <1>5 DEF EnableRlsUp, OnEachTable, EnableRls
<1>6. CASE m = 10 BY <1>6 DEF ScopedAppRoleUp, OnEachTable
<1>7. CASE m = 12 BY <1>7 DEF CreateRefreshTokens
<1>8. CASE m = 13 BY <1>8 DEF AddFamily, AddColumn
<1>9. CASE m \in {14, 15, 16} BY <1>9 DEF AddUploader, AddUserStatus, AddLastLogin, AddColumn
<1>10. QED BY <1>1, <1>2, <1>3, <1>4, <1>5, <1>6, <1>7, <1>8, <1>9, MigrationsAre DEF Migrated

\* What the statements of a migration down have in common.
DownStatement(m, st) ==
  /\ Unmakes(st)
  /\ st.verb = "drop" => \E t : st.object = Table(t) /\ TableMaker(t) = m
  /\ st.verb = "remove" => m \in 13..16 /\ st.object \in Makes(m)
  /\ st.object = FamilyId => st.verb = "remove"
  /\ \A n \in Migrations : \A x \in Makes(n) : Takes(st.object, x) => n >= m /\ x # Role
  /\ \A y \in st.needs : Earlier(y, m) \/ (y = Role /\ m = 10)
  /\ \A t, x : Takes(st.object, Table(t)) /\ x[2] = t => Takes(st.object, x)

\* Who drops a table takes what is on it, which is of no earlier migration ...
LEMMA TakingATable ==
  ASSUME NEW t \in {"users", "articles", "tags", "article_tags", "media", "audit_logs",
                    "refresh_tokens"},
         NEW m \in Migrations, TableMaker(t) = m
  PROVE  DownStatement(m, DropTable(t))
<1>1. DropTable(t).object = Table(t) /\ DropTable(t).verb = "drop" /\ DropTable(t).needs = {}
  BY DEF DropTable, Statement
<1>2. ASSUME NEW x, Takes(Table(t), x) PROVE x[2] = t
  BY <1>2 DEF Takes, Table
<1>3. ASSUME NEW n \in Migrations, NEW x \in Makes(n), Takes(Table(t), x)
      PROVE  n >= m /\ x # Role
  <2>1. x[2] = t BY <1>2, <1>3
  <2>2. x \notin {Role, Usage} BY <2>1 DEF Role, Usage
  <2>3. OfTable(x) BY <2>2, OneMaker DEF Object, OfTable
  <2>4. QED BY <2>1, <2>2, <2>3, OneMaker, MigrationsAre DEF Migrated
<1>4. \A t2, x : Takes(Table(t), Table(t2)) /\ x[2] = t2 => Takes(Table(t), x)
  BY DEF Takes, Table
<1>5. Table(t) # FamilyId BY DEF Table, FamilyId, Column
<1>6. QED BY <1>1, <1>3, <1>4, <1>5 DEF DownStatement, Unmakes

\* ... and who removes a column its index and its NOT NULL.
LEMMA TakingAColumn ==
  ASSUME NEW m \in Migrations, NEW t, NEW c, ColumnMaker(t, c) = m, m \in 13..16,
         Column(t, c) \in Makes(m), Earlier(Table(t), m)
  PROVE  DownStatement(m, RemoveColumn(t, c))
<1> DEFINE st == RemoveColumn(t, c)
<1>1. st.object = Column(t, c) /\ st.verb = "remove" /\ st.needs = {Table(t)}
  BY DEF RemoveColumn, Statement
<1>2. ASSUME NEW n \in Migrations, NEW x \in Makes(n), Takes(Column(t, c), x)
      PROVE  n = m /\ x # Role
  <2>1. x = Column(t, c) \/ (Len(x) = 3 /\ Tail(x) = Tail(Column(t, c)))
    BY <1>2 DEF Takes, Column
  <2>2. /\ \A y, z : Len(<<y, z>>) = 2
        /\ \A w, y, z : Len(<<w, y, z>>) = 3 /\ Tail(<<w, y, z>>) = <<y, z>>
    OBVIOUS
  <2>3. Object(x) /\ x \notin {Role, Usage} /\ x[1] \in {"column", "required", "index"}
    <3>1. Len(x) = 3 BY <2>1, <2>2 DEF Column
    <3>2. QED BY <3>1, <2>2, OneMaker DEF Object, Role, Usage
  <2>4. x[2] = t /\ x[3] = c
    <3>1. x = <<x[1], x[2], x[3]>> BY <2>3 DEF Object
    <3>2. Tail(x) = <<x[2], x[3]>> BY <3>1, <2>2
    <3>3. Tail(Column(t, c)) = <<t, c>> BY <2>2 DEF Column
    <3>4. CASE x = Column(t, c) BY <3>4 DEF Column
    <3>5. CASE Tail(x) = Tail(Column(t, c))
      <4>1. <<x[2], x[3]>> = <<t, c>> BY <3>2, <3>3, <3>5
      <4>2. QED BY <4>1
    <3>6. QED BY <2>1, <3>4, <3>5
  <2>5. Maker(x) = m BY <2>3, <2>4 DEF Maker
  <2>6. QED BY <2>3, <2>5, OneMaker
<1>3. \A t2, x : Takes(Column(t, c), Table(t2)) /\ x[2] = t2 => Takes(Column(t, c), x)
  BY DEF Takes, Table, Column
<1>4. QED BY <1>1, <1>2, <1>3, MigrationsAre DEF DownStatement, Unmakes, Migrated

\* Of a policy, a grant or the like nothing else depends.
LEMMA TakingOne ==
  ASSUME NEW m \in Migrations, NEW st, Unmakes(st), st.verb = "discard",
         st.object[1] \in {"rls", "policy", "grant", "usage"}, Maker(st.object) = m,
         \A y \in st.needs : Earlier(y, m) \/ (y = Role /\ m = 10)
  PROVE  DownStatement(m, st)
<1>1. \A x : Takes(st.object, x) => x = st.object
  BY DEF Takes
<1>2. st.object \notin {Role, FamilyId} /\ \A t : st.object # Table(t)
  BY DEF Role, FamilyId, Column, Table
<1>3. QED BY <1>1, <1>2, OneMaker, MigrationsAre DEF DownStatement, Migrated

\* How long the scripts are, on the way down.
LEMMA DownsAreTuples ==
  ASSUME NEW m \in Migrations
  PROVE  Len(Down(m)) \in 1..11 /\ DOMAIN Down(m) = 1..Len(Down(m))
<1>1. CASE m \in {1, 2, 5, 6, 8, 11, 12} BY <1>1, Downs
<1>2. CASE m \in {13, 14, 15, 16} BY <1>2, Downs
<1>3. CASE m \in {9, 10}
  BY <1>3, Downs DEF EnableRlsDown, ScopedAppRoleDown, OnEachTable
<1>4. QED BY <1>1, <1>2, <1>3, MigrationsAre DEF Migrated

\* Migration 9 undone, statement by statement.
LEMMA RlsOff ==
  /\ Len(Down(9)) = 5
  /\ Down(9)[1] = DisableRls("users")  /\ Down(9)[2] = DisableRls("articles")
  /\ Down(9)[3] = DisableRls("tags")   /\ Down(9)[4] = DisableRls("article_tags")
  /\ Down(9)[5] = DisableRls("media")
BY Downs DEF EnableRlsDown, OnEachTable

\* Migration 10 undone, statement by statement.
LEMMA AppRoleOff ==
  /\ Len(Down(10)) = 11
  /\ Down(10)[1] = DropPolicy("users")         /\ Down(10)[2] = RevokeAll("users")
  /\ Down(10)[3] = DropPolicy("articles")      /\ Down(10)[4] = RevokeAll("articles")
  /\ Down(10)[5] = DropPolicy("tags")          /\ Down(10)[6] = RevokeAll("tags")
  /\ Down(10)[7] = DropPolicy("article_tags")  /\ Down(10)[8] = RevokeAll("article_tags")
  /\ Down(10)[9] = DropPolicy("media")         /\ Down(10)[10] = RevokeAll("media")
  /\ Down(10)[11] = Statement("discard", Usage, {Role})
BY Downs DEF ScopedAppRoleDown, OnEachTable

\* Every statement of every migration undone is of that kind.
LEMMA DownStatements ==
  ASSUME NEW m \in Migrations, NEW i \in 1..Len(Down(m))
  PROVE  DownStatement(m, Down(m)[i])
<1> USE MigrationsAre DEF Migrated
<1>1. CASE m \in {1, 2, 5, 6, 8, 11, 12}
  <2>1. \E t \in {"users", "articles", "tags", "article_tags", "media", "audit_logs",
                  "refresh_tokens"} : Down(m)[i] = DropTable(t) /\ TableMaker(t) = m
    BY <1>1, Downs DEF TableMaker
  <2>2. QED BY <2>1, TakingATable
<1>2. CASE m = 13
  <2>1. Down(m)[i] = RemoveColumn("refresh_tokens", "familyId") BY <1>2, Downs
  <2>2. QED BY <1>2, <2>1, TakingAColumn, Tables, MakesWhat DEF ColumnMaker, FamilyId
<1>3. CASE m = 14
  <2>1. Down(m)[i] = RemoveColumn("media", "uploadedByUserId") BY <1>3, Downs
  <2>2. QED BY <1>3, <2>1, TakingAColumn, Tables, MakesWhat DEF ColumnMaker
<1>4. CASE m = 15
  <2>1. Down(m)[i] = RemoveColumn("users", "status") BY <1>4, Downs
  <2>2. QED BY <1>4, <2>1, TakingAColumn, Tables, MakesWhat DEF ColumnMaker
<1>5. CASE m = 16
  <2>1. Down(m)[i] = RemoveColumn("users", "lastLoginAt") BY <1>5, Downs
  <2>2. QED BY <1>5, <2>1, TakingAColumn, Tables, MakesWhat DEF ColumnMaker
<1>6. CASE m = 9
  <2>1. PICK t \in Five : Down(m)[i] = DisableRls(t) BY <1>6, RlsOff DEF Five
  <2>2. Earlier(Table(t), m) BY <1>6, Tables DEF Five
  <2>3. Maker(DisableRls(t).object) = m /\ DisableRls(t).object[1] = "rls"
    BY <1>6 DEF DisableRls, Statement, Maker, Rls
  <2>4. QED BY <2>1, <2>2, <2>3, TakingOne DEF DisableRls, Statement, Unmakes
<1>7. CASE m = 10
  <2>1. CASE i = 11
    <3>1. Down(m)[i] = Statement("discard", Usage, {Role}) BY <1>7, <2>1, AppRoleOff
    <3>2. Maker(Usage) = m /\ Usage[1] = "usage" BY <1>7 DEF Maker, Usage
    <3>3. QED BY <1>7, <3>1, <3>2, TakingOne DEF Statement, Unmakes
  <2>2. CASE i \in {1, 3, 5, 7, 9}
    <3>1. PICK t \in Five : Down(m)[i] = DropPolicy(t) BY <1>7, <2>2, AppRoleOff DEF Five
    <3>2. Earlier(Table(t), m) BY <1>7, Tables DEF Five
    <3>3. Maker(DropPolicy(t).object) = m /\ DropPolicy(t).object[1] = "policy"
      BY <1>7 DEF DropPolicy, Statement, Maker, Policy
    <3>4. QED BY <3>1, <3>2, <3>3, TakingOne DEF DropPolicy, Statement, Unmakes
  <2>3. CASE i \in {2, 4, 6, 8, 10}
    <3>1. PICK t \in Five : Down(m)[i] = RevokeAll(t) BY <1>7, <2>3, AppRoleOff DEF Five
    <3>2. Earlier(Table(t), m) BY <1>7, Tables DEF Five
    <3>3. Maker(RevokeAll(t).object) = m /\ RevokeAll(t).object[1] = "grant"
      BY <1>7 DEF RevokeAll, Statement, Maker, Grant
    <3>4. QED BY <1>7, <3>1, <3>2, <3>3, TakingOne DEF RevokeAll, Statement, Unmakes
  <2>4. QED BY <1>7, <2>1, <2>2, <2>3, AppRoleOff
<1>8. QED BY <1>1, <1>2, <1>3, <1>4, <1>5, <1>6, <1>7

\* A migration undone has taken all it made, but for the role.
LEMMA AllTaken ==
  ASSUME NEW m \in Migrations, NEW x \in Makes(m) \ {Role}
  PROVE  \E i \in 1..Len(Down(m)) : Takes(Down(m)[i].object, x)
<1> USE MakesWhat DEF Statement, Takes
<1>1. CASE m \in {1, 2, 5, 6, 8, 11, 12}
  <2>1. \E t : x[2] = t /\ Down(m) = <<DropTable(t)>>
    <3>1. CASE m \in {1, 2, 5} BY <1>1, <3>1, Downs DEF Table, Index
    <3>2. CASE m \in {6, 8} BY <1>1, <3>2, Downs DEF Table, Index
    <3>3. CASE m \in {11, 12} BY <1>1, <3>3, Downs DEF Table, Index, Rls, Policy, Grant
    <3>4. QED BY <1>1, <3>1, <3>2, <3>3
  <2>2. QED BY <2>1 DEF DropTable, Table
<1>2. CASE m \in {13, 14, 15, 16}
  <2>1. \E t, c : /\ Down(m) = <<RemoveColumn(t, c)>>
                 /\ x \in {Column(t, c), Required(t, c), Index(t, c)}
    BY <1>2, Downs DEF FamilyId
  <2>2. PICK t, c : /\ Down(m) = <<RemoveColumn(t, c)>>
                    /\ x \in {Column(t, c), Required(t, c), Index(t, c)}
    BY <2>1
  <2>3. Len(x) = 3 /\ Tail(x) = Tail(Column(t, c)) /\ Column(t, c)[1] = "column"
    BY <2>2, Parts
  <2>4. Len(Down(m)) = 1 /\ Down(m)[1].object = Column(t, c)
    BY <2>2 DEF RemoveColumn
  <2>5. QED BY <2>3, <2>4
<1>3. CASE m = 9
  <2>1. PICK t \in Five : x = Rls(t) BY <1>3
  <2>2. PICK i \in 1..5 : Down(9)[i] = DisableRls(t) BY RlsOff DEF Five
  <2>3. QED BY <1>3, <2>1, <2>2, RlsOff DEF DisableRls
<1>4. CASE m = 10
  <2>1. CASE x = Usage BY <1>4, <2>1, AppRoleOff
  <2>2. CASE x \in {Policy(t) : t \in Five}
    <3>1. PICK t \in Five : x = Policy(t) BY <2>2
    <3>2. PICK i \in 1..11 : Down(10)[i] = DropPolicy(t) BY AppRoleOff DEF Five
    <3>3. Down(10)[i].object = x BY <3>1, <3>2 DEF DropPolicy
    <3>4. QED BY <1>4, <3>3, AppRoleOff
  <2>3. CASE x \in {Grant(t) : t \in Five}
    <3>1. PICK t \in Five : x = Grant(t) BY <2>3
    <3>2. PICK i \in 1..11 : Down(10)[i] = RevokeAll(t) BY AppRoleOff DEF Five
    <3>3. Down(10)[i].object = x BY <3>1, <3>2 DEF RevokeAll
    <3>4. QED BY <1>4, <3>3, AppRoleOff
  <2>4. QED BY <1>4, <2>1, <2>2, <2>3
<1>5. QED BY <1>1, <1>2, <1>3, <1>4, MigrationsAre DEF Migrated

\* What sequelize-cli goes through.
LEMMA Scripts ==
  /\ cli.doing = "up" => Script = Up(cli.migration)
  /\ cli.doing = "down" => Script = Down(cli.migration)
  /\ cli.doing = "seed" => Script = Seed
  /\ cli.doing = "unseed" => Script = Unseed
BY DEF Script

\* The seeders, statement by statement.
LEMMA Seeds ==
  /\ Len(Seed) = 4
  /\ Seed[1] = BulkInsert("users")  /\ Seed[2] = BulkInsert("articles")
  /\ Seed[3] = BulkInsert("tags")   /\ Seed[4] = BulkInsert("article_tags")
  /\ Len(Unseed) = 3
  /\ Unseed[1] = BulkDelete("tags") /\ Unseed[2] = BulkDelete("articles")
  /\ Unseed[3] = BulkDelete("users")
BY DEF Seed, Unseed, DemoUsers, DemoArticles, DemoTags

\* The rows the seeders deal in are of no migration.
LEMMA RowsApart ==
  /\ \A t : \A n \in Migrations : Rows(t) \notin Makes(n)
  /\ \A t : \A n \in Migrations : \A x \in Makes(n) : ~Takes(Rows(t), x)
  /\ \A t, t2 : ~Takes(Rows(t), Table(t2))
<1>1. \A n \in Migrations : \A x \in Makes(n) : x[1] # "rows"
  BY OneMaker DEF Object, Role, Usage
<1>2. QED BY <1>1 DEF Takes, Rows, Table

-----------------------------------------------------------------------------
(* The invariant is inductive: what sequelize-cli starts, breaks off and   *)
(* records.                                                                *)

\* db:migrate takes a migration that has all the earlier ones behind it ...
LEMMA LeastPending ==
  ASSUME recorded \subseteq Migrations, Migrations # recorded
  PROVE  /\ Min(Migrations \ recorded) \in Migrations \ recorded
         /\ \A n \in Migrations : n < Min(Migrations \ recorded) => n \in recorded
<1> DEFINE S == Migrations \ recorded
<1>1. \E x \in S : \A y \in S : x <= y
  <2>1. SUFFICES ASSUME \A x \in S : \E y \in S : y < x PROVE FALSE
    BY MigrationsAre DEF Migrated
  <2>2. S \cap {1, 2, 5, 6} = {} BY <2>1, MigrationsAre DEF Migrated
  <2>3. S \cap {8, 9, 10} = {} BY <2>1, <2>2, MigrationsAre DEF Migrated
  <2>4. S \cap {11, 12, 13} = {} BY <2>1, <2>2, <2>3, MigrationsAre DEF Migrated
  <2>5. S \cap {14, 15, 16} = {} BY <2>1, <2>2, <2>3, <2>4, MigrationsAre DEF Migrated
  <2>6. QED BY <2>2, <2>3, <2>4, <2>5, MigrationsAre DEF Migrated
<1>2. Min(S) \in S /\ \A y \in S : Min(S) <= y
  BY <1>1 DEF Min
<1>3. QED BY <1>2, MigrationsAre DEF Migrated

\* ... and db:migrate:undo the one that has none after it.
LEMMA LastRecorded ==
  ASSUME recorded \subseteq Migrations, recorded # {}
  PROVE  /\ Max(recorded) \in recorded
         /\ \A n \in recorded : n <= Max(recorded)
<1>1. \E x \in recorded : \A y \in recorded : x >= y
  <2>1. SUFFICES ASSUME \A x \in recorded : \E y \in recorded : y > x PROVE FALSE
    BY MigrationsAre DEF Migrated
  <2>2. recorded \cap {14, 15, 16} = {} BY <2>1, MigrationsAre DEF Migrated
  <2>3. recorded \cap {11, 12, 13} = {} BY <2>1, <2>2, MigrationsAre DEF Migrated
  <2>4. recorded \cap {8, 9, 10} = {} BY <2>1, <2>2, <2>3, MigrationsAre DEF Migrated
  <2>5. recorded \cap {1, 2, 5, 6} = {} BY <2>1, <2>2, <2>3, <2>4, MigrationsAre DEF Migrated
  <2>6. QED BY <2>2, <2>3, <2>4, <2>5, MigrationsAre DEF Migrated
<1>2. Max(recorded) \in recorded /\ \A y \in recorded : Max(recorded) >= y
  BY <1>1 DEF Max
<1>3. QED BY <1>2, MigrationsAre DEF Migrated

\* The empty database.
LEMMA InitHolds == Init => SchemaInv
BY MigrationsAre
   DEF Init, Quiet, SchemaInv, CliOK, RecordOK, BrokenOK, TokensOK, TokenRows, PresentOK, UpOK,
       SeedOK, DownOK, SettledWhole, Settled, Whole, Migrated

\* Nothing is broken off, nor settled, by a run that has only begun.
LEMMA StartHolds ==
  ASSUME SchemaInv, NEW doing \in {"up", "down", "seed", "unseed"}, NEW m \in Migrations \cup {0},
         Start(doing, m),
         doing \in {"seed", "unseed"} => m = 0,
         doing = "up" => /\ m \in Migrations \ recorded
                         /\ \A n \in Migrations : n < m => n \in recorded,
         doing = "down" => m \in recorded /\ \A n \in recorded : n <= m
  PROVE  SchemaInv'
<1>1. cli = Quiet /\ cli' = [doing |-> doing, migration |-> m, step |-> 1]
  BY DEF Start
<1>2. UNCHANGED <<present, recorded, tokens, broken>>
  BY DEF Start
<1>3. CliOK'
  <2>1. doing = "up" => 1 <= Len(Up(m)) + 1 BY UpsAreTuples, MigrationsAre DEF Migrated
  <2>2. doing = "down" => 1 <= Len(Down(m)) + 1
    BY DownsAreTuples, MigrationsAre DEF Migrated, SchemaInv, RecordOK
  <2>3. QED BY <1>1, <1>2, <2>1, <2>2, Seeds DEF CliOK
<1>4. RecordOK' /\ BrokenOK' /\ TokensOK' /\ PresentOK'
  BY <1>2 DEF SchemaInv, RecordOK, BrokenOK, TokensOK, PresentOK
<1>5. SeedOK' /\ DownOK'
  BY <1>1 DEF SeedOK, DownOK
<1>6. SettledWhole'
  BY <1>1, <1>2 DEF SchemaInv, SettledWhole, Settled, Whole, Quiet
<1>7. UpOK'
  <2>1. SUFFICES ASSUME doing = "up", <<"up", m>> \notin broken, NEW x \in present \cap Makes(m)
                 PROVE  x = Role
    BY <1>1, <1>2 DEF UpOK
  <2>2. Settled(m)
    BY <1>1, <2>1 DEF Settled, Quiet, SchemaInv, BrokenOK
  <2>3. QED BY <2>1, <2>2 DEF SchemaInv, SettledWhole, Whole
<1>8. QED BY <1>3, <1>4, <1>5, <1>6, <1>7 DEF SchemaInv

\* The three commands.
LEMMA StartsHold ==
  ASSUME SchemaInv, Migrate \/ Undo \/ RunSeeders
  PROVE  SchemaInv'
<1>0. recorded \subseteq Migrations BY DEF SchemaInv, RecordOK
<1>1. CASE Migrate BY <1>0, <1>1, LeastPending, StartHolds DEF Migrate
<1>2. CASE Undo BY <1>0, <1>2, LastRecorded, StartHolds DEF Undo
<1>3. CASE RunSeeders BY <1>3, StartHolds DEF RunSeeders
<1>4. QED BY <1>1, <1>2, <1>3

\* A run broken off leaves what it was at unsettled.
LEMMA BrokenOffHolds ==
  ASSUME SchemaInv, cli.doing # "nothing", BrokenOff
  PROVE  SchemaInv'
<1>1. /\ cli' = Quiet
      /\ UNCHANGED <<present, recorded, tokens>>
      /\ broken' = IF cli.step > 1 /\ cli.migration # 0
                   THEN broken \cup {<<cli.doing, cli.migration>>} ELSE broken
  BY DEF BrokenOff
<1>2. CliOK' /\ UpOK' /\ SeedOK' /\ DownOK'
  BY <1>1 DEF CliOK, Quiet, UpOK, SeedOK, DownOK
<1>3. RecordOK' /\ TokensOK' /\ PresentOK'
  BY <1>1 DEF SchemaInv, RecordOK, TokensOK, PresentOK
<1>4. BrokenOK'
  <2>1. cli.migration # 0 => /\ cli.doing \in {"up", "down"}
                             /\ cli.migration \in Migrations
                             /\ cli.doing = "up" => cli.migration \notin recorded
                             /\ cli.doing = "down" => cli.migration \in recorded
    BY DEF SchemaInv, CliOK
  <2>2. QED BY <1>1, <2>1 DEF SchemaInv, BrokenOK
<1>5. SettledWhole'
  <2>1. SUFFICES ASSUME NEW n \in Migrations, Settled(n)'
                 PROVE  Whole(n)'
    BY DEF SettledWhole
  <2>2. {<<"up", n>>, <<"down", n>>} \cap broken = {}
    BY <1>1, <2>1 DEF Settled
  <2>3. ~(cli.migration = n /\ cli.step > 1)
    <3>1. SUFFICES ASSUME cli.migration = n, cli.step > 1 PROVE FALSE
      OBVIOUS
    <3>2. n # 0 BY MigrationsAre DEF Migrated
    <3>3. cli.doing \in {"up", "down"} BY <3>1, <3>2 DEF SchemaInv, CliOK
    <3>4. <<cli.doing, n>> \in broken' BY <1>1, <3>1, <3>2
    <3>5. QED BY <2>1, <3>3, <3>4 DEF Settled
  <2>4. Settled(n) BY <2>2, <2>3 DEF Settled
  <2>5. QED BY <1>1, <2>4 DEF SchemaInv, SettledWhole, Whole
<1>6. QED BY <1>2, <1>3, <1>4, <1>5 DEF SchemaInv

\* The app, at work all the while.
LEMMA TokensHold ==
  ASSUME SchemaInv, PreviousRelease \/ CurrentRelease
  PROVE  SchemaInv'
<1>1. UNCHANGED <<present, recorded, cli, broken>>
  BY DEF PreviousRelease, CurrentRelease, InsertToken
<1>2. TokensOK'
  BY <1>1 DEF PreviousRelease, CurrentRelease, InsertToken, SchemaInv, TokensOK, TokenRows
<1>3. CliOK' /\ RecordOK' /\ BrokenOK' /\ PresentOK'
  BY <1>1 DEF SchemaInv, CliOK, RecordOK, BrokenOK, PresentOK
<1>4. UpOK' /\ SeedOK' /\ DownOK'
  BY <1>1 DEF SchemaInv, UpOK, SeedOK, DownOK, Made
<1>5. SettledWhole'
  BY <1>1 DEF SchemaInv, SettledWhole, Settled, Whole
<1>6. QED BY <1>2, <1>3, <1>4, <1>5 DEF SchemaInv

\* A run that has gone through settles its migration, on either side.
LEMMA RecordHolds ==
  ASSUME SchemaInv, Record
  PROVE  SchemaInv'
<1> DEFINE m == cli.migration
<1>1. /\ Through
      /\ cli' = Quiet
      /\ UNCHANGED <<present, tokens>>
      /\ broken' = broken \ {<<"up", m>>, <<"down", m>>}
      /\ recorded' = CASE cli.doing = "up" -> recorded \cup {m}
                       [] cli.doing = "down" -> recorded \ {m}
                       [] OTHER -> recorded
  BY DEF Record, Mended
<1>2. /\ cli.doing = "up" => recorded' = recorded \cup {m}
      /\ cli.doing = "down" => recorded' = recorded \ {m}
      /\ cli.doing \in {"seed", "unseed"} => recorded' = recorded
  BY <1>1, Zenon
<1>3. cli.doing \in {"up", "down", "seed", "unseed"}
  BY <1>1 DEF Through, SchemaInv, CliOK
<1>4. CliOK' /\ UpOK' /\ SeedOK' /\ DownOK'
  BY <1>1 DEF CliOK, Quiet, UpOK, SeedOK, DownOK
<1>5. TokensOK'
  BY <1>1 DEF SchemaInv, TokensOK
<1>6. CASE cli.doing = "up"
  <2>1. m \in Migrations \ recorded /\ \A n \in Migrations : n < m => n \in recorded
    BY <1>6 DEF SchemaInv, CliOK
  <2>2. cli.step > Len(Up(m))
    BY <1>1, <1>6, Scripts DEF Through
  <2>3. Makes(m) \subseteq present
    <3>1. SUFFICES ASSUME NEW x \in Makes(m) PROVE x \in present
      OBVIOUS
    <3>2. PICK j \in 1..Len(Up(m)) : ~Unmakes(Up(m)[j]) /\ Up(m)[j].object = x
      BY <2>1, AllMade
    <3>3. j \in 1..(cli.step - 1)
      BY <2>1, <2>2, UpsAreTuples DEF SchemaInv, CliOK
    <3>4. Made(Up(m)[j])
      BY <1>6, <3>2, <3>3 DEF SchemaInv, UpOK
    <3>5. QED BY <3>2, <3>4 DEF Made
  <2>4. RecordOK'
    <3>1. recorded' = recorded \cup {m} BY <1>2, <1>6
    <3>2. QED BY <2>1, <3>1 DEF SchemaInv, RecordOK
  <2>5. BrokenOK'
    BY <1>1, <1>2, <1>6, <2>1 DEF SchemaInv, BrokenOK
  <2>6. PresentOK'
    <3>1. Role \in Makes(10) BY MakesWhat
    <3>2. QED BY <1>1, <1>2, <1>6, <2>3, <3>1 DEF SchemaInv, PresentOK
  <2>7. SettledWhole'
    <3>1. SUFFICES ASSUME NEW n \in Migrations, Settled(n)' PROVE Whole(n)'
      BY DEF SettledWhole
    <3>2. CASE n = m BY <1>1, <1>2, <1>6, <2>3, <3>2 DEF Whole
    <3>3. CASE n # m
      <4>1. Settled(n) BY <1>1, <3>1, <3>3 DEF Settled
      <4>2. QED BY <1>1, <1>2, <1>6, <3>3, <4>1 DEF SchemaInv, SettledWhole, Whole
    <3>4. QED BY <3>2, <3>3
  <2>8. QED BY <1>4, <1>5, <2>4, <2>5, <2>6, <2>7 DEF SchemaInv
<1>7. CASE cli.doing = "down"
  <2>1. m \in Migrations /\ m \in recorded /\ \A n \in recorded : n <= m
    BY <1>7 DEF SchemaInv, CliOK, RecordOK
  <2>2. cli.step > Len(Down(m))
    BY <1>1, <1>7, Scripts DEF Through
  <2>3. Makes(m) \cap present \subseteq {Role}
    <3>1. SUFFICES ASSUME NEW x \in Makes(m) \ {Role}, x \in present PROVE FALSE
      OBVIOUS
    <3>2. PICK i \in 1..Len(Down(m)) : Takes(Down(m)[i].object, x)
      BY <2>1, AllTaken
    <3>3. i \in 1..(cli.step - 1)
      BY <2>1, <2>2, DownsAreTuples DEF SchemaInv, CliOK
    <3>4. QED BY <1>7, <3>1, <3>2, <3>3 DEF SchemaInv, DownOK
  <2>4. RecordOK'
    <3>1. recorded' = recorded \ {m} BY <1>2, <1>7
    <3>2. Migrations \subseteq Nat BY MigrationsAre DEF Migrated
    <3>3. \A p \in recorded : \A n \in Migrations : n < p => n \in recorded /\ n # m
      BY <2>1, <3>2 DEF SchemaInv, RecordOK
    <3>4. QED BY <3>1, <3>3 DEF SchemaInv, RecordOK
  <2>5. BrokenOK'
    BY <1>1, <1>2, <1>7, <2>1 DEF SchemaInv, BrokenOK
  <2>6. PresentOK'
    BY <1>1, <1>2, <1>7 DEF SchemaInv, PresentOK
  <2>7. SettledWhole'
    <3>1. SUFFICES ASSUME NEW n \in Migrations, Settled(n)' PROVE Whole(n)'
      BY DEF SettledWhole
    <3>2. CASE n = m BY <1>1, <1>2, <1>7, <2>3, <3>2 DEF Whole
    <3>3. CASE n # m
      <4>1. Settled(n) BY <1>1, <3>1, <3>3 DEF Settled
      <4>2. QED BY <1>1, <1>2, <1>7, <3>3, <4>1 DEF SchemaInv, SettledWhole, Whole
    <3>4. QED BY <3>2, <3>3
  <2>8. QED BY <1>4, <1>5, <2>4, <2>5, <2>6, <2>7 DEF SchemaInv
<1>8. CASE cli.doing \in {"seed", "unseed"}
  <2>1. RecordOK' /\ BrokenOK' /\ PresentOK'
    BY <1>1, <1>2, <1>8 DEF SchemaInv, RecordOK, BrokenOK, PresentOK
  <2>2. m = 0 BY <1>8 DEF SchemaInv, CliOK
  <2>3. SettledWhole'
    <3>1. SUFFICES ASSUME NEW n \in Migrations, Settled(n)' PROVE Whole(n)'
      BY DEF SettledWhole
    <3>2. n # m BY <2>2, MigrationsAre DEF Migrated
    <3>3. Settled(n) BY <1>1, <3>1, <3>2 DEF Settled
    <3>4. QED BY <1>1, <1>2, <1>8, <3>3 DEF SchemaInv, SettledWhole, Whole
  <2>4. QED BY <1>4, <1>5, <2>1, <2>3 DEF SchemaInv
<1>9. QED BY <1>3, <1>6, <1>7, <1>8

-----------------------------------------------------------------------------
(* The invariant is inductive: a statement goes through. *)

\* What tokens are after a statement.
LEMMA TokensAfterIs ==
  ASSUME NEW st, tokens \in TokenRows
  PROVE  /\ TokensAfter(st) \in TokenRows
         /\ TokensAfter(st) = "loose" =>
              tokens = "loose" \/ (st.object = FamilyId /\ st.verb = "remove")
<1>1. CASE st.object = Table("refresh_tokens") /\ st.verb = "drop"
  <2>1. TokensAfter(st) = "none" BY <1>1 DEF TokensAfter
  <2>2. QED BY <2>1 DEF TokenRows
<1>2. CASE ~(st.object = Table("refresh_tokens") /\ st.verb = "drop")
  <2>1. TokensAfter(st) \in {"families", tokens} \/ (/\ TokensAfter(st) = "loose"
                                                    /\ st.object = FamilyId
                                                    /\ st.verb = "remove")
    BY <1>2 DEF TokensAfter
  <2>2. QED BY <2>1 DEF TokenRows
<1>3. QED BY <1>1, <1>2

\* What a statement that goes through does.
LEMMA Stepped ==
  ASSUME SchemaInv, Execute
  PROVE  /\ cli' = [cli EXCEPT !.step = @ + 1]
         /\ cli.step \in Nat \ {0}
         /\ cli'.doing = cli.doing /\ cli'.migration = cli.migration /\ cli'.step = cli.step + 1
         /\ cli.step \in 1..(cli'.step - 1)
         /\ \A j \in 1..(cli'.step - 1) : j \in 1..(cli.step - 1) \/ j = cli.step
         /\ UNCHANGED <<recorded, broken>>
         /\ ~Refused(Current)
         /\ cli.doing \in {"up", "down", "seed", "unseed"}
         /\ cli.step <= Len(Script)
         /\ tokens' = TokensAfter(Current)
         /\ Unmakes(Current) => present' = {x \in present : ~Takes(Current.object, x)}
         /\ ~Unmakes(Current) => present' = present \cup {Current.object}
BY DEF SchemaInv, CliOK, Execute, Running, Cascade, Takes

\* Only what is not at work, or is at work and has made no step, is settled.
LEMMA SettledBefore ==
  ASSUME SchemaInv, Execute, NEW n \in Migrations, Settled(n)'
  PROVE  n # cli.migration /\ Settled(n)
BY Stepped DEF Settled

\* A statement of a migration.
LEMMA ExecuteUp ==
  ASSUME SchemaInv, Execute, cli.doing = "up"
  PROVE  SchemaInv'
<1>0. PICK m \in Migrations, k \in Nat : m = cli.migration /\ k = cli.step
  BY DEF SchemaInv, CliOK
<1> DEFINE st == Up(m)[k]
<1>1. /\ m \in Migrations \ recorded
      /\ \A n \in Migrations : n < m => n \in recorded
      /\ k \in 1..Len(Up(m))
      /\ Current = st
  BY <1>0, Scripts, Stepped, UpsAreTuples DEF SchemaInv, CliOK, Current
<1>2. UpStatement(m, st) /\ st.object \in Makes(m)
  BY <1>1, UpStatements, UpsAreTuples DEF Makes
<1>3. Unmakes(st) => /\ m = 10
                     /\ st.object[1] = "policy"
                     /\ present' = present \ {st.object}
  <2>1. st.object[1] = "policy" => \A x : Takes(st.object, x) <=> x = st.object
    BY DEF Takes
  <2>2. QED BY <1>1, <1>2, <2>1, Stepped DEF UpStatement
<1>4. ~Unmakes(st) => present' = present \cup {st.object}
  BY <1>1, Stepped
<1>5. CliOK'
  <2>1. k + 1 <= Len(Up(m)) + 1 BY <1>1, UpsAreTuples
  <2>2. QED BY <1>0, <2>1, Stepped DEF SchemaInv, CliOK
<1>6. RecordOK' /\ BrokenOK' /\ SeedOK' /\ DownOK'
  BY Stepped DEF SchemaInv, RecordOK, BrokenOK, SeedOK, DownOK
<1>7. TokensOK'
  <2>1. tokens' \in TokenRows /\ (tokens' = "loose" => tokens = "loose")
    BY <1>1, <1>2, Stepped, TokensAfterIs DEF SchemaInv, TokensOK, UpStatement
  <2>2. st.object = Required("refresh_tokens", "familyId") => tokens # "loose"
    BY <1>1, <1>2, Stepped DEF UpStatement, Refused
  <2>3. QED BY <1>3, <1>4, <2>1, <2>2 DEF SchemaInv, TokensOK
<1>8. PresentOK'
  <2>1. \A x \in present' : x = Rows(x[2]) \/ \E n \in Migrations : x \in Makes(n)
    BY <1>1, <1>2, <1>3, <1>4 DEF SchemaInv, PresentOK
  <2>2. ASSUME NEW x \in present', OfTable(x) PROVE Table(x[2]) \in present'
    <3>1. CASE Unmakes(st)
      <4>1. Table(x[2]) # st.object BY <1>3, <3>1 DEF Table
      <4>2. QED BY <1>3, <2>2, <3>1, <4>1 DEF SchemaInv, PresentOK
    <3>2. CASE ~Unmakes(st) /\ x \in present
      BY <1>4, <2>2, <3>2 DEF SchemaInv, PresentOK
    <3>3. CASE ~Unmakes(st) /\ x = st.object
      <4>1. st.needs \subseteq present BY <1>1, Stepped DEF Refused
      <4>2. FamilyId \in present => Table("refresh_tokens") \in present
        BY DEF SchemaInv, PresentOK, OfTable, FamilyId, Column
      <4>3. QED BY <1>2, <1>4, <2>2, <3>3, <4>1, <4>2 DEF UpStatement
    <3>4. QED BY <1>4, <2>2, <3>1, <3>2, <3>3
  <2>3. Role[1] # "policy" BY DEF Role
  <2>4. 10 \in recorded' => Role \in present'
    BY <1>3, <1>4, <2>3, Stepped DEF SchemaInv, PresentOK
  <2>5. QED BY <2>1, <2>2, <2>4 DEF PresentOK
<1>9. UpOK'
  <2>1. ASSUME NEW j \in 1..(cli'.step - 1), ~Unmakes(Up(m)[j]) \/ j = k
        PROVE  Made(Up(m)[j])'
    <3>1. CASE j = k
      BY <1>3, <1>4, <3>1 DEF Made
    <3>2. CASE j # k
      <4>1. j \in 1..(k - 1) /\ ~Unmakes(Up(m)[j]) BY <1>0, <2>1, <3>2, Stepped
      <4>2. Up(m)[j].object \in present
        BY <1>0, <4>1 DEF SchemaInv, UpOK, Made
      <4>3. Unmakes(st) => Up(m)[j].object # st.object
        <5>1. SUFFICES ASSUME Unmakes(st) PROVE Up(m)[j].object # st.object
          OBVIOUS
        <5>2. m = 10 /\ k \in 1..17 BY <1>1, <1>3, <5>1, AppRoleStatements
        <5>3. QED BY <4>1, <5>1, <5>2, AppRoleOrder
      <4>4. QED BY <1>3, <1>4, <4>1, <4>2, <4>3 DEF Made
    <3>3. QED BY <3>1, <3>2
  <2>2. ASSUME <<"up", m>> \notin broken, NEW x \in present' \cap Makes(m), x # Role
        PROVE  \E j \in 1..(cli'.step - 1) : Up(m)[j].object = x
    <3>1. CASE x = st.object BY <1>0, <3>1, Stepped
    <3>2. CASE x # st.object
      <4>1. x \in present BY <1>3, <1>4, <3>2
      <4>2. PICK j \in 1..(k - 1) : Up(m)[j].object = x
        BY <1>0, <2>2, <4>1 DEF SchemaInv, UpOK
      <4>3. QED BY <1>0, <4>2, Stepped
    <3>3. QED BY <3>1, <3>2
  <2>3. cli'.migration = m /\ cli'.step - 1 = k BY <1>0, Stepped
  <2>4. QED BY <2>1, <2>2, <2>3, Stepped DEF UpOK, Made, Unmakes
<1>10. SettledWhole'
  <2>1. SUFFICES ASSUME NEW n \in Migrations, Settled(n)' PROVE Whole(n)'
    BY DEF SettledWhole
  <2>2. n # m /\ Whole(n) BY <1>0, <2>1, SettledBefore DEF SchemaInv, SettledWhole
  <2>3. st.object \notin Makes(n) BY <1>1, <1>2, <2>2, OneMaker
  <2>4. QED BY <1>3, <1>4, <2>2, <2>3, Stepped DEF Whole
<1>11. QED BY <1>5, <1>6, <1>7, <1>8, <1>9, <1>10 DEF SchemaInv

\* A statement of a migration undone.
LEMMA ExecuteDown ==
  ASSUME SchemaInv, Execute, cli.doing = "down"
  PROVE  SchemaInv'
<1>0. PICK m \in Migrations, k \in Nat : m = cli.migration /\ k = cli.step
  BY DEF SchemaInv, CliOK, RecordOK
<1> DEFINE st == Down(m)[k]
<1>1. /\ m \in Migrations /\ m \in recorded
      /\ \A n \in recorded : n <= m
      /\ k \in 1..Len(Down(m))
      /\ Current = st
  BY <1>0, Scripts, Stepped, DownsAreTuples DEF SchemaInv, CliOK, RecordOK, Current
<1>2. DownStatement(m, st)
  BY <1>1, DownStatements
<1>3. present' = {x \in present : ~Takes(st.object, x)}
  BY <1>1, <1>2, Stepped DEF DownStatement
<1>4. CliOK'
  <2>1. k + 1 <= Len(Down(m)) + 1 BY <1>1, DownsAreTuples
  <2>2. QED BY <1>0, <2>1, Stepped DEF SchemaInv, CliOK
<1>5. RecordOK' /\ BrokenOK' /\ SeedOK' /\ UpOK'
  BY Stepped DEF SchemaInv, RecordOK, BrokenOK, SeedOK, UpOK
<1>6. TokensOK'
  <2>1. tokens' \in TokenRows /\ (tokens' = "loose" => tokens = "loose" \/ st.object = FamilyId)
    BY <1>1, <1>2, Stepped, TokensAfterIs DEF SchemaInv, TokensOK
  <2>2. Takes(FamilyId, Required("refresh_tokens", "familyId"))
    BY DEF Takes, FamilyId, Column, Required
  <2>3. QED BY <1>3, <2>1, <2>2 DEF SchemaInv, TokensOK
<1>7. PresentOK'
  <2>1. ~Takes(st.object, Role)
    BY <1>2, MakesWhat, MigrationsAre DEF DownStatement, Migrated
  <2>2. \A x \in present' : OfTable(x) => Table(x[2]) \in present'
    BY <1>2, <1>3 DEF DownStatement, SchemaInv, PresentOK
  <2>3. QED BY <1>3, <2>1, <2>2, Stepped DEF SchemaInv, PresentOK
<1>8. DownOK'
  <2>1. ASSUME NEW j \in 1..(cli'.step - 1), NEW x \in present'
        PROVE  ~Takes(Down(m)[j].object, x)
    BY <1>0, <1>1, <1>3, <2>1, Stepped DEF SchemaInv, DownOK
  <2>2. cli'.migration = m BY <1>0, Stepped
  <2>3. QED BY <2>1, <2>2 DEF DownOK
<1>9. SettledWhole'
  <2>1. SUFFICES ASSUME NEW n \in Migrations, Settled(n)' PROVE Whole(n)'
    BY DEF SettledWhole
  <2>2. n # m /\ Whole(n) BY <1>0, <2>1, SettledBefore DEF SchemaInv, SettledWhole
  <2>3. n \in recorded => \A x \in Makes(n) : ~Takes(st.object, x)
    <3>1. Migrations \subseteq Nat BY MigrationsAre DEF Migrated
    <3>2. QED BY <1>1, <1>2, <2>2, <3>1 DEF DownStatement
  <2>4. QED BY <1>3, <2>2, <2>3, Stepped DEF Whole
<1>10. QED BY <1>4, <1>5, <1>6, <1>7, <1>8, <1>9 DEF SchemaInv

\* A statement of db:seed.
LEMMA ExecuteSeed ==
  ASSUME SchemaInv, Execute, cli.doing = "seed"
  PROVE  SchemaInv'
<1>0. PICK k \in Nat : k = cli.step
  BY DEF SchemaInv, CliOK
<1> DEFINE st == Seed[k]
<1>1. cli.migration = 0 /\ k \in 1..4 /\ Current = st
  <2>1. Script = Seed BY Scripts
  <2>2. k \in 1..4 BY <1>0, <2>1, Stepped, Seeds
  <2>3. cli.migration = 0 BY DEF SchemaInv, CliOK
  <2>4. QED BY <1>0, <2>1, <2>2, <2>3 DEF Current
<1>2. PICK t : st = BulkInsert(t)
  BY <1>1, Seeds
<1>3. /\ st.object = Rows(t) /\ st.verb = "add"
      /\ Table(t) \in st.needs
  BY <1>2 DEF BulkInsert, Statement
<1>4. present' = present \cup {Rows(t)} /\ Table(t) \in present
  BY <1>1, <1>3, Stepped DEF Unmakes, Refused
<1>5. CliOK'
  BY <1>0, <1>1, Stepped, Seeds DEF SchemaInv, CliOK
<1>6. RecordOK' /\ BrokenOK' /\ UpOK' /\ DownOK'
  BY Stepped DEF SchemaInv, RecordOK, BrokenOK, UpOK, DownOK
<1>7. TokensOK'
  <2>1. tokens' \in TokenRows /\ (tokens' = "loose" => tokens = "loose")
    BY <1>1, <1>3, Stepped, TokensAfterIs DEF SchemaInv, TokensOK
  <2>2. Required("refresh_tokens", "familyId") # Rows(t) BY Parts
  <2>3. QED BY <1>4, <2>1, <2>2 DEF SchemaInv, TokensOK
<1>8. PresentOK'
  <2>1. Rows(t)[2] = t BY Parts
  <2>2. QED BY <1>4, <2>1, Stepped DEF SchemaInv, PresentOK
<1>9. SeedOK'
  <2>1. ASSUME NEW j \in 1..(cli'.step - 1) PROVE Seed[j].object \in present'
    <3>1. CASE j = k BY <1>3, <1>4, <3>1
    <3>2. CASE j # k
      <4>1. j \in 1..(cli.step - 1) BY <1>0, <3>2, Stepped
      <4>2. QED BY <1>4, <4>1 DEF SchemaInv, SeedOK
    <3>3. QED BY <3>1, <3>2
  <2>2. QED BY <2>1 DEF SeedOK
<1>10. SettledWhole'
  <2>1. SUFFICES ASSUME NEW n \in Migrations, Settled(n)' PROVE Whole(n)'
    BY DEF SettledWhole
  <2>2. Whole(n) BY <2>1, SettledBefore DEF SchemaInv, SettledWhole
  <2>3. QED BY <1>4, <2>2, RowsApart, Stepped DEF Whole
<1>11. QED BY <1>5, <1>6, <1>7, <1>8, <1>9, <1>10 DEF SchemaInv

\* A statement of db:seed:undo.
LEMMA ExecuteUnseed ==
  ASSUME SchemaInv, Execute, cli.doing = "unseed"
  PROVE  SchemaInv'
<1>0. PICK k \in Nat : k = cli.step
  BY DEF SchemaInv, CliOK
<1> DEFINE st == Unseed[k]
<1>1. cli.migration = 0 /\ k \in 1..3 /\ Current = st
  BY <1>0, Scripts, Stepped, Seeds DEF SchemaInv, CliOK, Current
<1>2. PICK t : st = BulkDelete(t)
  BY <1>1, Seeds
<1>3. st.object = Rows(t) /\ st.verb = "discard"
  BY <1>2 DEF BulkDelete, Statement
<1>4. present' = {x \in present : ~Takes(Rows(t), x)}
  BY <1>1, <1>3, Stepped DEF Unmakes
<1>5. CliOK'
  BY <1>0, <1>1, Stepped, Seeds DEF SchemaInv, CliOK
<1>6. RecordOK' /\ BrokenOK' /\ UpOK' /\ DownOK' /\ SeedOK'
  BY Stepped DEF SchemaInv, RecordOK, BrokenOK, UpOK, DownOK, SeedOK
<1>7. TokensOK'
  <2>1. tokens' \in TokenRows /\ (tokens' = "loose" => tokens = "loose")
    BY <1>1, <1>3, Stepped, TokensAfterIs DEF SchemaInv, TokensOK
  <2>2. QED BY <1>4, <2>1 DEF SchemaInv, TokensOK
<1>8. PresentOK'
  <2>1. 10 \in Migrations /\ Role \in Makes(10)
    BY MakesWhat, MigrationsAre DEF Migrated
  <2>2. ~Takes(Rows(t), Role) BY <2>1, RowsApart
  <2>3. QED BY <1>4, <2>2, RowsApart, Stepped DEF SchemaInv, PresentOK
<1>9. SettledWhole'
  <2>1. SUFFICES ASSUME NEW n \in Migrations, Settled(n)' PROVE Whole(n)'
    BY DEF SettledWhole
  <2>2. Whole(n) BY <2>1, SettledBefore DEF SchemaInv, SettledWhole
  <2>3. QED BY <1>4, <2>2, RowsApart, Stepped DEF Whole
<1>10. QED BY <1>5, <1>6, <1>7, <1>8, <1>9 DEF SchemaInv

-----------------------------------------------------------------------------
(* The theorems. *)

\* No step breaks the invariant.
LEMMA SchemaInductive == SchemaInv /\ [Next]_vars => SchemaInv'
<1> SUFFICES ASSUME SchemaInv, [Next]_vars PROVE SchemaInv'
  OBVIOUS
<1>1. CASE Execute
  BY <1>1, Stepped, ExecuteUp, ExecuteDown, ExecuteSeed, ExecuteUnseed
<1>2. CASE StatementFails
  BY <1>2, BrokenOffHolds DEF StatementFails, Running
<1>3. CASE Interrupted
  BY <1>3, BrokenOffHolds DEF Interrupted
<1>4. CASE Migrate \/ Undo \/ RunSeeders
  BY <1>4, StartsHold
<1>5. CASE Record
  BY <1>5, RecordHolds
<1>6. CASE PreviousRelease \/ CurrentRelease
  BY <1>6, TokensHold
<1>7. CASE UNCHANGED vars
  BY <1>7 DEF vars, SchemaInv, CliOK, RecordOK, BrokenOK, TokensOK, PresentOK, UpOK, SeedOK, DownOK,
              SettledWhole, Settled, Whole, Made
<1>8. QED BY <1>1, <1>2, <1>3, <1>4, <1>5, <1>6, <1>7 DEF Next

\* The invariant holds of every state, however often and wherever sequelize-cli
\* is broken off.
THEOREM SchemaStaysWhole == Spec => []SchemaInv
BY InitHolds, SchemaInductive, PTL DEF Spec

\* The tables there may be, and the migrations that make them.
LEMMA TablesMade ==
  ASSUME NEW n \in Migrations, NEW x \in Makes(n), x[1] = "table"
  PROVE  /\ x[2] \in Five \cup {"audit_logs", "refresh_tokens"}
         /\ x = Table(x[2])
         /\ n = TableMaker(x[2])
<1>1. Maker(x) = n /\ Object(x) BY OneMaker
<1>2. n = TableMaker(x[2]) BY <1>1 DEF Maker
<1>3. x = Table(x[2]) BY <1>1 DEF Object, Table, Role, Usage
<1>4. n \in {1, 2, 5, 6, 8, 11, 12} => x[2] \in Five \cup {"audit_logs", "refresh_tokens"}
  <2> USE DEF Table, Index, Rls, Grant, Policy, Five
  <2>1. CASE n \in {1, 5} BY <2>1, MakesWhat
  <2>2. CASE n = 2 BY <2>2, MakesWhat
  <2>3. CASE n = 6 BY <2>3, MakesWhat
  <2>4. CASE n = 8 BY <2>4, MakesWhat
  <2>5. CASE n = 11 BY <2>5, MakesWhat
  <2>6. CASE n = 12 BY <2>6, MakesWhat
  <2>7. QED BY <2>1, <2>2, <2>3, <2>4, <2>5, <2>6
<1>5. n \in {1, 2, 5, 6, 8, 11, 12} BY <1>2 DEF TableMaker
<1>6. QED BY <1>2, <1>3, <1>4, <1>5

\* An object is there only with its table, no token lacks a family once the
\* column says NOT NULL, and the record holds the first so many migrations,
\* however often and wherever sequelize-cli is broken off.
THEOREM SchemaTyped == Spec => []TypeOK
<1>1. ASSUME SchemaInv PROVE TypeOK
  <2>1. cli \in Cli
    <3>1. /\ cli \in [doing : {"nothing", "up", "down", "seed", "unseed"},
                     migration : Migrations \cup {0}, step : Nat \ {0}]
          /\ cli.doing = "nothing" => cli.step = 1
      BY <1>1 DEF SchemaInv, CliOK, Quiet
    <3>2. cli.step \in Nat /\ cli.step >= 1 BY <3>1
    <3>3. cli.doing = "up" => cli.step <= 18
      <4>1. SUFFICES ASSUME cli.doing = "up" PROVE cli.step <= 18
        OBVIOUS
      <4>2. PICK m \in Migrations : cli.step <= Len(Up(m)) + 1
        BY <1>1, <4>1 DEF SchemaInv, CliOK
      <4>3. PICK l \in 1..17 : Len(Up(m)) = l BY UpsAreTuples
      <4>4. cli.step <= l + 1 BY <4>2, <4>3
      <4>5. QED BY <3>2, <4>4
    <3>4. cli.doing = "down" => cli.step <= 12
      <4>1. SUFFICES ASSUME cli.doing = "down" PROVE cli.step <= 12
        OBVIOUS
      <4>2. PICK m \in Migrations : cli.step <= Len(Down(m)) + 1
        BY <1>1, <4>1 DEF SchemaInv, CliOK, RecordOK
      <4>3. PICK l \in 1..11 : Len(Down(m)) = l BY DownsAreTuples
      <4>4. cli.step <= l + 1 BY <4>2, <4>3
      <4>5. QED BY <3>2, <4>4
    <3>5. cli.doing \in {"seed", "unseed"} => cli.step <= 5
      <4>1. /\ cli.doing = "seed" => cli.step <= Len(Seed) + 1
            /\ cli.doing = "unseed" => cli.step <= Len(Unseed) + 1
        BY <1>1 DEF SchemaInv, CliOK
      <4>2. QED BY <3>2, <4>1, Seeds
    <3>6. cli.step \in 1..20 BY <3>1, <3>2, <3>3, <3>4, <3>5
    <3>7. QED BY <3>1, <3>6 DEF Cli
  <2>2. QED BY <1>1, <2>1 DEF SchemaInv, RecordOK, BrokenOK, TokensOK, PresentOK, TypeOK
<1>2. QED BY <1>1, SchemaStaysWhole, PTL

\* Undoing is the exact opposite of migrating: a database no migration was left
\* broken off on holds what the recorded migrations make, and nothing else but
\* the demo rows and the role.
THEOREM SchemaMatches == Spec => []SchemaMatchesRecord
<1>1. ASSUME SchemaInv PROVE SchemaMatchesRecord
  <2> DEFINE schema == {x \in present : x[1] # "rows"}
  <2>1. SUFFICES ASSUME cli = Quiet, broken = {}
                 PROVE  schema \ {Role} = (UNION {Makes(m) : m \in recorded}) \ {Role}
    BY DEF SchemaMatchesRecord
  <2>2. \A n \in Migrations : Whole(n)
    <3>1. cli.step = 1 BY <2>1 DEF Quiet
    <3>2. QED BY <1>1, <2>1, <3>1 DEF SchemaInv, SettledWhole, Settled
  <2>3. ASSUME NEW x \in schema, x # Role
        PROVE  \E m \in recorded : x \in Makes(m)
    <3>1. x # Rows(x[2]) BY <2>3, Parts
    <3>2. PICK n \in Migrations : x \in Makes(n)
      BY <1>1, <3>1 DEF SchemaInv, PresentOK
    <3>3. n \in recorded BY <2>2, <2>3, <3>2 DEF Whole
    <3>4. QED BY <3>2, <3>3
  <2>4. ASSUME NEW m \in recorded, NEW x \in Makes(m)
        PROVE  x \in schema
    <3>1. m \in Migrations BY <1>1 DEF SchemaInv, RecordOK
    <3>2. x \in present BY <2>2, <3>1 DEF Whole
    <3>3. x[1] # "rows" BY <3>1, OneMaker, Parts DEF Object
    <3>4. QED BY <3>2, <3>3
  <2>5. QED BY <2>3, <2>4
<1>2. QED BY <1>1, SchemaStaysWhole, PTL

\* With every migration recorded, the role the app connects as reaches each of
\* the tables: none is added without its policy and its grant.
THEOREM AppReaches == Spec => []AppReachesItsTables
<1>1. ASSUME SchemaInv PROVE AppReachesItsTables
  <2>1. SUFFICES ASSUME recorded = Migrations, broken = {}, cli.doing # "down"
                 PROVE  /\ {Role, Usage} \subseteq present
                        /\ \A x \in present :
                             x[1] = "table" =>
                               {Rls(x[2]), Policy(x[2]), Grant(x[2])} \subseteq present
    BY DEF AppReachesItsTables
  <2>2. \A n \in Migrations : Makes(n) \subseteq present
    <3>1. cli.doing \in {"nothing", "seed", "unseed"}
      BY <1>1, <2>1 DEF SchemaInv, CliOK
    <3>2. cli.migration = 0 BY <1>1, <3>1 DEF SchemaInv, CliOK, Quiet
    <3>3. \A n \in Migrations : Settled(n)
      BY <2>1, <3>2, MigrationsAre DEF Settled, Migrated
    <3>4. QED BY <1>1, <2>1, <3>3 DEF SchemaInv, SettledWhole, Whole
  <2>3. Makes(9) \cup Makes(10) \cup Makes(11) \cup Makes(12) \subseteq present
    BY <2>2, MigrationsAre DEF Migrated
  <2>4. {Role, Usage} \subseteq present
    BY <2>3, MakesWhat
  <2>5. ASSUME NEW x \in present, x[1] = "table"
        PROVE  {Rls(x[2]), Policy(x[2]), Grant(x[2])} \subseteq present
    <3>1. x # Rows(x[2]) BY <2>5, Parts
    <3>2. PICK n \in Migrations : x \in Makes(n)
      BY <1>1, <3>1 DEF SchemaInv, PresentOK
    <3>3. x[2] \in Five \cup {"audit_logs", "refresh_tokens"}
      BY <2>5, <3>2, TablesMade
    <3>4. CASE x[2] \in Five BY <2>3, <3>4, MakesWhat
    <3>5. CASE x[2] = "audit_logs" BY <2>3, <3>5, MakesWhat
    <3>6. CASE x[2] = "refresh_tokens" BY <2>3, <3>6, MakesWhat
    <3>7. QED BY <3>3, <3>4, <3>5, <3>6
  <2>6. QED BY <2>4, <2>5
<1>2. QED BY <1>1, SchemaStaysWhole, PTL

-----------------------------------------------------------------------------
(* Why a statement may fail. *)

\* What earlier migrations left is there, unless one was broken off that cannot
\* be repeated.
LEMMA EarlierStands ==
  ASSUME SchemaInv, broken \subseteq Repeatable, cli.doing \in {"up", "down"},
         NEW y, Earlier(y, cli.migration)
  PROVE  y \in present
<1>0. PICK m \in Migrations : m = cli.migration
  BY DEF SchemaInv, CliOK, RecordOK
<1> DEFINE n == Maker(y)
<1>1. n < m /\ y \in Makes(n) /\ (y = Role \/ y[1] = "table")
  BY <1>0 DEF Earlier
<1>2. n \in Migrations
  <2>1. CASE y = Role BY <2>1, MigrationsAre DEF Maker, Role, Migrated
  <2>2. CASE y[1] = "table"
    BY <2>2, MigrationsAre DEF Maker, TableMaker, Migrated
  <2>3. QED BY <1>1, <2>1, <2>2
<1>3. n \in recorded
  BY <1>0, <1>1, <1>2 DEF SchemaInv, CliOK, RecordOK
<1>4. CASE y = Role
  <2>1. n = 10 BY <1>4 DEF Maker, Role
  <2>2. QED BY <1>3, <1>4, <2>1 DEF SchemaInv, PresentOK
<1>5. CASE y[1] = "table"
  <2>1. n \notin {9, 10} BY <1>5 DEF Maker, TableMaker
  <2>2. <<"up", n>> \notin broken /\ <<"down", n>> \notin broken
    BY <1>2, <1>3, <2>1 DEF SchemaInv, BrokenOK, Repeatable
  <2>3. n # m
    <3>1. Migrations \subseteq Nat BY MigrationsAre DEF Migrated
    <3>2. QED BY <1>1, <1>2, <3>1
  <2>4. Settled(n) BY <1>0, <2>2, <2>3 DEF Settled
  <2>5. QED BY <1>1, <1>2, <1>3, <2>4 DEF SchemaInv, SettledWhole, Whole
<1>6. QED BY <1>1, <1>4, <1>5

\* A migration has what it needs, and nothing is in its way, its own beginning
\* included.
LEMMA UpGoesThrough ==
  ASSUME SchemaInv, broken \subseteq Repeatable, cli.doing = "up", Running, Refused(Current)
  PROVE  Current.verb = "require"
<1>0. PICK m \in Migrations, k \in Nat : m = cli.migration /\ k = cli.step
  BY DEF SchemaInv, CliOK
<1> DEFINE st == Up(m)[k]
<1>1. Script = Up(m) /\ Current = st /\ k \in 1..Len(Up(m))
  BY <1>0, Scripts, UpsAreTuples DEF Running, Current, SchemaInv, CliOK
<1>2. UpStatement(m, st) /\ st.object \in Makes(m)
  BY <1>1, UpStatements, UpsAreTuples DEF Makes
<1>3. st.needs \subseteq present
  <2>1. SUFFICES ASSUME NEW y \in st.needs PROVE y \in present
    OBVIOUS
  <2>2. CASE Earlier(y, m) BY <1>0, <2>2, EarlierStands
  <2>3. CASE y = Up(m)[1].object /\ k > 1
    <3>1. 1 \in 1..(cli.step - 1) BY <1>0, <2>3
    <3>2. Made(Up(m)[1]) BY <1>0, <3>1, FirstStatement DEF SchemaInv, UpOK
    <3>3. QED BY <2>3, <3>2, FirstStatement DEF Made
  <2>4. CASE k = 1 BY <2>1, <2>2, <2>4, FirstStatement
  <2>5. QED BY <1>1, <1>2, <2>1, <2>2, <2>3, <2>4 DEF UpStatement
<1>4. ASSUME st.verb = "add", st.object \in present PROVE FALSE
  <2>1. CASE m = 10
    <3>1. k \in 1..17 BY <1>1, <2>1, AppRoleStatements
    <3>2. /\ k > 1
          /\ Unmakes(Up(10)[k - 1])
          /\ Up(10)[k - 1].object = st.object
      BY <1>4, <2>1, <3>1, AppRoleOrder
    <3>3. k - 1 \in 1..(cli.step - 1) BY <1>0, <3>1, <3>2
    <3>4. Made(Up(10)[k - 1]) BY <1>0, <2>1, <3>3 DEF SchemaInv, UpOK
    <3>5. QED BY <1>4, <3>2, <3>4 DEF Made
  <2>2. CASE m # 10
    <3>1. <<"up", m>> \notin broken
      BY <1>2, <1>4, <2>2 DEF UpStatement, Repeatable
    <3>2. st.object # Role
      <4>1. Maker(Role) = 10 BY DEF Maker, Role
      <4>2. QED BY <1>2, <2>2, <4>1, OneMaker
    <3>3. PICK j \in 1..(k - 1) : Up(m)[j].object = st.object
      BY <1>0, <1>2, <1>4, <3>1, <3>2 DEF SchemaInv, UpOK
    <3>4. QED BY <1>1, <1>4, <2>2, <3>3, AddedOnce
  <2>3. QED BY <2>1, <2>2
<1>5. QED BY <1>1, <1>2, <1>3, <1>4 DEF Refused, UpStatement

\* A migration undone has what it needs, and no table refers to the one it drops.
LEMMA DownGoesThrough ==
  ASSUME SchemaInv, broken \subseteq Repeatable, cli.doing = "down", Running
  PROVE  ~Refused(Current)
<1>0. PICK m \in Migrations, k \in Nat : m = cli.migration /\ k = cli.step
  BY DEF SchemaInv, CliOK, RecordOK
<1> DEFINE st == Down(m)[k]
<1>1. /\ Script = Down(m) /\ Current = st /\ k \in 1..Len(Down(m))
      /\ m \in recorded /\ \A n \in recorded : n <= m
  BY <1>0, Scripts, DownsAreTuples DEF Running, Current, SchemaInv, CliOK
<1>2. DownStatement(m, st)
  BY <1>1, DownStatements
<1>3. st.needs \subseteq present
  <2>1. SUFFICES ASSUME NEW y \in st.needs PROVE y \in present
    OBVIOUS
  <2>2. CASE Earlier(y, m) BY <1>0, <2>2, EarlierStands
  <2>3. CASE y = Role /\ m = 10 BY <1>1, <2>3 DEF SchemaInv, PresentOK
  <2>4. QED BY <1>2, <2>1, <2>2, <2>3 DEF DownStatement
<1>4. st.verb = "remove" => st.object \in present
  <2>1. SUFFICES ASSUME st.verb = "remove" PROVE st.object \in present
    OBVIOUS
  <2>2. m \in 13..16 /\ st.object \in Makes(m)
    BY <1>2, <2>1 DEF DownStatement
  <2>3. k = 1
    <3>1. Len(Down(m)) = 1 BY <2>2, Downs
    <3>2. QED BY <1>1, <3>1
  <2>4. <<"up", m>> \notin broken /\ <<"down", m>> \notin broken
    BY <1>1, <2>2 DEF SchemaInv, BrokenOK, Repeatable
  <2>5. Settled(m) BY <1>0, <2>3, <2>4 DEF Settled
  <2>6. QED BY <1>1, <2>2, <2>5 DEF SchemaInv, SettledWhole, Whole
<1>5. ASSUME st.verb = "drop", NEW x \in present, x[1] = "table", st.object[2] \in Parents(x[2])
      PROVE  FALSE
  <2>1. PICK t : st.object = Table(t) /\ TableMaker(t) = m
    BY <1>2, <1>5 DEF DownStatement
  <2>2. t \in Parents(x[2]) BY <1>5, <2>1, Parts
  <2>3. x # Rows(x[2]) BY <1>5, Parts
  <2>4. PICK n \in Migrations : x \in Makes(n)
    BY <2>3 DEF SchemaInv, PresentOK
  <2>5. x[2] \in Five \cup {"audit_logs", "refresh_tokens"} /\ n = TableMaker(x[2])
    BY <1>5, <2>4, TablesMade
  <2>6. n \in {2, 6, 8, 12} /\ m < n
    BY <2>1, <2>2, <2>5, ParentsAre DEF Five, TableMaker
  <2>7. n \notin recorded
    <3>1. Migrations \subseteq Nat BY MigrationsAre DEF Migrated
    <3>2. QED BY <1>1, <2>6, <3>1
  <2>8. <<"up", n>> \notin broken /\ <<"down", n>> \notin broken
    BY <2>4, <2>6, <2>7 DEF SchemaInv, BrokenOK, Repeatable
  <2>9. n # m BY <1>1, <2>7
  <2>10. Settled(n) BY <1>0, <2>8, <2>9 DEF Settled
  <2>11. x = Role BY <2>4, <2>7, <2>10 DEF SchemaInv, SettledWhole, Whole
  <2>12. QED BY <1>5, <2>11, Parts
<1>6. st.verb \notin {"add", "require"}
  BY <1>2 DEF DownStatement, Unmakes
<1>7. QED BY <1>1, <1>3, <1>4, <1>5, <1>6 DEF Refused

\* A seeder runs into rows, or for want of tables, that were so before it ran.
LEMMA SeedersGoThrough ==
  ASSUME SchemaInv, cli.doing \in {"seed", "unseed"}, Running, Refused(Current)
  PROVE  \/ Current.object \in present
         \/ \E t \in {"users", "articles", "tags", "article_tags"} : Table(t) \notin present
<1> SUFFICES ASSUME \A t \in {"users", "articles", "tags", "article_tags"} : Table(t) \in present
             PROVE  Current.object \in present
  OBVIOUS
<1>0. PICK k \in Nat \ {0} : k = cli.step
  BY DEF SchemaInv, CliOK
<1>1. CASE cli.doing = "unseed"
  <2>1. Script = Unseed BY <1>1, Scripts
  <2>2. k \in 1..3 /\ Current = Unseed[k] BY <1>0, <2>1, Seeds DEF Running, Current
  <2>3. PICK t \in {"users", "articles", "tags"} : Current = BulkDelete(t)
    BY <2>2, Seeds
  <2>4. Current.verb = "discard" /\ Current.needs = {Table(t)}
    BY <2>3 DEF BulkDelete, Statement
  <2>5. QED BY <2>4 DEF Refused
<1>2. CASE cli.doing = "seed"
  <2>1. Script = Seed BY <1>2, Scripts
  <2>2. k \in 1..4 /\ Current = Seed[k] BY <1>0, <2>1, Seeds DEF Running, Current
  <2>3. PICK t \in {"users", "articles", "tags", "article_tags"} :
          /\ Current = BulkInsert(t)
          /\ \A p \in Parents(t) : Rows(p) \in present
    <3>1. \A j \in 1..(k - 1) : Seed[j].object \in present
      BY <1>0, <1>2 DEF SchemaInv, SeedOK
    <3>2. /\ Seed[1].object = Rows("users") /\ Seed[2].object = Rows("articles")
          /\ Seed[3].object = Rows("tags")
      BY Seeds DEF BulkInsert, Statement
    <3>3. CASE k = 1 BY <2>2, <3>3, Seeds, ParentsAre
    <3>4. CASE k = 2
      <4>1. 1 \in 1..(k - 1) BY <3>4
      <4>2. QED BY <2>2, <3>1, <3>2, <3>4, <4>1, Seeds, ParentsAre
    <3>5. CASE k = 3 BY <2>2, <3>5, Seeds, ParentsAre
    <3>6. CASE k = 4
      <4>1. 2 \in 1..(k - 1) /\ 3 \in 1..(k - 1) BY <3>6
      <4>2. QED BY <2>2, <3>1, <3>2, <3>6, <4>1, Seeds, ParentsAre
    <3>7. QED BY <2>2, <3>3, <3>4, <3>5, <3>6
  <2>4. /\ Current.verb = "add"
        /\ Current.needs = {Table(t)} \cup {Rows(p) : p \in Parents(t)}
    BY <2>3 DEF BulkInsert, Statement
  <2>5. QED BY <2>3, <2>4 DEF Refused
<1>3. QED BY <1>1, <1>2

\* A migration fails for want of the password, because the previous release has
\* signed somebody in between the backfill and the NOT NULL, or because one was
\* broken off that cannot be repeated; never because of what an earlier one, or
\* its own beginning, left behind.
THEOREM FailuresHaveReasons == Spec => FailsForAReason
<1>1. ASSUME SchemaInv, StatementFails,
             Current.verb \notin {"password", "require"}, broken \ Repeatable = {}
      PROVE  /\ cli.doing \in {"seed", "unseed"}
             /\ \/ Current.object \in present
                \/ \E t \in {"users", "articles", "tags", "article_tags"} : Table(t) \notin present
  <2>1. Running /\ Refused(Current) BY <1>1 DEF StatementFails
  <2>2. broken \subseteq Repeatable BY <1>1
  <2>3. cli.doing \in {"up", "down", "seed", "unseed"}
    BY <1>1, <2>1 DEF SchemaInv, CliOK, Running
  <2>4. QED BY <1>1, <2>1, <2>2, <2>3, UpGoesThrough, DownGoesThrough, SeedersGoThrough
<1>2. SchemaInv =>
        [StatementFails =>
           \/ Current.verb \in {"password", "require"}
           \/ broken \ Repeatable # {}
           \/ /\ cli.doing \in {"seed", "unseed"}
              /\ \/ Current.object \in present
                 \/ \E t \in {"users", "articles", "tags", "article_tags"} :
                      Table(t) \notin present]_vars
  BY <1>1
<1>3. QED BY <1>2, SchemaStaysWhole, PTL DEF FailsForAReason
=============================================================================
