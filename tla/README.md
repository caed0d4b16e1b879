# A verification development of portfolio_backend

The repository is a NestJS content-management backend over Postgres (Sequelize
as its ORM): accounts that an administrator approves, articles with tags,
images stored in the database under a quota, and live announcements over a
websocket. One Node process serves it. This directory holds TLA+ models of it,
the TLC configurations that check them and the proofs, checked by TLAPS, of
what holds for any number of accounts, tokens and requests. Paths below are
relative to the repository, which `PROJECT.json` prefixes with `src/`.

There are no tests in the repository. The reference for every definition is
the code, with its comments and its README as the statement of what the code
is meant to do.

## 1. The system

| Component | State | Operations that change state | Modelled in |
|---|---|---|---|
| `AuthService` (`src/auth`) | `refresh_tokens`: owner, family, expiry, `revokedAt` | login, refresh with rotation and reuse detection, logout | `Auth`, `Tables` |
| `UsersService` (`src/users`) | `users`: email, role, status, `createdAt`, `lastLoginAt` | signup, approve, updateRole, remove | `Users`, `Tables` |
| `UserCleanupService` | the rows its query returned, while its loop runs | the nightly job | `Users` |
| pending-account policy | none | pure arithmetic on dates | `PendingAccountPolicy`, `PendingAccountClock` |
| `AuditLogService` (`src/audit`) | `audit_logs`, INSERTs nobody awaits | `log`, and the view that logs itself | `AuditLog` |
| guards (`JwtStrategy`, `RolesGuard`) | none in the server; clients hold access tokens | admit or refuse | `Requests`, `Articles` |
| `ArticlesService` (`src/articles`) | `articles` | create, update, setPublished, remove | `Articles` |
| public controllers | none; they read in several statements | | `PublicSite` |
| `TagsService` (`src/tags`), `syncTags` | `tags`, `article_tags` | findOrCreateMany, `$set` of an article's tags | `TagSync` |
| realtime gateway | connected sockets | forwards `article.published` | `Articles` |
| `MediaService` (`src/media`) | `media` rows with their bytes and sizes | upload, quota eviction, removal | `MediaStore` |
| `assertOwnerOrAdmin` | none | admit or refuse | `Articles`, `MediaStore` |
| migrations, seeders | the schema, and `SequelizeMeta` | `db:migrate`, `db:seed` and their undoing | `Schema`, and the constraints each module needs |
| DTOs, rate limiting, configuration, health | none of their own | | left out, section 7 |

**How they interact.** Controllers call services; services issue statements
through Sequelize and hand audit entries to `AuditLogService.log`, which starts
an INSERT and returns. `AuthService` calls `UsersService` for look-ups and for
the row of a signup. `JwtStrategy.validate` reads the account of a bearer token
again for every request. Deleting a user cascades in the database to its
refresh tokens, to its articles and through these to their images.
`ArticlesService` emits `article.published` in memory and the gateway sends it
on. The cleanup job runs in the same process as the handlers.

**What is hard.** Node runs one piece of JavaScript at a time, but every
`await` gives way, and no handler opens a transaction: a request is a sequence
of single statements with everything else in between. So

- a row is read, decided about, and written by a later statement: status by
  login and by the cleanup job, `revokedAt` by refresh and logout, the address
  by signup, the slug by articles, quotas by uploads;
- `save()` writes the columns that changed, and an UPDATE or DELETE that
  matches no row is silent, so work on a row that has gone goes unnoticed;
- a foreign key or a unique index may refuse a statement the handler thought
  was fine;
- audit entries land late, out of order, or never;
- a failed statement, or a restart, ends a handler or the job halfway;
- deadlines are computed twice: for the owner of the account, and for the job;
- migrations run from somebody's machine on the database of the running app,
  outside a transaction, and may stop halfway.

`PROJECT.json` lists the hazards at their lines with the properties that cover
them.

**What makes each component correct.**

- *Accounts*: one per address; approval is never undone; a pending account has
  neither a login nor a token, so that its deletion cascades onto nothing; an
  account goes by an administrator's hand or when its term is over, and an
  overdue one does go.
- *Refresh tokens*: a redeemed token is dead; a family is one line of descent
  (unless a race forks it); a session that has ended does not come back; no
  token outlives its account.
- *Audit log*: it does not run ahead of the accounts -- who is reported deleted is
  gone, who is reported approved waits no more -- and no account vanishes
  silently.
- *Policy*: what the owner is told and what the job does agree.
- *Articles*: one per slug; a publication is announced, and what is announced
  was public when its handler last looked or wrote; an article changes by the
  hand of its author or an administrator only.
- *Tags*: links neither dangle nor outlive their article; after an update an
  article has the tags it was given.
- *Media*: the total is within the cap, an account within its share, an image
  to an article; nothing is evicted without need.
- *Public site*: nothing is shown that was not public when it was read; related
  articles come by the number of shared tags.
- *Schema*: it is what the recorded migrations make; a migration is undone
  without a trace; the app's role reaches every table.

## 2. Modules

| Module | What it is |
|---|---|
| `PendingAccountPolicy` | the operators of `pending-account-policy.ts` |
| `PendingAccountClock` | one signup, its rejected logins and the daily job at the resolution of the clock |
| `Tables` | `users` and `refresh_tokens`: rows, constraints, cascades, statements |
| `AuditLog` | `log()`, and the INSERT that lands or is lost |
| `Requests` | requests in flight, and the guards of the admin-only controllers |
| `Auth` | the handlers of `AuthService`, statement by statement |
| `Users` | the handlers of `UsersService`, and the cleanup job |
| `Identity` | all of these in one process, with faults and time; the properties |
| `TokenLineage` | what rotation promises, without requests: the abstract specification |
| `MCIdentity` | the instance for TLC |
| `Accounts` | what the content half may rely on about accounts: the abstract specification of the identity half |
| `Articles` | `ArticlesService` and its announcements, statement by statement |
| `TagSync` | `syncTags`: `findOrCreateMany`, and the statements of Sequelize's `$set` |
| `MediaStore` | `MediaService`: upload, share, eviction, removal |
| `PublicSite` | the public controllers, statement by statement, beside editors who write |
| `MCArticles`, `MCTagSync`, `MCMediaStore`, `MCPublicSite` | their instances for TLC |
| `Schema` | migrations, seeders and `SequelizeMeta`, statement by statement, beside the running app |
| `IdentityProofs`, `SessionProofs` | theorems about `Identity`: types and accounts; sessions, refinements and the audit log |
| `PendingAccountProofs`, `ArticleProofs`, `TagProofs`, `MediaProofs`, `SiteProofs`, `SchemaProofs` | theorems about the clock, `Articles`, `TagSync`, `MediaStore`, `PublicSite` and `Schema` |

The modules of the content half stand beside each other: an article's row, its
tags and its images are written by different statements, and no handler
decides about one of them by what it has read of another, but that the article
exists. What the others do to an article is an action of the environment in
each: `AccountGone` (the cascade of a deleted account) and `ArticleGone`. One
module with articles and tags together was tried and is beyond TLC with two
requests.

The two halves meet in `Accounts`. To the content half an account is a role that
the guards read and a row that `authorId` refers to; `Accounts` says that it is
approved, changes its role and goes in single steps, and never comes back.
`Articles` INSTANCEs it and takes its steps beside the handlers; `Identity`,
with its requests, its job and their stale rows, implements it
(`ImplementsAccounts`, checked and proved), so what holds of `Articles` holds
beside all that `Identity` does.

`PublicSite` has one reader, because readers change nothing and so cannot
disturb each other, and editors who write whole columns at any time: a reader
cannot tell by which handler a row was changed.

`Identity` EXTENDS `Auth` and `Users`, which share `Requests`, `Tables` and
`AuditLog`; it INSTANCEs `TokenLineage` and `Accounts` under refinement mappings.

**State.** `users` and `tokens` map every identifier there will ever be to its
row; an identifier is `unused` (or `unissued`), then a row, then `deleted`. A
token stands for both its row and the raw secret a client presents, because
each raw token has one row. `revokedAt` is the difference of `live` and
`revoked`. `parent` is a history field: the token that was redeemed for this
one. `day` is the clock. `reqs[s]` is the handler in slot `s`: `pc` names the
statement it issues next, the other fields are what it has read or was given,
so a stale local variable of the code is a stale field of the model. `access`
is the set of accounts of which some client holds an access token. `job` is
the loop of `deleteStalePendingAccounts`: the rows still to visit, and the one
that is logged and not yet destroyed. `auditPending` and `auditLog` are the
INSERTs in flight and the table.

In the content half, `stored` and `accounts` are the ids in the parent tables,
`standing` the roles of the accounts, and `articles`, `media`, `links` the
rows. `older` has the pairs of images of which the first has the earlier
`media.createdAt`, which, like the id, is drawn in the process before the
INSERT is sent; two images of one millisecond are ordered by their drawing. Ids
of images that nothing holds any more are used again, so uploads are not
counted. History variables, which no action reads, remember what a property
needs: `notice` what became of an article's announcement (`owed` from the
publication, `sent`, `lost` when the handler that owed it ended in an error),
`withdrawn` in `Articles` the handlers about to announce an article that has
been unpublished since their last statement,
`burst` what overlapping `$set`s of one article ask for, `disturbed` the
evictions during which another statement freed bytes, `abandoned` whether a
handler died before its eviction was over and no other has summed up since,
`quiet` and, in `PublicSite`, `withdrawn` what was written while a public
handler was reading.

In `Schema`, `present` is the set of objects in the database: tables, columns,
indexes, NOT NULLs, row-level security, policies, grants, the role, and blocks
of demo rows. A migration is a sequence of statements, each a verb and an
object: `ensure` and `discard` stand for IF [NOT] EXISTS and for statements
that may be repeated, `add` and `remove` for those that may not. `recorded` is
`SequelizeMeta`, `cli` the run of sequelize-cli and the statement it is at,
`tokens` whether some refresh token lacks a family. `broken` is history: the
migrations whose last run has ended after its first statement and before it was
recorded.

**Actions.** An action is what the code does from one database statement up to
the next `await`, so `LoginSave` is the UPDATE of `lastLoginAt`
together with the `log('login_success')` after it. `Start`, `Continue` and
`Respond` move a request. The read that opens a handler is its first action;
for the handlers of an administrator the guards' read comes before it
(`ApproveAdmit` and the like), because an account may lose its role or its row
between the guard and the handler. Answers that change nothing -- a 401 of an
unknown token, a 409 of a taken address -- are stuttering steps. `map` in
`PROJECT.json` gives the lines of every definition.

**Abstractions.**

- Times are whole days in `Identity`; the milliseconds matter for the policy
  only, and `PendingAccountClock` has them, with the length of a day a
  constant.
- Access tokens never expire in the model (by default they do after 15 minutes): a client
  can do more than the code lets it, never less.
- The actor of an administrator's request is not kept: no handler uses it but
  to fill in the audit entry. An entry keeps its action and its subject.
- `deletionReferenceDate` is `createdAt` for every account that is ever asked
  about, since `lastLoginAt` of a pending account is NULL
  (`PendingAccountIsEmpty`, proved).
- `faults` counts the faults a behaviour has had, which bounds them and lets
  properties say "without faults".
- In `Articles` the guards' look at the account (`Admit`) is a step of its own,
  and what the call asks for is chosen with the handler's first statement, which
  nothing before depends on. In `MediaStore` roles do not change, and the
  guards' look is one step with the handler's first read; an account may be
  deleted at any time after. All callers are editors or administrators, as
  `@Roles(ADMIN, EDITOR)` says.
- A slug stands for its article in `PublicSite`, and of its images it is only
  kept whether their article has been public with them. Ties of the ranking and
  the order of rows are any; what `findRelated` fetches is put back in the order
  of the ranking.
- `Schema` keeps of the schema what a later statement or the app can trip over.
  ENUM types, column types and the rows of the app but refresh tokens are left
  out, and so are unique constraints, which the other modules have. A statement
  is a transaction of its own: Sequelize opens none unless asked to.
- In `Articles` the emit is a step of its own (`Announce`), since other requests
  go on, and the process may end, while the answer to the last statement is on
  its way.
- Titles, bodies and the contents of images are left out; an upload has the
  size it has after resizing. `syncTags` is a step of `TagSync` and, in
  `Articles`, either nothing or the end of the handler.
- `$set` is modelled as Sequelize runs it: one look at the links,
  then a DELETE of the obsolete and one INSERT of all the missing, sent at once
  and answered in either order; the INSERT is refused as a whole.
- The seeded articles that are already public are left out: they are not
  published by the service. A publication that finds its article gone is
  announced all the same (`articles.service.ts:81-83`). `notice` keeps of an
  article that is public what became of its announcement, so not this, nor the
  announcement of a draft; nor does it count: there may be two of one
  publication.
- A tag stands for its name; nothing deletes tags, so whether
  `findOrCreate` found or created one cannot be told.
- Operators whose comment starts with `Mutant:` are not part of the model.
  Each is a plausible mistake in the definition that follows it, by which the
  property that would catch it is validated.

## 3. Runs

| Run | Instance | What it shows |
|---|---|---|
| `accounts` (`IdentityAccounts.cfg`) | an administrator, two more accounts, two addresses, two tokens, two requests at once, the job | `TypeOK`, `PendingAccountIsEmpty`, `TokenOwnerActive`, `EmailUnique`, `ApprovalSurvives`, `DeletedOnlyWhenDue`, `ImplementsAccounts` |
| `tokens` (`IdentityTokens.cfg`) | one account, four tokens, two requests, one fault, tokens that expire | `RotatedTokenNotLive`, `OneLiveUnlessForked`, `SessionStaysClosed`, `ImplementsLineage` |
| `background` (`IdentityBackground.cfg`) | an administrator and a signup, two requests, the job and the log of deletions, two faults | `AuditNotAhead`, `DeletionLeavesTrace`, `OverdueAccountsGo` |
| `countdown` (`PendingAccountClock.cfg`) | a day of five ticks, a term of three days, every time of day | `CountdownNotEarly`, `CountdownNotLate`, `QueryAgreesWithPolicy` |
| `articles` (`Articles.cfg`) | an author and an administrator, either of whom may be promoted, demoted or deleted, a seeded draft and one article to be created, two slugs, two requests | `TypeOK`, `SlugUnique`, `PublicationAnnounced`, `AnnouncedWasPublic`, `ArticleDeletedTruthful`, `OnlyOwnerOrAdmin` |
| `tag_sync` (`TagSync.cfg`) | one article, two tags, one of them in two spellings, a blank, three updates | `TypeOK`, `LinksIntact`, `TagsSettle` |
| `media` (`MediaStore.cfg`) | an author of two articles and an administrator, four images of two sizes, a cap of 3 and a share of 2, two requests | `TypeOK`, `CapKept`, `ImagesBounded`, `ShareBounded`, `EvictsOnlyOverCap` |
| `public_reads` (`PublicSite.cfg`) | one reader of three articles with two tags, limits 1 and 2, editors at any time | `TypeOK`, `ImageWasShown`, `RelatedSound`, `QuietReadsExact` |
| `schema` (`Schema.cfg`) | all migrations and seeders, up and down, two of them broken off at a time | `TypeOK`, `SchemaMatchesRecord`, `AppReachesItsTables`, `FailsForAReason` |
| `no_pending_admin` | as `accounts`, smaller | violated: a comment says a pending account cannot become an administrator |
| `active_cleaned_up` | as `accounts`, smaller | violated: a comment says the job never touches an active account |
| `reuse_kills_family` | as `tokens`, smaller | violated: a comment says reuse ends every session of the family |

The three violations are disagreements between the text and the code:

1. **A pending administrator.** `updateRole` looks at no status. An account
   promoted before it is approved is excluded by the job's `role !== ADMIN`
   and stays for ever; `user-cleanup.service.ts:21-23` calls that condition
   unreachable.
2. **An approved account deleted by the job.** The loop destroys by id what its
   query returned. An account approved after the query and before its turn is
   deleted, with what it owns by then. `DeletedOnlyWhenDue` shows what does
   hold: it was at least overdue.
3. **A session that outlives reuse detection.** The family's UPDATE revokes the
   rows there are; a refresh past its `save()` inserts its new token later.
   `SessionStaysClosed` shows that nothing else revives a family.

Three more are properties that hold with the exception built in:

4. **One token redeemed twice.** `refresh` tests `revokedAt` on the row it read
   and writes it with an unconditional `save()`. Two requests that both read
   first both get a new pair, and the family forks, where `README.md:86-87`
   says a rotated token is rejected. `OneLiveUnlessForked` shows that this is
   the only way to two live tokens in a family.
5. **Two images of one article.** `upload` destroys the old image and inserts
   the new one in two statements, and nothing in the schema keeps
   `media.articleId` unique. Two uploads that both destroy first both insert,
   where `README.md:28` says that one image is stored an article.
   `ImagesBounded` bounds the extent: no more images than requests can be in
   flight.
6. **An eviction under the cap.** `enforceQuota` takes one sum and counts it
   down by what it evicts itself. What another statement frees meanwhile -- a
   removal, a deleted article, a second `enforceQuota` -- it does not see, and it
   goes on evicting from a table that is within the cap, where
   `media.service.ts:143` says "until total storage is back under the cap".
   `EvictsOnlyOverCap` shows that nothing else makes it do so.

What does hold of articles, tags and images under every interleaving is worth
a word. `PublicationAnnounced`: the reason no publication goes unannounced is
that whoever writes `published` has read a draft, and after its write looks
again or emits; what breaks it is an error in between, the tags' for instance,
or the end of the process between the save and the emit (hazard
`articles.service.ts:83`). `AnnouncedWasPublic` is the converse, and weaker:
what is announced was public at the handler's own last statement, but it may
have been unpublished or deleted by the time of the emit, and a publication
whose row is gone already is announced as well. `AuditNotAhead` speaks of deletions
only. An `approve()` overtaken by the deletion of its account logs
`user_approved` of an account that may never have been approved; what is left,
that an account reported as approved is active or gone, is proved
(`ApprovedWaitNoMore`) and not model-checked. When two
updates of one article's tags race, the outcome is a mixture, and one of them
may fail on the primary key; `TagsSettle` bounds the mixture. `CapKept` is not
obvious because every `enforceQuota` counts down a total of its own: what an
eviction subtracts is destroyed, by itself or by another, and what was inserted
after its sum has an eviction of its own to come. Two evictions at once may
evict more than is needed: `EvictsOnlyOverCap` excuses what another statement
has disturbed.
`ShareBounded` has the overshoot that the code allows: one upload for each
further request that runs at the same time. `OnlyOwnerOrAdmin` speaks of the
role that the guard has read: a demotion comes too late for a request that is
past it.

Of the public site, `RelatedSound` is what survives any interference, and
`QuietReadsExact` what the answer is without: since `findRelated` cuts its
ranking before it drops drafts, a public article may be missing although fewer
than `limit` are shown, but only if `limit` others share as many tags.
`ImageWasShown` holds of the answer; what caches keep of it for an hour is
outside.

`FailsForAReason` is the operator's view of the migrations. Those that create
one table, `000009` and `000010` may be broken off anywhere and run again. Any
other that stops after its first statement fails from then on, and has to be
mended by hand or by undoing what it builds on; `000013` fails without anybody's
fault when the release that is still running signs somebody in between the
backfill and SET NOT NULL. `SchemaMatchesRecord` says that undoing is exact: but
for the role, nothing of an undone migration is left.

**Bounds.** `UserIds`, `TokenIds`, `Slots`, `MaxDay`, `MaxFaults`, `Audited`
and, in the clock, `MaxNow`. `UserBudget` and `TokenBudget` let a
request that will insert a row begin only while an identifier is left for it;
they are guards of the model only. Why the instances are enough: a race needs
two requests, and the job and the audit log are further processes; two signups
of one address need two accounts and one address, and the seeded administrator
another; a fork needs four tokens (the login's, two children of it, one more
rotation or login); an expiry or a deadline needs one day before and one
after; a fault at each point and one more during the recovery need two faults; two
removals of one account at once need two requests.
`RefreshDays` and `PENDING_ACCOUNT_TTL_DAYS` are 0 where expiry or the deadline
is to happen within `MaxDay` 1. `Audited` leaves entries out that the run's
properties do not speak of; nothing reads the table, so no other component
notices. In the clock, a term of three days and a day of five ticks leave every
rounding case of the code: on the tick, just before, just after; `MaxNow`
leaves the last run of the job after the last countdown. In the content half,
`ArticleIds`, `Slugs`, `Images`, `Sizes` and `Slots`, with `ArticleBudget` as
the guard of a create: a race for a slug needs two articles and two requests, a
mixture of tags two overlapping updates, and a third to come while they
overlap; two images of each of two articles and both sizes make every total
from none to twice the cap, and evictions of one image and of two. Three articles are one that is asked for and two
to be ranked, of which a draft can push the other out at limit 1; two tags make
scores of 0, 1 and 2. `MaxBroken` bounds how many migrations are broken off when
a run is interrupted; with two, one that cannot be repeated meets another below
or above it. The clock run has
`CHECK_DEADLOCK FALSE`, since at `MaxNow` the row is gone and time stands
still; the runs of `Identity` never deadlock and check it, and so does `tag_sync`. In
`articles` and `media` every account may be deleted, and then nobody is left to
call: they have `CHECK_DEADLOCK FALSE` too.

**Symmetry.** Unsigned accounts, free addresses, tokens, images, articles that
no seeder names and slots are interchangeable, and the larger runs use that.
Their properties are invariants, step properties and a refinement without
fairness. The run with a liveness property uses none.

## 4. Fairness

`FairSpec` assumes weak fairness of `CleanupFind` and of `CleanupStep`: the
cron trigger (`EVERY_DAY_AT_3AM`) fires again and again, and a statement of the
job is answered. `app.module.ts:26-29` says the job runs while the process is up, and
`health.controller.ts:3-4` that a ping every ten minutes keeps it up.
A statement that fails is a fault, and a behaviour has finitely many of them;
a behaviour in which every night's run fails is excluded, and with it the
account would indeed stay. Nothing is assumed of clients, of handlers or of
audit INSERTs. `OverdueAccountsGo` needs no more: an overdue signup is gone, or
approved, or promoted, some run of the job later.

## 5. Theorems

`IdentityProofs` proves the inductive invariant `IInv` of `Identity`, and what
follows from it. `TypeOK` and the safety invariants are not inductive, because
a request in flight may hold anything the types allow; `IInv` adds what a
handler may rely on although it read the row some statements ago:

- `RequestOK`: what a handler is about to use is there (`LocalsOK`); a request
  that is going to insert a token holds an owner that is active, or deleted by
  now, and never one pending (`OwnerOK`); past its `save()`, the token it
  presented is no longer live, and owner and family are those of that token
  unless it has gone with its account (`PresentedOK`);
- `RowOK`: a token in the table has an owner that is active and a family, and
  its parent, if it has one, is revoked or gone;
- `AccountOK`: an account that has logged in, or of which someone has an access
  token, is active or deleted;
- `EmailUnique`.

The reason it holds is the lifecycle of an account: `pending`, `active`,
`deleted`, never back. What a handler read about an account may be stale, but
only in that direction, and for the one stale case that could do harm -- the
account is gone -- the foreign key refuses the insert. Handlers are treated one
statement at a time: `AuthStartStep`, `LoginSaveStep`, `TokenInsertStep`, ...,
joined by `NextIInv`.

| Theorem | Statement |
|---|---|
| `Invariance`, `TypeCorrect` | `IInv`, and with it `TypeOK`, always |
| `PendingEmpty` | a pending account has no login, access token or refresh token |
| `OwnersActive` | every refresh token has an existing, approved owner |
| `EmailsUnique` | one account an address |
| `RotationKills` | a redeemed token is not live |
| `ClosedForGood` | a family with no live token and no refresh under way stays so |
| `ApprovalKept` | approval is never undone |
| `LiveTokensOfAFork` | a family has two live tokens only if one token of it was redeemed twice |
| `NotBeforeDue` | the job deletes nothing before its full term (with `JobOK`: what the job holds was due when it was read, and time goes on) |
| `Refinement` | `Identity` implements `TokenLineage` |
| `AccountsRefinement` | `Identity` implements `Accounts` |
| `EntriesNotAhead` | who is reported deleted is gone, but for the job's early entry |
| `ApprovedWaitNoMore` | who is reported approved is active, or gone with or without an approval |
| `TraceLeft` | without faults, no account is deleted without an entry, if both kinds of entries are kept |
| `ClockTyped` | `TypeOK` of the clock |
| `QueryMatchesPolicy` | the job's query and `isPastDeletionCutoff` differ at the cutoff itself only |
| `CountdownHonest` | an account told n days is not deleted before more than n - 1 days have passed |
| `CountdownKept` | it is gone at the latest one run of the job after the n days |
| `ArticlesTyped`, `SlugsUnique` | `TypeOK` of `Articles`; one article a slug |
| `PublicationsAnnounced` | what became public is announced, owed by a handler that runs, or lost to an error, also one between save and emit |
| `AnnouncementsTimely` | who is about to announce what is not public has been overtaken, since its last statement, by one that unpublished or deleted it |
| `DeletionsTruthful` | `article_deleted` is logged of deleted articles only |
| `OwnersOnly` | an article changes by its author's hand or an administrator's, or goes with its author |
| `TagsTyped`, `LinksKept` | `TypeOK` of `TagSync`; no link dangles |
| `TagsSettled` | updates of one article that overlapped leave what all asked for, and nothing that nobody asked for |
| `MediaTyped` | `TypeOK` of `MediaStore`; no running total falls below zero |
| `CapHolds` | the images fit under the cap when no eviction is under way or was broken off |
| `ImagesHold` | an article has no more images than requests can be in flight |
| `ShareHolds` | an account passes its share by no more than its other uploads in flight |
| `EvictionNeeded` | an eviction nothing disturbed takes an image only over the cap |
| `SiteTyped`, `ImagesShown` | `TypeOK` of `PublicSite`; what was never public is not shown, or was withdrawn between two reads |
| `RelatedAreSound` | related articles are public when read, each once, within the limit, and not the article itself |
| `QuietReadsAreExact` | lists are exact, and rankings the best, if nobody writes meanwhile |
| `SchemaTyped` | `TypeOK` of `Schema`: no object without its table, no token without a family under NOT NULL, no gap in the record |
| `SchemaMatches` | what is there is what the recorded migrations make, once nothing is left broken off |
| `AppReaches` | row-level security, policy and grant for every table |
| `FailuresHaveReasons` | a migration fails for one of three reasons, a seeder on rows or for want of tables |

**The arguments of the other modules.** Each has an invariant of its own, and
each rests on something that cannot be undone.

- For the audit log, `SessionProofs` adds `LoggedInv` to `IInv`. An entry says nothing too
  early because the handler that writes it has found the account (`HeldOK`):
  once found, an account may be deleted but is never unknown again, a DELETE
  that matches no row leaves it just as deleted, and an UPDATE that matches none
  (of `approve`) was overtaken by a deletion. `TraceInv` is the other
  direction: what the job has in hand is logged already, so its DELETE needs no
  entry after it. Both need `EntriesOK` and `Traced` of entries that are still
  on their way (`Logged`), since INSERTs land in any order.
- `ArticleProofs` has `AInv`: what a handler is about to use is there, and a
  handler about to write was let pass (`PassedOK`) for a reason that nothing
  takes back, because an article keeps its author and the role is the one the
  guard read; an article has a `notice` just while it is
  public (`RowOK`), and `PublicationAnnounced` is inductive because a handler that
  `Owes` an announcement goes from looking to emitting, or ends and leaves it
  `sent`, `lost` or to another that owes it; an entry
  `article_deleted`, landed or not, is of an article that has gone (`EntryOK`).
  `OwnersOnly` is a property of steps and follows from `PassedOK`.
- `TagProofs` has `TInv`: the tags an update is about to link are in the table,
  since nothing deletes a tag; that the article is there, the foreign key checks
  with the INSERT. `TagsSettled` needs `SettleInv`, an account of debts: of the
  tags that every overlapping update asks for, one that is not linked is still to
  be inserted by one of them (`Owed`), and one that is linked and that nobody
  asks for is still to be deleted by one. A statement settles its part, the look
  of `$set` takes on what it finds, and the last to leave owes nothing.
- `SessionProofs` proves `LiveTokensOfAFork` from `FamilyOK` (a family is one
  account's and holds the parents of its tokens) and `LineInv`: a family that has
  not forked has one token without a child. A live token has none, since a parent
  is revoked or gone (`RowOK`). When an account goes, its families go as a whole, so no parent
  disappears from under a token.
- `MediaProofs` begins with what the sum over a set of rows is (`BytesUnfold`,
  `BytesUnion`, ...): the value exists and is unique for every finite set, since
  strict inclusion of finite sets is well-founded. Then four invariants.
  `TypeInv`: no two rows, stored or in flight, share an id, so a victim is one
  row. `CapInv`: while the table is over the cap, some handler `Covers` it -- it
  is still to take its sum, or what it counts down, without its victim, bounds
  what there is; what an eviction subtracts has gone, whoever took it.
  `Room`: the images of an article and the uploads that have emptied it have
  different slots. `ShareInv`: the rows of an account with those it is about to
  insert (`Pending`) stay below the share and the largest images of the other
  slots, because an upload that passes the check sees all but what is in flight.
  `Undisturbed`: what an eviction counts down is no more than there is.
- `SiteProofs` has `ShownInv` (a handler about to read an image knows that its
  article is public, or is `withdrawn`, and what is public has been seen),
  `HeldInv` (a ranking is within the limit and without the article) and
  `QuietInv` (until somebody writes, what was read is still so). That a cut of
  any ranking is the best (`CutRanks`) is a count: the first p - 1 of a ranking
  are the only ones that may outrank the p-th (`FewOutrank`), and all of them
  rank at least as high (`ManyRankAlike`).
- `PendingAccountProofs` has `ToldOK` for the lower bound (who was told n
  days is due no sooner than n - 1 days from then); for the upper, `Watched` (the job's last run, at
  most a day ago, did not find the account due) and `ToldEnough` (the days are
  rounded up).
- `SchemaProofs` has `SchemaInv`, whose heart is `SettledWhole`: a migration that
  nobody is at, and that was not broken off since it last went through
  (`Settled`), is there altogether if it is recorded and otherwise not at all,
  but for the role (`Whole`). It is inductive because migrations do not meddle
  with each other. Every object is of exactly one migration (`OneMaker`); a
  statement on the way up makes or drops objects of its own migration only
  (`UpStatement`), and one on the way down takes nothing of an earlier migration
  (`DownStatement`), while `CliOK` says that nothing later is recorded then.
  `UpOK`, `DownOK` and `SeedOK` say what of the script that is running has been
  done: `AllMade` and `AllTaken` turn that into `Whole` when it is recorded.
  `UpOK` also says that, unless broken off before, a migration finds nothing of
  its own but what it has just made; this is why an `addIndex` or `addColumn`
  does not run into itself, and why `Repeatable` excludes the migrations that
  have one. `FailuresHaveReasons` goes through the reasons for which the
  database refuses: what a statement needs was left by an earlier migration
  (`EarlierStands`) or by its own first statement, what it adds is not there
  yet, and no table refers to one that is dropped, since the tables that would
  are of later migrations (`DownGoesThrough`).

All theorems hold for all values of the constants that satisfy the ASSUMEs:
`IdentityConstants` (`None` is no identifier; the seeders' accounts have
different addresses; natural numbers), `AuditedActions`, `FaultBound`,
`PolicyConstants`, `ClockConstants`, `ArticleConstants` (`None` is nothing
else; the seeded articles have different slugs and seeded authors),
`TagConstants` (`None` is neither an article nor a tag), `MediaConstants` (the
sizes are positive and, since the upload filter has a `fileSize`
limit, `media.controller.ts:49`, finitely many; so are the requests in flight)
`SiteConstants` (articles and tags are finitely many, like the rows of any
table; a limit is at least 1) and `MaxBrokenAssumption` (a natural number). TLC evaluates all of these in the runs. In
particular the theorems hold for any term and any number of days until expiry,
where the runs use 0 and 1. `TraceLeft` alone assumes more: that `Audited`, by
which a run leaves entries out, has `user_deleted` and `user_auto_deleted`.

The only constant of `Schema` is `MaxBroken`; the scripts are the code's own. Where
the run lets two migrations be broken off at a time, the theorems allow any
number.

**Model-checked only.** `OverdueAccountsGo`, since liveness under fairness is out
of the prover's reach. Every other property of a passing run is a theorem.

## 6. What is left, in order

1. `MediaStore` beside `Accounts`, with roles that change during an upload.
2. The expiry of access tokens.

## 7. Not modelled

- Password hashing, signing and hashing of tokens: a random token is a fresh
  identifier; a password is right or wrong by choice.
- DTOs and validators: they are stateless, and only requests that pass them
  reach a handler. `ThrottlerGuard` only refuses calls, which the model need
  not make.
- Configuration, the database connection, the health endpoint, `main.ts`:
  wiring.
- What row-level security lets other roles than the app's do: Supabase's own
  API is not in the repository.
- HTTP caches, which may show an image for an hour after it has gone.
- Two runs of the job at once: the trigger is daily and a run takes seconds.
- A lost answer, after which a client presents its old token again: the
  server's side of it is `RefreshReuse`, and there is nothing more to it.
- Several Node processes over one database. Handlers of different processes
  would interleave just as those of one do, but there would be several jobs.
