------------------------------ MODULE Articles ------------------------------
(***************************************************************************)
(* ArticlesService: create, update, publish, unpublish and remove, each a  *)
(* sequence of single statements outside a transaction, and the            *)
(* article.published events that go to the realtime gateway.  syncTags     *)
(* is in TagSync: it touches nothing here, and a failure of it is one of   *)
(* the ways in which HandlerDies ends a handler that is to reread.         *)
(*                                                                         *)
(* Accounts come, change their role and go as Accounts says, at any time.  *)
(* Titles and bodies are left out.                                         *)
(***************************************************************************)
EXTENDS AuditLog, Naturals, FiniteSets

CONSTANTS ArticleIds,  \* articles.id
          UserIds,     \* users.id
          SeedUsers,   \* the accounts there are at the start
          SeedAdmins,  \* those of them that are administrators
          Slugs,       \* articles.slug
          Slots,       \* bound: how many requests are in flight at a time
          None,        \* SQL NULL, and a field that is not in the request
          SeedSlug,    \* the seeded drafts: [seeded ids -> Slugs]
          SeedAuthor   \* and their authors: [seeded ids -> SeedUsers]

Seeded == DOMAIN SeedSlug

ASSUME ArticleConstants ==
  /\ None \notin ArticleIds \cup UserIds \cup Slugs \cup BOOLEAN
  /\ SeedAdmins \subseteq SeedUsers /\ SeedUsers \subseteq UserIds
  /\ Seeded \subseteq ArticleIds
  /\ SeedSlug \in [Seeded -> Slugs]
  /\ SeedAuthor \in [Seeded -> SeedUsers]
  /\ \A a, b \in Seeded : SeedSlug[a] = SeedSlug[b] => a = b

VARIABLES articles,   \* the articles table
          standing,   \* of the accounts, what Accounts says of them
          reqs,       \* the handler running in each slot
          notice,     \* history: of each article, its last announcement
          withdrawn   \* history: the slots about to announce an article that
                      \* has been unpublished since they looked

tableVars == <<articles, standing>>
historyVars == <<notice, withdrawn>>
vars == <<tableVars, auditVars, reqs, historyVars>>

Accounts == INSTANCE Accounts WITH Seeded <- SeedUsers

-----------------------------------------------------------------------------
(* The rows. *)

ArticleRow == [state : {"unused", "stored", "deleted"}, slug : Slugs \cup {None},
               published : BOOLEAN, authorId : UserIds \cup {None}]

NoArticle(state) == [state |-> state, slug |-> None, published |-> FALSE, authorId |-> None]

Exists(a) == articles[a].state = "stored"

\* Mutant: the articles.slug column without its unique index.
SlugFreeUnchecked(slug) == TRUE

\* assertSlugAvailable, and the unique index on articles.slug.
SlugFree(slug) == \A a \in ArticleIds : Exists(a) => articles[a].slug # slug

\* DELETE FROM articles.
DeleteArticles(gone) ==
  /\ articles' = [a \in ArticleIds |->
                    IF a \in gone /\ Exists(a) THEN NoArticle("deleted") ELSE articles[a]]
  /\ notice' = [a \in ArticleIds |-> IF a \in gone THEN "none" ELSE notice[a]]
  /\ UNCHANGED withdrawn

-----------------------------------------------------------------------------
(* Requests. *)

PC == {"idle", "admitted", "create_insert", "update_slug", "update_save", "reread",
       "publish_save", "announce", "remove_destroy"}

\* role is the one that the guard has read.  slug and published are the columns
\* to be written: what the request gives, if it differs from the row as it was
\* read; wasPublished is from that row.  At "announce" the handler's last
\* statement is answered, and article.published is still to be emitted.
Request == [pc : PC, actor : UserIds \cup {None}, role : Accounts!Roles \cup {None},
            article : ArticleIds \cup {None}, slug : Slugs \cup {None},
            published : BOOLEAN \cup {None}, wasPublished : BOOLEAN]

Idle == [pc |-> "idle", actor |-> None, role |-> None, article |-> None, slug |-> None,
         published |-> None, wasPublished |-> FALSE]

Start(s, request) ==
  /\ reqs[s].pc = "admitted"
  /\ reqs' = [reqs EXCEPT ![s] = request]

Continue(s, pc) == reqs' = [reqs EXCEPT ![s].pc = pc]

Respond(s) == reqs' = [reqs EXCEPT ![s] = Idle]

Init ==
  /\ articles = [a \in ArticleIds |->
                   IF a \in Seeded
                   THEN [state |-> "stored", slug |-> SeedSlug[a], published |-> FALSE,
                         authorId |-> SeedAuthor[a]]
                   ELSE NoArticle("unused")]
  /\ Accounts!Init
  /\ reqs = [s \in Slots |-> Idle]
  /\ notice = [a \in ArticleIds |-> "none"]
  /\ withdrawn = {}
  /\ AuditInit

-----------------------------------------------------------------------------
(* Announcements.  notice[a] is "owed" once a draft has become public, "sent"  *)
(* when article.published has been emitted since, "lost" when a handler that   *)
(* owed it ended in an error, and "none" for a draft and after a deletion.     *)

\* The handler of s will look again whether its article is to be announced ...
WillLook(s, a) ==
  /\ reqs[s].pc = "reread"
  /\ reqs[s].article = a
  /\ ~ reqs[s].wasPublished

\* ... or will announce it, whatever becomes of it meanwhile.
WillAnnounce(s, a) == reqs[s].pc = "announce" /\ reqs[s].article = a

Owes(s, a) == WillLook(s, a) \/ WillAnnounce(s, a)

NoticeOfWrite(a, published) ==
  CASE ~ published -> "none"
    [] published /\ ~ articles[a].published -> "owed"
    [] OTHER -> notice[a]

\* INSERT INTO articles, or UPDATE of a row that is there.
StoreArticle(a, row) ==
  /\ articles' = [articles EXCEPT ![a] = row]
  /\ notice' = [notice EXCEPT ![a] = NoticeOfWrite(a, row.published)]
  /\ withdrawn' = IF row.published THEN withdrawn
                  ELSE withdrawn \cup {q \in Slots : WillAnnounce(q, a)}

\* The gateway's emit to the sockets, which does not look at the article.  Of
\* one that is a draft by now, or gone, notice keeps no track.
handleArticlePublished(a) ==
  notice' = [notice EXCEPT ![a] = IF articles[a].published THEN "sent" ELSE @]

\* events.emit calls the gateway before it returns.
emitPublished(a) == handleArticlePublished(a)

\* The handler of s ends in an error: what nobody else owes is lost.
LoseNotice(s) ==
  /\ notice' = [a \in ArticleIds |->
                  IF /\ notice[a] = "owed" /\ Owes(s, a)
                     /\ \A q \in Slots \ {s} : ~ Owes(q, a)
                  THEN "lost" ELSE notice[a]]
  /\ withdrawn' = withdrawn \ {s}

-----------------------------------------------------------------------------
(* The guards, and answers without a write. *)

\* JwtStrategy reads the account again and RolesGuard lets both roles in.  Which
\* handler the call is for shows with its first statement.
Admit(s, u) ==
  /\ reqs[s] = Idle
  /\ standing[u] \in Accounts!Roles
  /\ reqs' = [reqs EXCEPT ![s] = [Idle EXCEPT !.pc = "admitted", !.actor = u,
                                              !.role = standing[u]]]
  /\ UNCHANGED <<tableVars, auditVars, historyVars>>

\* findAll or findById, and refusals: an article that is unknown (404) or of
\* somebody else (403), a taken slug (409), published as it is already.
Answered(s) ==
  /\ reqs[s].pc = "admitted"
  /\ Respond(s)
  /\ UNCHANGED <<tableVars, auditVars, historyVars>>

-----------------------------------------------------------------------------
(* POST /articles *)

\* Bound: a create starts only while ArticleIds has a fresh id left for it.
ArticleBudget ==
  Cardinality({a \in ArticleIds : articles[a].state = "unused"})
    > Cardinality({s \in Slots : reqs[s].pc = "create_insert"})

CreateRead(s, slug, published) ==
  /\ ArticleBudget
  /\ SlugFree(slug)
  /\ Start(s, [Idle EXCEPT !.pc = "create_insert", !.actor = reqs[s].actor, !.slug = slug,
                           !.published = published])
  /\ UNCHANGED <<tableVars, auditVars, historyVars>>

CreateInsert(s) ==
  LET r == reqs[s]
  IN  /\ r.pc = "create_insert"
      /\ SlugFree(r.slug)
      /\ Accounts!InTable(r.actor)
      /\ \E a \in ArticleIds :
           /\ articles[a].state = "unused"
           /\ StoreArticle(a, [state |-> "stored", slug |-> r.slug,
                               published |-> r.published, authorId |-> r.actor])
           /\ reqs' = [reqs EXCEPT ![s] = [Idle EXCEPT !.pc = "reread", !.article = a]]
      /\ UNCHANGED <<standing, auditVars>>

\* The slug was taken meanwhile, or the author is gone: 500.
CreateInsertFails(s) ==
  /\ reqs[s].pc = "create_insert"
  /\ ~ SlugFree(reqs[s].slug) \/ ~ Accounts!InTable(reqs[s].actor)
  /\ Respond(s)
  /\ UNCHANGED <<tableVars, auditVars, historyVars>>

-----------------------------------------------------------------------------
(* PATCH /articles/:id *)

\* Mutant: the ownership check left out.
MayMutateAnything(s, a) == Exists(a)

\* findById finds the article and assertOwnerOrAdmin lets the caller pass.
MayMutate(s, a) ==
  Exists(a) /\ (reqs[s].role = "admin" \/ articles[a].authorId = reqs[s].actor)

\* assertOwnerOrAdmin is the last to look at the user: a request keeps of it
\* what has let it pass.
Passed(s) == IF reqs[s].role = "admin" THEN [Idle EXCEPT !.role = "admin"]
             ELSE [Idle EXCEPT !.actor = reqs[s].actor]

Changed(new, old) == IF new = old THEN None ELSE new

UpdateRead(s, a, slug, published) ==
  /\ MayMutate(s, a)
  /\ LET row == articles[a]
         newSlug == Changed(slug, row.slug)
     IN  Start(s, [Passed(s) EXCEPT
                     !.pc = IF newSlug = None THEN "update_save" ELSE "update_slug",
                     !.article = a, !.slug = newSlug,
                     !.published = Changed(published, row.published),
                     !.wasPublished = row.published])
  /\ UNCHANGED <<tableVars, auditVars, historyVars>>

UpdateSlug(s) ==
  /\ reqs[s].pc = "update_slug"
  /\ IF SlugFree(reqs[s].slug) THEN Continue(s, "update_save") ELSE Respond(s)
  /\ UNCHANGED <<tableVars, auditVars, historyVars>>

\* Mutant: the columns that the request leaves out are written too.
UpdateSaveAllColumns(s) ==
  LET r == reqs[s]
      a == r.article
  IN  /\ r.pc = "update_save"
      /\ Exists(a)
      /\ articles' = [articles EXCEPT ![a].slug = r.slug, ![a].published = r.published]
      /\ reqs' = [reqs EXCEPT ![s].pc = "reread"]
      /\ UNCHANGED <<standing, auditVars, historyVars>>

\* UPDATE of the changed columns; matching no row is not an error.
UpdateSave(s) ==
  LET r == reqs[s]
      a == r.article
  IN  /\ r.pc = "update_save"
      /\ IF Exists(a)
         THEN /\ r.slug # None => SlugFree(r.slug)
              /\ StoreArticle(a, [articles[a] EXCEPT
                   !.slug = IF r.slug = None THEN @ ELSE r.slug,
                   !.published = IF r.published = None THEN @ ELSE r.published])
         ELSE UNCHANGED <<articles, historyVars>>
      /\ reqs' = [reqs EXCEPT ![s] = [Idle EXCEPT !.pc = "reread", !.article = a,
                                                  !.wasPublished = r.wasPublished]]
      /\ UNCHANGED <<standing, auditVars>>

\* The new slug was taken since assertSlugAvailable: 500.
UpdateSaveFails(s) ==
  LET r == reqs[s]
  IN  /\ r.pc = "update_save"
      /\ r.slug # None
      /\ Exists(r.article) /\ ~ SlugFree(r.slug)
      /\ Respond(s)
      /\ UNCHANGED <<tableVars, auditVars, historyVars>>

\* What is left to do of a handler that is to announce its article.
ToAnnounce(a) == [Idle EXCEPT !.pc = "announce", !.article = a]

\* Mutant: update and create announce without looking at updated.published.
RereadWithoutLooking(s) ==
  LET r == reqs[s]
  IN  /\ r.pc = "reread"
      /\ reqs' = [reqs EXCEPT ![s] = IF Exists(r.article) /\ ~ r.wasPublished
                                     THEN ToAnnounce(r.article) ELSE Idle]
      /\ UNCHANGED <<tableVars, auditVars, historyVars>>

\* findById once more: the article is announced if this finds it published
\* and, in update, it was not when first read.
Reread(s) ==
  LET r == reqs[s]
  IN  /\ r.pc = "reread"
      /\ reqs' = [reqs EXCEPT ![s] = IF /\ Exists(r.article) /\ ~ r.wasPublished
                                        /\ articles[r.article].published
                                     THEN ToAnnounce(r.article) ELSE Idle]
      /\ UNCHANGED <<tableVars, auditVars, historyVars>>

\* The answer to the last statement has arrived: the event is emitted.  By now
\* the article may have been unpublished or deleted.
Announce(s) ==
  /\ reqs[s].pc = "announce"
  /\ emitPublished(reqs[s].article)
  /\ Respond(s)
  /\ withdrawn' = withdrawn \ {s}
  /\ UNCHANGED <<tableVars, auditVars>>

-----------------------------------------------------------------------------
(* PATCH /articles/:id/publish and /unpublish *)

\* Setting the value the row already has saves nothing and announces nothing.
PublishRead(s, a, published) ==
  /\ MayMutate(s, a)
  /\ articles[a].published # published
  /\ Start(s, [Passed(s) EXCEPT !.pc = "publish_save", !.article = a,
                                !.published = published,
                                !.wasPublished = articles[a].published])
  /\ UNCHANGED <<tableVars, auditVars, historyVars>>

\* Mutant: setPublished without its announcement.
PublishSaveSilently(s) ==
  LET r == reqs[s]
      a == r.article
  IN  /\ r.pc = "publish_save"
      /\ IF Exists(a)
         THEN StoreArticle(a, [articles[a] EXCEPT !.published = r.published])
         ELSE UNCHANGED <<articles, historyVars>>
      /\ Respond(s)
      /\ UNCHANGED <<standing, auditVars>>

\* An article that is gone by now will be announced all the same.
PublishSave(s) ==
  LET r == reqs[s]
      a == r.article
  IN  /\ r.pc = "publish_save"
      /\ IF Exists(a)
         THEN StoreArticle(a, [articles[a] EXCEPT !.published = r.published])
         ELSE UNCHANGED <<articles, historyVars>>
      /\ reqs' = [reqs EXCEPT ![s] = IF r.published THEN ToAnnounce(a) ELSE Idle]
      /\ UNCHANGED <<standing, auditVars>>

-----------------------------------------------------------------------------
(* DELETE /articles/:id *)

\* Mutant: article_deleted is logged before the row is destroyed.
RemoveReadLogging(s, a) ==
  /\ MayMutate(s, a)
  /\ Start(s, [Passed(s) EXCEPT !.pc = "remove_destroy", !.article = a])
  /\ Log("article_deleted", a)
  /\ UNCHANGED <<tableVars, historyVars>>

RemoveRead(s, a) ==
  /\ MayMutate(s, a)
  /\ Start(s, [Passed(s) EXCEPT !.pc = "remove_destroy", !.article = a])
  /\ UNCHANGED <<tableVars, auditVars, historyVars>>

RemoveDestroy(s) ==
  /\ reqs[s].pc = "remove_destroy"
  /\ DeleteArticles({reqs[s].article})
  /\ Log("article_deleted", reqs[s].article)
  /\ Respond(s)
  /\ UNCHANGED standing

-----------------------------------------------------------------------------
(* The rest of the process. *)

\* UsersService or the cleanup job deletes an account, and its articles go.
AccountGone(u) ==
  /\ Accounts!Delete(u)
  /\ DeleteArticles({a \in ArticleIds : articles[a].authorId = u})
  /\ UNCHANGED <<auditVars, reqs>>

\* UsersService approves an account or changes its role.
AccountChanges(u) ==
  /\ \E role \in Accounts!Roles : Accounts!Grant(u, role)
  /\ UNCHANGED <<articles, auditVars, reqs, historyVars>>

\* A statement is refused, or the process ends, be it between the last
\* statement and the announcement: no more of this handler.
HandlerDies(s) ==
  /\ reqs[s] # Idle
  /\ Respond(s)
  /\ LoseNotice(s)
  /\ UNCHANGED <<tableVars, auditVars>>

Calls == \E s \in Slots, u \in UserIds : Admit(s, u)

Handlers ==
  \E s \in Slots :
    \/ Answered(s)
    \/ \E slug \in Slugs, published \in BOOLEAN : CreateRead(s, slug, published)
    \/ \E a \in ArticleIds :
         \/ \E slug \in Slugs \cup {None}, published \in BOOLEAN \cup {None} :
              UpdateRead(s, a, slug, published)
         \/ \E published \in BOOLEAN : PublishRead(s, a, published)
         \/ RemoveRead(s, a)
    \/ CreateInsert(s)
    \/ CreateInsertFails(s)
    \/ UpdateSlug(s)
    \/ UpdateSave(s)
    \/ UpdateSaveFails(s)
    \/ Reread(s)
    \/ PublishSave(s)
    \/ Announce(s)
    \/ RemoveDestroy(s)

Audit == \E entry \in auditPending :
           /\ AuditInsert(entry) \/ AuditFail(entry)
           /\ UNCHANGED <<tableVars, reqs, historyVars>>

Environment ==
  \/ \E u \in UserIds : AccountGone(u) \/ AccountChanges(u)
  \/ \E s \in Slots : HandlerDies(s)

Next == Calls \/ Handlers \/ Audit \/ Environment

Spec == Init /\ [][Next]_vars

-----------------------------------------------------------------------------
\* Every variable holds what its column or local variable may hold, and an
\* article has an author (migration 000002:15-21).
TypeOK ==
  /\ articles \in [ArticleIds -> ArticleRow]
  /\ \A a \in ArticleIds : Exists(a) => Accounts!InTable(articles[a].authorId)
  /\ standing \in [UserIds -> Accounts!Standing]
  /\ reqs \in [Slots -> Request]
  /\ notice \in [ArticleIds -> {"none", "owed", "sent", "lost"}]
  /\ withdrawn \subseteq {s \in Slots : reqs[s].pc = "announce"}
  /\ auditPending \subseteq {"article_deleted"} \X ArticleIds
  /\ auditLog \subseteq {"article_deleted"} \X ArticleIds

\* Two articles never share a slug, although create and update look and write
\* in two statements (articles.service.ts:52-54, 66-69).
SlugUnique ==
  \A a, b \in ArticleIds :
    Exists(a) /\ Exists(b) /\ articles[a].slug = articles[b].slug => a = b

\* An article that became public is announced, unless every handler that owed
\* it the announcement ended in an error on the way, be it after its last
\* statement: whoever writes the change has read a draft, and is still to look
\* again or to emit (articles.service.ts:64-72, 79-83).
PublicationAnnounced ==
  \A a \in ArticleIds : articles[a].published /\ notice[a] # "sent" =>
    \/ notice[a] = "lost"
    \/ \E s \in Slots : Owes(s, a)

\* A handler about to announce an article knows it to be public, by its last
\* statement and nothing older.  Three things may have come in between, and then
\* the code announces what is not public: the article was unpublished since that
\* statement; it is gone; or setPublished found it gone, in which case it may
\* never have been public (articles.service.ts:56-57, 71-72, 81-83).
AnnouncedWasPublic ==
  \A s \in Slots, a \in ArticleIds : WillAnnounce(s, a) /\ Exists(a) =>
    articles[a].published \/ s \in withdrawn

\* An entry says of an article that it was deleted only when it is, although two
\* removals of it, or one and its author's deletion, may race.
ArticleDeletedTruthful ==
  \A a \in ArticleIds : <<"article_deleted", a>> \in auditLog => articles[a].state = "deleted"

\* An article changes only by the hand of its author, or of one who was an
\* administrator when the guard looked, whatever roles and accounts change
\* meanwhile; and goes with its author otherwise (common/authorization.ts:5-7).
OnlyOwnerOrAdmin ==
  [][\A a \in ArticleIds :
       Exists(a) /\ articles'[a] # articles[a] =>
         \/ standing'[articles[a].authorId] = "gone"
         \/ \E s \in Slots : /\ reqs'[s] # reqs[s]
                             /\ reqs[s].article = a
                             /\ \/ reqs[s].role = "admin"
                                \/ reqs[s].actor = articles[a].authorId]_vars

=============================================================================
