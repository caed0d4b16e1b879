--------------------------- MODULE ArticleProofs ----------------------------
(***************************************************************************)
(* What TLAPS proves of Articles, for any numbers of accounts, articles,   *)
(* slugs and requests in flight.                                           *)
(***************************************************************************)
EXTENDS Articles, TLAPS

-----------------------------------------------------------------------------
(* The inductive invariant. *)

Writing == {"update_slug", "update_save", "publish_save", "remove_destroy"}

Owing == {"reread", "announce"}

\* The locals a handler is about to use are there, and what it is to write has
\* come from a row: an identifier, once used, never becomes unused.
LocalsOK(r) ==
  /\ r.pc = "admitted" => r.actor \in UserIds /\ r.role \in Accounts!Roles
  /\ r.pc = "create_insert" =>
       r.actor \in UserIds /\ r.slug \in Slugs /\ r.published \in BOOLEAN
  /\ r.pc \in Writing \cup Owing =>
       r.article \in ArticleIds /\ articles[r.article].state # "unused"
  /\ r.pc = "update_slug" => r.slug \in Slugs
  /\ r.pc \in {"update_slug", "update_save"} /\ r.published = TRUE => ~ r.wasPublished
  /\ r.pc = "publish_save" => r.published \in BOOLEAN

\* A request that will write has been let pass, and by nothing that has changed
\* since: an article keeps its author.
PassedOK(r) ==
  r.pc \in Writing /\ Exists(r.article) =>
    r.role = "admin" \/ r.actor = articles[r.article].authorId

RequestOK(r) == LocalsOK(r) /\ PassedOK(r)

RowOK(a) ==
  /\ Exists(a) => articles[a].authorId \in UserIds
  /\ ~ Exists(a) => articles[a] = NoArticle(articles[a].state)
  /\ articles[a].published <=> notice[a] # "none"

EntryOK(a) ==
  <<"article_deleted", a>> \in auditPending \cup auditLog => articles[a].state = "deleted"

AInv ==
  /\ TypeOK
  /\ \A s \in Slots : RequestOK(reqs[s])
  /\ \A a \in ArticleIds : RowOK(a) /\ EntryOK(a)
  /\ SlugUnique
  /\ AnnouncedWasPublic
  /\ PublicationAnnounced

-----------------------------------------------------------------------------
USE ArticleConstants

\* A slot with no handler in it.
LEMMA IdleOK == Idle \in Request /\ RequestOK(Idle)
BY DEF Idle, Request, PC, RequestOK, LocalsOK, PassedOK, Writing, Owing

\* What is not in the table is not public.
LEMMA UnpublishedOK ==
  ASSUME AInv, NEW a \in ArticleIds, ~ Exists(a)
  PROVE  ~ articles[a].published
<1>1. articles[a] = NoArticle(articles[a].state)
  BY DEF AInv, RowOK
<1>2. \A state : NoArticle(state).published = FALSE
  BY DEF NoArticle
<1>3. QED BY <1>1, <1>2

\* A step that replaces one request and leaves the tables alone.  What the old
\* request still owed, the new one does.
LEMMA ReplaceStep ==
  ASSUME AInv, NEW s \in Slots, NEW r \in Request, RequestOK(r),
         reqs[s].pc # "announce",
         \A a \in ArticleIds :
           WillLook(s, a) /\ articles[a].published => r.pc = "announce" /\ r.article = a,
         r.pc = "announce" /\ Exists(r.article) => articles[r.article].published,
         reqs' = [reqs EXCEPT ![s] = r], UNCHANGED <<tableVars, auditVars, historyVars>>
  PROVE  AInv'
<1>0. /\ reqs \in [Slots -> Request] /\ reqs' \in [Slots -> Request] /\ reqs'[s] = r
      /\ \A q \in Slots : q # s => reqs'[q] = reqs[q]
  BY DEF AInv, TypeOK
<1>1. TypeOK'
  <2>1. withdrawn' \subseteq {q \in Slots : reqs'[q].pc = "announce"}
    BY <1>0 DEF AInv, TypeOK, historyVars
  <2>2. QED BY <1>0, <2>1
          DEF AInv, TypeOK, tableVars, auditVars, historyVars, Exists, Accounts!InTable
<1>2. \A q \in Slots : RequestOK(reqs[q])'
  <2>1. \A q \in Slots : RequestOK(reqs'[q])
    BY <1>0 DEF AInv
  <2>2. QED BY <2>1 DEF RequestOK, LocalsOK, PassedOK, tableVars, Exists
<1>3. \A a \in ArticleIds : RowOK(a)' /\ EntryOK(a)'
  BY DEF AInv, RowOK, EntryOK, tableVars, auditVars, historyVars, Exists
<1>4. SlugUnique'
  BY DEF AInv, SlugUnique, tableVars, Exists
<1>5. AnnouncedWasPublic'
  <2> SUFFICES ASSUME NEW q \in Slots, NEW a \in ArticleIds, WillAnnounce(q, a)', Exists(a)
               PROVE  articles[a].published \/ q \in withdrawn
    BY DEF AnnouncedWasPublic, tableVars, historyVars, Exists
  <2>1. CASE q = s
    BY <1>0, <2>1 DEF WillAnnounce
  <2>2. CASE q # s
    BY <1>0, <2>2 DEF WillAnnounce, AInv, AnnouncedWasPublic
  <2>3. QED BY <2>1, <2>2
<1>6. PublicationAnnounced'
  <2> SUFFICES ASSUME NEW a \in ArticleIds, articles[a].published, notice[a] # "sent",
                      notice[a] # "lost"
               PROVE  \E q \in Slots : Owes(q, a)'
    BY DEF PublicationAnnounced, tableVars, historyVars
  <2>1. PICK q \in Slots : Owes(q, a)
    BY DEF AInv, PublicationAnnounced
  <2>2. CASE q = s
    BY <1>0, <2>1, <2>2 DEF Owes, WillAnnounce
  <2>3. CASE q # s
    BY <1>0, <2>1, <2>3 DEF Owes, WillLook, WillAnnounce
  <2>4. QED BY <2>2, <2>3
<1>7. QED BY <1>1, <1>2, <1>3, <1>4, <1>5, <1>6 DEF AInv

\* Most requests owe nothing, and announce nothing next.
LEMMA RequestStep ==
  ASSUME AInv, NEW s \in Slots, NEW r \in Request, RequestOK(r),
         reqs[s].pc \notin Owing, r.pc # "announce",
         reqs' = [reqs EXCEPT ![s] = r], UNCHANGED <<tableVars, auditVars, historyVars>>
  PROVE  AInv'
<1>1. /\ reqs[s].pc # "announce"
      /\ \A a \in ArticleIds : ~ WillLook(s, a)
  BY DEF Owing, WillLook
<1>2. QED BY <1>1, ReplaceStep

\* An identifier, once used, stays used; and a row that is there was there
\* before, with the same author, if its identifier was used.
Evolves ==
  \A a \in ArticleIds :
    articles[a].state # "unused" =>
      /\ articles'[a].state # "unused"
      /\ Exists(a)' => Exists(a) /\ articles'[a].authorId = articles[a].authorId

\* What a request relies on is not disturbed by others.
LEMMA OthersKept ==
  ASSUME NEW s \in Slots, RequestOK(reqs[s]), reqs'[s] = reqs[s], Evolves
  PROVE  RequestOK(reqs[s])'
<1> PICK r : r = reqs[s]
  OBVIOUS
<1>0. RequestOK(r)
  OBVIOUS
<1>1. r.pc \in Writing \cup Owing =>
        r.article \in ArticleIds /\ articles[r.article].state # "unused"
  BY <1>0 DEF RequestOK, LocalsOK
<1>2. LocalsOK(r)'
  BY <1>0, <1>1 DEF RequestOK, LocalsOK, Evolves
<1>3. PassedOK(r)'
  BY <1>0, <1>1 DEF RequestOK, PassedOK, Evolves
<1>4. LocalsOK(reqs[s])'
  BY <1>2 DEF LocalsOK
<1>5. PassedOK(reqs[s])'
  BY <1>3 DEF PassedOK
<1>6. QED BY <1>4, <1>5 DEF RequestOK

-----------------------------------------------------------------------------
(* The steps that write nothing. *)

\* A request that is let in.
LEMMA AdmitStep ==
  ASSUME AInv, NEW s \in Slots, NEW u \in UserIds, Admit(s, u)
  PROVE  AInv'
<1> DEFINE r == [Idle EXCEPT !.pc = "admitted", !.actor = u, !.role = standing[u]]
<1>1. r \in Request /\ RequestOK(r)
  BY DEF Admit, Idle, Request, PC, RequestOK, LocalsOK, PassedOK, Writing, Owing
<1>2. reqs[s].pc \notin Owing /\ r.pc # "announce"
  BY DEF Admit, Idle, Owing
<1>3. QED BY <1>1, <1>2, RequestStep DEF Admit

\* Answers that have read only.
LEMMA RespondStep ==
  ASSUME AInv, NEW s \in Slots, reqs[s].pc \notin Owing, Respond(s),
         UNCHANGED <<tableVars, auditVars, historyVars>>
  PROVE  AInv'
<1>1. Idle.pc # "announce"
  BY DEF Idle
<1>2. QED BY <1>1, IdleOK, RequestStep DEF Respond

\* assertSlugAvailable of a create.
LEMMA CreateReadStep ==
  ASSUME AInv, NEW s \in Slots, NEW slug \in Slugs, NEW published \in BOOLEAN,
         CreateRead(s, slug, published)
  PROVE  AInv'
<1> DEFINE r == [Idle EXCEPT !.pc = "create_insert", !.actor = reqs[s].actor, !.slug = slug,
                             !.published = published]
<1>1. reqs[s].pc = "admitted" /\ reqs[s].actor \in UserIds
  BY DEF CreateRead, Start, AInv, RequestOK, LocalsOK
<1>2. r \in Request /\ RequestOK(r) /\ r.pc # "announce" /\ reqs[s].pc \notin Owing
  BY <1>1 DEF Idle, Request, PC, RequestOK, LocalsOK, PassedOK, Writing, Owing
<1>3. QED BY <1>1, <1>2, RequestStep DEF CreateRead, Start

\* What a request keeps of the user is what has let it pass.
LEMMA PassedTyped ==
  ASSUME AInv, NEW s \in Slots, NEW a \in ArticleIds, MayMutate(s, a),
         reqs[s].pc = "admitted"
  PROVE  /\ Passed(s) \in Request
         /\ Passed(s).role = "admin" \/ Passed(s).actor = articles[a].authorId
         /\ Passed(s).slug = None /\ Passed(s).published = None
         /\ Passed(s).wasPublished = FALSE
<1>1. reqs[s].actor \in UserIds
  BY DEF AInv, RequestOK, LocalsOK
<1>2. CASE reqs[s].role = "admin"
  BY <1>2 DEF Passed, Idle, Request, PC, Accounts!Roles
<1>3. CASE reqs[s].role # "admin"
  BY <1>1, <1>3 DEF Passed, MayMutate, Idle, Request, PC
<1>4. QED BY <1>2, <1>3

\* The first read of a request that will write.
LEMMA PassedStep ==
  ASSUME AInv, NEW s \in Slots, NEW a \in ArticleIds, MayMutate(s, a),
         NEW r \in Request, Start(s, r), UNCHANGED <<tableVars, auditVars, historyVars>>,
         r.pc \in Writing, r.article = a,
         r.role = "admin" \/ r.actor = articles[a].authorId,
         r.pc = "update_slug" => r.slug \in Slugs,
         r.published = TRUE => ~ r.wasPublished,
         r.pc = "publish_save" => r.published \in BOOLEAN
  PROVE  AInv'
<1>1. articles[a].state # "unused"
  BY DEF MayMutate, Exists
<1>2. RequestOK(r) /\ r.pc # "announce"
  BY <1>1 DEF RequestOK, LocalsOK, PassedOK, Writing, Owing
<1>3. reqs[s].pc \notin Owing
  BY DEF Start, Owing
<1>4. QED BY <1>2, <1>3, RequestStep DEF Start

\* findById and assertOwnerOrAdmin of update, setPublished and remove.
LEMMA FirstReadStep ==
  ASSUME AInv, NEW s \in Slots, NEW a \in ArticleIds,
         \/ \E slug \in Slugs \cup {None}, published \in BOOLEAN \cup {None} :
              UpdateRead(s, a, slug, published)
         \/ \E published \in BOOLEAN : PublishRead(s, a, published)
         \/ RemoveRead(s, a)
  PROVE  AInv'
<1>1. MayMutate(s, a) /\ reqs[s].pc = "admitted" /\ UNCHANGED <<tableVars, auditVars, historyVars>>
  BY DEF UpdateRead, PublishRead, RemoveRead, Start
<1>2. articles[a].published \in BOOLEAN
  BY DEF AInv, TypeOK, ArticleRow
<1> DEFINE p == Passed(s)
<1>3. /\ p \in Request
      /\ p.role = "admin" \/ p.actor = articles[a].authorId
      /\ p.slug = None /\ p.published = None /\ p.wasPublished = FALSE
  BY <1>1, PassedTyped
<1>4. ASSUME NEW slug \in Slugs \cup {None}, NEW published \in BOOLEAN \cup {None},
             UpdateRead(s, a, slug, published)
      PROVE  AInv'
  <2> DEFINE newSlug == Changed(slug, articles[a].slug)
             newPublished == Changed(published, articles[a].published)
             pc == IF newSlug = None THEN "update_save" ELSE "update_slug"
             r == [p EXCEPT !.pc = pc, !.article = a, !.slug = newSlug,
                            !.published = newPublished, !.wasPublished = articles[a].published]
  <2>1. newSlug \in Slugs \cup {None} /\ newPublished \in BOOLEAN \cup {None}
    BY DEF Changed
  <2>2. newPublished = TRUE => ~ articles[a].published
    BY <1>2 DEF Changed
  <2>3. pc \in Writing /\ pc \in PC /\ (pc = "update_slug" => newSlug \in Slugs)
          /\ pc # "publish_save"
    BY <2>1 DEF Writing, PC
  <2>4. Start(s, r)
    BY <1>4 DEF UpdateRead
  <2> HIDE DEF p, pc, newSlug, newPublished
  <2>5. r \in Request
    BY <1>2, <1>3, <2>1, <2>3 DEF Request
  <2>6. /\ r.pc = pc /\ r.article = a /\ r.slug = newSlug /\ r.published = newPublished
        /\ r.wasPublished = articles[a].published /\ r.role = p.role /\ r.actor = p.actor
    BY <1>3 DEF Request
  <2> HIDE DEF r
  <2>7. QED BY <1>1, <1>3, <2>2, <2>3, <2>4, <2>5, <2>6, PassedStep
<1>5. ASSUME NEW published \in BOOLEAN, PublishRead(s, a, published)
      PROVE  AInv'
  <2> DEFINE r == [p EXCEPT !.pc = "publish_save", !.article = a, !.published = published,
                            !.wasPublished = articles[a].published]
  <2>1. Start(s, r) /\ articles[a].published # published
    BY <1>5 DEF PublishRead
  <2> HIDE DEF p
  <2>2. r \in Request
    BY <1>2, <1>3 DEF Request, PC
  <2>3. /\ r.pc = "publish_save" /\ r.article = a /\ r.published = published
        /\ r.wasPublished = articles[a].published /\ r.role = p.role /\ r.actor = p.actor
    BY <1>3 DEF Request
  <2>4. r.pc \in Writing
    BY <2>3 DEF Writing
  <2> HIDE DEF r
  <2>5. QED BY <1>1, <1>2, <1>3, <2>1, <2>2, <2>3, <2>4, PassedStep
<1>6. CASE RemoveRead(s, a)
  <2> DEFINE r == [p EXCEPT !.pc = "remove_destroy", !.article = a]
  <2>1. Start(s, r)
    BY <1>6 DEF RemoveRead
  <2> HIDE DEF p
  <2>2. r \in Request
    BY <1>3 DEF Request, PC
  <2>3. /\ r.pc = "remove_destroy" /\ r.article = a /\ r.published = None
        /\ r.role = p.role /\ r.actor = p.actor
    BY <1>3 DEF Request
  <2>4. r.pc \in Writing /\ None # TRUE
    BY <2>3 DEF Writing
  <2> HIDE DEF r
  <2>5. QED BY <1>1, <1>3, <2>1, <2>2, <2>3, <2>4, PassedStep
<1>7. QED BY <1>4, <1>5, <1>6

\* assertSlugAvailable of an update.
LEMMA UpdateSlugStep ==
  ASSUME AInv, NEW s \in Slots, UpdateSlug(s)
  PROVE  AInv'
<1>1. CASE Respond(s)
  BY <1>1, RespondStep DEF UpdateSlug, Owing
<1>2. CASE Continue(s, "update_save")
  <2> DEFINE r == [reqs[s] EXCEPT !.pc = "update_save"]
  <2>1. reqs[s] \in Request /\ RequestOK(reqs[s]) /\ reqs[s].pc = "update_slug"
    BY DEF AInv, TypeOK, UpdateSlug
  <2>2. /\ r \in Request /\ RequestOK(r) /\ r.pc # "announce"
        /\ reqs[s].pc \notin Owing
    BY <2>1 DEF Request, PC, RequestOK, LocalsOK, PassedOK, Writing, Owing
  <2>3. reqs' = [reqs EXCEPT ![s] = r]
    BY <1>2, <2>1 DEF Continue, AInv, TypeOK
  <2>4. QED BY <2>1, <2>2, <2>3, RequestStep DEF UpdateSlug
<1>3. QED BY <1>1, <1>2 DEF UpdateSlug

-----------------------------------------------------------------------------
(* The steps that write. *)

\* What a write of one request must show for the rest to follow: it touches
\* article a only, and owes the announcement of what it makes public.
LEMMA WriteStep ==
  ASSUME AInv, NEW s \in Slots, NEW a \in ArticleIds, NEW row \in ArticleRow,
         NEW r \in Request, StoreArticle(a, row),
         reqs' = [reqs EXCEPT ![s] = r], UNCHANGED <<standing, auditVars>>,
         row.state = "stored", row.authorId \in UserIds, Accounts!InTable(row.authorId),
         articles[a].state # "deleted",
         Exists(a) => row.authorId = articles[a].authorId,
         (Exists(a) /\ row.slug = articles[a].slug) \/ SlugFree(row.slug),
         RequestOK(r)', reqs[s].pc \notin Owing,
         row.published /\ ~ articles[a].published =>
           r.article = a /\ (r.pc = "announce" \/ (r.pc = "reread" /\ ~ r.wasPublished)),
         r.pc = "announce" => r.article = a /\ row.published
  PROVE  AInv'
<1>0. /\ TypeOK /\ articles \in [ArticleIds -> ArticleRow]
      /\ notice \in [ArticleIds -> {"none", "owed", "sent", "lost"}]
      /\ reqs \in [Slots -> Request] /\ reqs' \in [Slots -> Request] /\ reqs'[s] = r
      /\ \A q \in Slots : q # s => reqs'[q] = reqs[q]
  BY DEF AInv, TypeOK
<1> DEFINE word == NoticeOfWrite(a, row.published)
<1>1. /\ articles' = [articles EXCEPT ![a] = row]
      /\ notice' = [notice EXCEPT ![a] = word]
      /\ withdrawn' = IF row.published THEN withdrawn
                      ELSE withdrawn \cup {q \in Slots : WillAnnounce(q, a)}
  BY DEF StoreArticle
<1>2. /\ row.published \in BOOLEAN /\ articles[a].published \in BOOLEAN
      /\ notice[a] \in {"none", "owed", "sent", "lost"}
      /\ articles[a].published <=> notice[a] # "none"
  BY <1>0 DEF AInv, RowOK, ArticleRow
<1>3. /\ word \in {"none", "owed", "sent", "lost"}
      /\ row.published <=> word # "none"
      /\ row.published /\ articles[a].published => word = notice[a]
  BY <1>2 DEF NoticeOfWrite
<1> HIDE DEF word
<1>4. TypeOK'
  <2>1. withdrawn' \subseteq {q \in Slots : reqs'[q].pc = "announce"}
    BY <1>0, <1>1 DEF TypeOK, WillAnnounce, Owing
  <2>2. QED BY <1>0, <1>1, <1>3, <2>1 DEF TypeOK, auditVars, Exists, Accounts!InTable
<1>5. Evolves
  BY <1>0, <1>1 DEF Evolves, Exists, ArticleRow
<1>6. \A q \in Slots : RequestOK(reqs[q])'
  <2>1. TAKE q \in Slots
  <2>2. CASE q = s
    BY <1>0, <2>2 DEF RequestOK, LocalsOK, PassedOK
  <2>3. CASE q # s
    <3>1. reqs'[q] = reqs[q] /\ RequestOK(reqs[q])
      BY <1>0, <2>3 DEF AInv
    <3>2. QED BY <1>5, <3>1, OthersKept
  <2>4. QED BY <2>2, <2>3
<1>7. ASSUME NEW b \in ArticleIds
      PROVE  RowOK(b)' /\ EntryOK(b)'
  <2>1. CASE b = a
    BY <1>0, <1>1, <1>3, <2>1 DEF AInv, RowOK, EntryOK, Exists, auditVars
  <2>2. CASE b # a
    BY <1>0, <1>1, <2>2 DEF AInv, RowOK, EntryOK, Exists, auditVars
  <2>3. QED BY <2>1, <2>2
<1>8. SlugUnique'
  BY <1>0, <1>1 DEF AInv, SlugUnique, SlugFree, Exists, ArticleRow
<1>9. AnnouncedWasPublic'
  <2> SUFFICES ASSUME NEW q \in Slots, NEW b \in ArticleIds, WillAnnounce(q, b)', Exists(b)'
               PROVE  articles'[b].published \/ q \in withdrawn'
    BY DEF AnnouncedWasPublic
  <2>1. CASE q = s
    BY <1>0, <1>1, <2>1 DEF WillAnnounce
  <2>2. CASE q # s /\ b = a
    <3>1. WillAnnounce(q, a)
      BY <1>0, <2>2 DEF WillAnnounce
    <3>2. QED BY <1>0, <1>1, <2>2, <3>1
  <2>3. CASE q # s /\ b # a
    <3>1. WillAnnounce(q, b) /\ Exists(b)
      BY <1>0, <1>1, <2>3 DEF WillAnnounce, Exists
    <3>2. articles[b].published \/ q \in withdrawn
      BY <3>1 DEF AInv, AnnouncedWasPublic
    <3>3. QED BY <1>0, <1>1, <2>3, <3>2
  <2>4. QED BY <2>1, <2>2, <2>3
<1>10. PublicationAnnounced'
  <2> SUFFICES ASSUME NEW b \in ArticleIds, articles'[b].published, notice'[b] # "sent",
                      notice'[b] # "lost"
               PROVE  \E q \in Slots : Owes(q, b)'
    BY DEF PublicationAnnounced
  <2>1. \A q \in Slots : Owes(q, b) => Owes(q, b)'
    BY <1>0 DEF Owes, WillLook, WillAnnounce, Owing
  <2>2. CASE b = a /\ ~ articles[a].published
    <3>1. row.published
      BY <1>0, <1>1, <2>2
    <3>2. Owes(s, b)'
      BY <1>0, <2>2, <3>1 DEF Owes, WillLook, WillAnnounce
    <3>3. QED BY <3>2
  <2>3. CASE b # a \/ articles[a].published
    <3>1. articles[b].published /\ notice'[b] = notice[b]
      BY <1>0, <1>1, <1>3, <2>3
    <3>2. QED BY <2>1, <3>1 DEF AInv, PublicationAnnounced
  <2>4. QED BY <2>2, <2>3
<1>11. QED BY <1>4, <1>6, <1>7, <1>8, <1>9, <1>10 DEF AInv

\* What is left of a handler to announce an article that there has been.
LEMMA ToAnnounceOK ==
  ASSUME NEW a \in ArticleIds
  PROVE  /\ ToAnnounce(a) \in Request /\ ToAnnounce(a).pc = "announce"
         /\ ToAnnounce(a).article = a
         /\ articles[a].state # "unused" => RequestOK(ToAnnounce(a))
BY DEF ToAnnounce, Idle, Request, PC, RequestOK, LocalsOK, PassedOK, Writing, Owing

\* The INSERT of a create.
LEMMA CreateInsertStep ==
  ASSUME AInv, NEW s \in Slots, CreateInsert(s)
  PROVE  AInv'
<1>0. PICK q \in Request : q = reqs[s]
  BY DEF AInv, TypeOK
<1>1. /\ q.pc = "create_insert" /\ q.actor \in UserIds /\ q.slug \in Slugs
      /\ q.published \in BOOLEAN /\ SlugFree(q.slug) /\ Accounts!InTable(q.actor)
  BY <1>0 DEF CreateInsert, AInv, RequestOK, LocalsOK
<1>2. PICK a \in ArticleIds :
        /\ articles[a].state = "unused"
        /\ StoreArticle(a, [state |-> "stored", slug |-> q.slug, published |-> q.published,
                            authorId |-> q.actor])
        /\ reqs' = [reqs EXCEPT ![s] = [Idle EXCEPT !.pc = "reread", !.article = a]]
        /\ UNCHANGED <<standing, auditVars>>
  BY <1>0 DEF CreateInsert
<1> DEFINE row == [state |-> "stored", slug |-> q.slug, published |-> q.published,
                   authorId |-> q.actor]
           r == [Idle EXCEPT !.pc = "reread", !.article = a]
<1>3. /\ row \in ArticleRow /\ row.state = "stored" /\ row.slug = q.slug
      /\ row.published = q.published /\ row.authorId = q.actor
  BY <1>1 DEF ArticleRow
<1>4. ~ Exists(a) /\ articles[a].state # "deleted"
  BY <1>2 DEF Exists
<1>5. r \in Request /\ r.pc = "reread" /\ r.article = a /\ ~ r.wasPublished
  BY DEF Idle, Request, PC
<1>6. RequestOK(r)'
  <2>1. articles'[a].state = "stored"
    BY <1>2, <1>3 DEF AInv, TypeOK, StoreArticle
  <2>2. QED BY <1>5, <2>1 DEF RequestOK, LocalsOK, PassedOK, Writing, Owing
<1>7. row.authorId \in UserIds /\ Accounts!InTable(row.authorId) /\ SlugFree(row.slug)
  BY <1>1, <1>3
<1>8. reqs[s].pc \notin Owing
  BY <1>0, <1>1 DEF Owing
<1>9. /\ StoreArticle(a, row) /\ reqs' = [reqs EXCEPT ![s] = r]
      /\ UNCHANGED <<standing, auditVars>>
  BY <1>2
<1> HIDE DEF r, row
<1>10. QED BY <1>3, <1>4, <1>5, <1>6, <1>7, <1>8, <1>9, WriteStep

\* The UPDATE of an update.
LEMMA UpdateSaveStep ==
  ASSUME AInv, NEW s \in Slots, UpdateSave(s)
  PROVE  AInv'
<1>0. PICK q \in Request : q = reqs[s]
  BY DEF AInv, TypeOK
<1> DEFINE a == q.article
           r == [Idle EXCEPT !.pc = "reread", !.article = a, !.wasPublished = q.wasPublished]
<1>1. /\ q \in Request /\ q.pc = "update_save" /\ a \in ArticleIds
      /\ articles[a].state # "unused" /\ (q.published = TRUE => ~ q.wasPublished)
      /\ articles[a] \in ArticleRow
  BY <1>0 DEF UpdateSave, AInv, TypeOK, RequestOK, LocalsOK, Writing
<1>2. /\ r \in Request /\ r.pc = "reread" /\ r.article = a
      /\ r.wasPublished = q.wasPublished
  BY <1>1 DEF Idle, Request, PC
<1>3. reqs' = [reqs EXCEPT ![s] = r] /\ UNCHANGED <<standing, auditVars>>
  BY <1>0 DEF UpdateSave
<1>4. CASE Exists(a)
  <2> DEFINE row == [articles[a] EXCEPT
                       !.slug = IF q.slug = None THEN @ ELSE q.slug,
                       !.published = IF q.published = None THEN @ ELSE q.published]
  <2>1. StoreArticle(a, row) /\ (q.slug # None => SlugFree(q.slug))
    BY <1>0, <1>4 DEF UpdateSave
  <2>2. /\ row \in ArticleRow /\ row.state = "stored"
        /\ row.authorId = articles[a].authorId
        /\ row.slug = IF q.slug = None THEN articles[a].slug ELSE q.slug
        /\ row.published = IF q.published = None THEN articles[a].published ELSE q.published
    BY <1>1, <1>4 DEF ArticleRow, Request, Exists
  <2>3. q.published \in BOOLEAN \cup {None} /\ None # TRUE /\ None # FALSE
    BY <1>1 DEF Request
  <2>4. row.published /\ ~ articles[a].published => r.article = a /\ ~ r.wasPublished
    BY <1>1, <1>2, <2>2, <2>3
  <2>5. row.authorId \in UserIds /\ Accounts!InTable(row.authorId)
    BY <1>1, <1>4, <2>2 DEF AInv, TypeOK, RowOK
  <2>6. RequestOK(r)'
    <3>1. articles'[a].state = "stored"
      BY <1>1, <2>1, <2>2 DEF AInv, TypeOK, StoreArticle
    <3>2. QED BY <1>1, <1>2, <3>1 DEF RequestOK, LocalsOK, PassedOK, Writing, Owing
  <2>7. articles[a].state # "deleted" /\ q.pc \notin Owing
    BY <1>1, <1>4 DEF Exists, Owing
  <2> HIDE DEF row, r, a
  <2>8. QED BY <1>0, <1>1, <1>2, <1>3, <1>4, <2>1, <2>2, <2>4, <2>5, <2>6, <2>7, WriteStep
<1>5. CASE ~ Exists(a)
  <2>1. UNCHANGED <<tableVars, auditVars, historyVars>>
    BY <1>0, <1>5 DEF UpdateSave, tableVars
  <2>2. RequestOK(r) /\ q.pc \notin Owing
    BY <1>1, <1>2 DEF RequestOK, LocalsOK, PassedOK, Writing, Owing
  <2> HIDE DEF r, a
  <2>3. QED BY <1>0, <1>2, <1>3, <2>1, <2>2, RequestStep
<1>6. QED BY <1>4, <1>5

\* The UPDATE of setPublished.
LEMMA PublishSaveStep ==
  ASSUME AInv, NEW s \in Slots, PublishSave(s)
  PROVE  AInv'
<1>0. PICK q \in Request : q = reqs[s]
  BY DEF AInv, TypeOK
<1> DEFINE a == q.article
           r == IF q.published THEN ToAnnounce(a) ELSE Idle
<1>1. /\ q.pc = "publish_save" /\ a \in ArticleIds /\ q.published \in BOOLEAN
      /\ articles[a] \in ArticleRow /\ articles[a].state # "unused"
      /\ reqs' = [reqs EXCEPT ![s] = r] /\ UNCHANGED <<standing, auditVars>>
  BY <1>0 DEF PublishSave, AInv, TypeOK, RequestOK, LocalsOK, Writing
<1>2. /\ reqs[s].pc \notin Owing /\ Idle \in Request /\ RequestOK(Idle)
      /\ Idle.pc # "announce"
  BY <1>0, <1>1, IdleOK DEF Owing, Idle
<1>3. /\ ToAnnounce(a) \in Request /\ RequestOK(ToAnnounce(a))
      /\ ToAnnounce(a).pc = "announce" /\ ToAnnounce(a).article = a
  BY <1>1, ToAnnounceOK
<1>4. /\ r \in Request /\ RequestOK(r)
      /\ r.pc = "announce" <=> q.published
      /\ q.published => r.pc = "announce" /\ r.article = a
      /\ r = Idle \/ r = ToAnnounce(a)
  BY <1>1, <1>2, <1>3
<1> HIDE DEF r
<1>5. CASE Exists(a)
  <2> DEFINE row == [articles[a] EXCEPT !.published = q.published]
  <2>1. StoreArticle(a, row)
    BY <1>0, <1>5 DEF PublishSave
  <2>2. /\ row \in ArticleRow /\ row.state = "stored"
        /\ row.authorId = articles[a].authorId /\ row.slug = articles[a].slug
        /\ row.published = q.published
    BY <1>1, <1>5 DEF ArticleRow, Exists
  <2>3. /\ row.authorId \in UserIds /\ Accounts!InTable(row.authorId)
        /\ articles[a].state # "deleted"
    BY <1>1, <1>5, <2>2 DEF AInv, TypeOK, RowOK, Exists
  <2>4. RequestOK(r)'
    <3>1. articles'[a].state = "stored"
      BY <1>1, <2>1, <2>2 DEF AInv, TypeOK, StoreArticle
    <3>2. CASE r = Idle
      BY <3>2 DEF Idle, RequestOK, LocalsOK, PassedOK, Writing, Owing
    <3>3. CASE r = ToAnnounce(a)
      BY <1>1, <1>3, <3>1, <3>3 DEF RequestOK, LocalsOK, PassedOK, Writing, Owing
    <3>4. QED BY <1>4, <3>2, <3>3
  <2> HIDE DEF row, a
  <2>5. QED BY <1>1, <1>2, <1>4, <1>5, <2>1, <2>2, <2>3, <2>4, WriteStep
<1>6. CASE ~ Exists(a)
  <2>1. UNCHANGED <<tableVars, auditVars, historyVars>>
    BY <1>0, <1>6 DEF PublishSave, tableVars
  <2>2. \A b \in ArticleIds : ~ WillLook(s, b)
    BY <1>2 DEF WillLook, Owing
  <2>3. reqs[s].pc # "announce" /\ (r.pc = "announce" => ~ Exists(r.article))
    BY <1>2, <1>4, <1>6 DEF Owing
  <2> HIDE DEF a
  <2>4. QED BY <1>1, <1>4, <2>1, <2>2, <2>3, ReplaceStep
<1>7. QED BY <1>5, <1>6

\* findById once more.
LEMMA RereadStep ==
  ASSUME AInv, NEW s \in Slots, Reread(s)
  PROVE  AInv'
<1>0. PICK q \in Request : q = reqs[s]
  BY DEF AInv, TypeOK
<1> DEFINE a == q.article
           announces == Exists(a) /\ ~ q.wasPublished /\ articles[a].published
           r == IF announces THEN ToAnnounce(a) ELSE Idle
<1>1. /\ q.pc = "reread" /\ a \in ArticleIds /\ articles[a].state # "unused"
      /\ reqs' = [reqs EXCEPT ![s] = r] /\ UNCHANGED <<tableVars, auditVars, historyVars>>
  BY <1>0 DEF Reread, AInv, RequestOK, LocalsOK, Owing
<1>2. /\ ToAnnounce(a) \in Request /\ RequestOK(ToAnnounce(a))
      /\ ToAnnounce(a).pc = "announce" /\ ToAnnounce(a).article = a
      /\ Idle \in Request /\ RequestOK(Idle) /\ Idle.pc # "announce"
  BY <1>1, ToAnnounceOK, IdleOK DEF Idle
<1>3. /\ r \in Request /\ RequestOK(r)
      /\ r.pc = "announce" <=> announces
      /\ announces => r.article = a
  BY <1>2
<1>4. \A b \in ArticleIds : WillLook(s, b) /\ articles[b].published => b = a /\ announces
  BY <1>0, UnpublishedOK DEF WillLook
<1>5. reqs[s].pc # "announce"
  BY <1>0, <1>1
<1>6. r.pc = "announce" /\ Exists(r.article) => articles[r.article].published
  BY <1>3
<1> HIDE DEF r
<1>7. QED BY <1>1, <1>3, <1>4, <1>5, <1>6, ReplaceStep

\* The end of a handler that owed an announcement or may have: what others owe,
\* they still do.
LEMMA EndStep ==
  ASSUME AInv, NEW s \in Slots, Respond(s), UNCHANGED <<tableVars, auditVars>>,
         withdrawn' = withdrawn \ {s},
         notice' \in [ArticleIds -> {"none", "owed", "sent", "lost"}],
         \A a \in ArticleIds :
           /\ notice'[a] # "none" <=> notice[a] # "none"
           /\ articles[a].published =>
                \/ notice'[a] \in {"sent", "lost"}
                \/ /\ notice'[a] = notice[a]
                   /\ Owes(s, a) => \E q \in Slots \ {s} : Owes(q, a)
  PROVE  AInv'
<1>0. /\ reqs' = [reqs EXCEPT ![s] = Idle] /\ reqs \in [Slots -> Request]
      /\ reqs' \in [Slots -> Request] /\ reqs'[s].pc = "idle"
      /\ \A q \in Slots : q # s => reqs'[q] = reqs[q]
  BY IdleOK DEF Respond, AInv, TypeOK, Idle
<1>1. TypeOK'
  <2>1. withdrawn' \subseteq {q \in Slots : reqs'[q].pc = "announce"}
    BY <1>0 DEF AInv, TypeOK
  <2>2. QED BY <1>0, <2>1 DEF AInv, TypeOK, tableVars, auditVars, Exists, Accounts!InTable
<1>2. \A q \in Slots : RequestOK(reqs[q])'
  <2>1. \A q \in Slots : RequestOK(reqs'[q])
    BY <1>0, IdleOK DEF AInv
  <2>2. QED BY <2>1 DEF RequestOK, LocalsOK, PassedOK, tableVars, Exists
<1>3. \A a \in ArticleIds : RowOK(a)' /\ EntryOK(a)'
  BY DEF AInv, RowOK, EntryOK, tableVars, auditVars, Exists
<1>4. SlugUnique'
  BY DEF AInv, SlugUnique, tableVars, Exists
<1>5. AnnouncedWasPublic'
  <2> SUFFICES ASSUME NEW q \in Slots, NEW a \in ArticleIds, WillAnnounce(q, a)', Exists(a)
               PROVE  articles[a].published \/ q \in withdrawn'
    BY DEF AnnouncedWasPublic, tableVars, Exists
  <2>1. q # s /\ WillAnnounce(q, a)
    BY <1>0 DEF WillAnnounce
  <2>2. QED BY <2>1 DEF AInv, AnnouncedWasPublic
<1>6. PublicationAnnounced'
  <2> SUFFICES ASSUME NEW a \in ArticleIds, articles[a].published, notice'[a] # "sent",
                      notice'[a] # "lost"
               PROVE  \E q \in Slots : Owes(q, a)'
    BY DEF PublicationAnnounced, tableVars
  <2>1. PICK q \in Slots : q # s /\ Owes(q, a)
    BY DEF AInv, PublicationAnnounced
  <2>2. Owes(q, a)'
    BY <1>0, <2>1 DEF Owes, WillLook, WillAnnounce
  <2>3. QED BY <2>2
<1>7. QED BY <1>1, <1>2, <1>3, <1>4, <1>5, <1>6 DEF AInv

\* The event is emitted.
LEMMA AnnounceStep ==
  ASSUME AInv, NEW s \in Slots, Announce(s)
  PROVE  AInv'
<1>0. PICK q \in Request : q = reqs[s]
  BY DEF AInv, TypeOK
<1> DEFINE a == q.article
<1>1. /\ q.pc = "announce" /\ a \in ArticleIds /\ Respond(s)
      /\ notice' = [notice EXCEPT ![a] = IF articles[a].published THEN "sent" ELSE @]
      /\ withdrawn' = withdrawn \ {s} /\ UNCHANGED <<tableVars, auditVars>>
      /\ notice \in [ArticleIds -> {"none", "owed", "sent", "lost"}]
  BY <1>0 DEF Announce, emitPublished, handleArticlePublished, AInv, TypeOK, RequestOK,
     LocalsOK, Owing
<1>2. notice' \in [ArticleIds -> {"none", "owed", "sent", "lost"}]
  BY <1>1
<1>3. \A b \in ArticleIds : articles[b].published <=> notice[b] # "none"
  BY DEF AInv, RowOK
<1>4. \A b \in ArticleIds : Owes(s, b) => b = a
  BY <1>0, <1>1 DEF Owes, WillLook, WillAnnounce
<1>5. ASSUME NEW b \in ArticleIds
      PROVE  /\ notice'[b] # "none" <=> notice[b] # "none"
             /\ articles[b].published =>
                  notice'[b] = "sent" \/ (notice'[b] = notice[b] /\ ~ Owes(s, b))
  BY <1>1, <1>3, <1>4
<1>6. QED BY <1>1, <1>2, <1>5, EndStep

\* A handler that ends in an error.
LEMMA HandlerDiesStep ==
  ASSUME AInv, NEW s \in Slots, HandlerDies(s)
  PROVE  AInv'
<1>1. /\ Respond(s) /\ UNCHANGED <<tableVars, auditVars>>
      /\ notice' = [a \in ArticleIds |->
                      IF /\ notice[a] = "owed" /\ Owes(s, a)
                         /\ \A q \in Slots \ {s} : ~ Owes(q, a)
                      THEN "lost" ELSE notice[a]]
      /\ withdrawn' = withdrawn \ {s}
      /\ notice \in [ArticleIds -> {"none", "owed", "sent", "lost"}]
  BY DEF HandlerDies, LoseNotice, AInv, TypeOK
<1>2. notice' \in [ArticleIds -> {"none", "owed", "sent", "lost"}]
  BY <1>1
<1>3. ASSUME NEW a \in ArticleIds
      PROVE  /\ notice'[a] # "none" <=> notice[a] # "none"
             /\ articles[a].published =>
                  \/ notice'[a] \in {"sent", "lost"}
                  \/ /\ notice'[a] = notice[a]
                     /\ Owes(s, a) => \E q \in Slots \ {s} : Owes(q, a)
  <2>1. notice'[a] = IF /\ notice[a] = "owed" /\ Owes(s, a)
                        /\ \A q \in Slots \ {s} : ~ Owes(q, a)
                     THEN "lost" ELSE notice[a]
    BY <1>1
  <2>2. articles[a].published => notice[a] \in {"owed", "sent", "lost"}
    BY <1>1 DEF AInv, RowOK
  <2>3. QED BY <2>1, <2>2
<1>4. QED BY <1>1, <1>2, <1>3, EndStep

\* Articles go: a removal, or an account that takes its articles along.
LEMMA DeleteStep ==
  ASSUME AInv, NEW gone \in SUBSET ArticleIds, DeleteArticles(gone),
         reqs' \in [Slots -> Request],
         \A z \in Slots : reqs'[z] # reqs[z] => reqs'[z] = Idle /\ reqs[z].pc \notin Owing,
         standing' \in [UserIds -> Accounts!Standing],
         \A a \in ArticleIds \ gone :
           Exists(a) => Accounts!InTable(articles[a].authorId)',
         auditPending' \subseteq {"article_deleted"} \X ArticleIds,
         auditLog' \subseteq {"article_deleted"} \X ArticleIds,
         \A a \in ArticleIds :
           <<"article_deleted", a>> \in (auditPending \cup auditLog)' =>
             \/ <<"article_deleted", a>> \in auditPending \cup auditLog
             \/ a \in gone /\ articles[a].state # "unused"
  PROVE  AInv'
<1>0. /\ articles \in [ArticleIds -> ArticleRow] /\ reqs \in [Slots -> Request]
      /\ notice \in [ArticleIds -> {"none", "owed", "sent", "lost"}]
  BY DEF AInv, TypeOK
<1>1. NoArticle("deleted") \in ArticleRow /\ NoArticle("deleted").state = "deleted"
        /\ NoArticle("deleted").published = FALSE
  BY DEF NoArticle, ArticleRow
<1>2. \A a \in ArticleIds :
        /\ articles'[a] = IF a \in gone /\ Exists(a) THEN NoArticle("deleted") ELSE articles[a]
        /\ notice'[a] = IF a \in gone THEN "none" ELSE notice[a]
        /\ Exists(a)' <=> Exists(a) /\ a \notin gone
  BY <1>1 DEF DeleteArticles, Exists
<1>3. TypeOK'
  <2>1. articles' \in [ArticleIds -> ArticleRow]
    BY <1>0, <1>1 DEF DeleteArticles
  <2>2. notice' \in [ArticleIds -> {"none", "owed", "sent", "lost"}]
    BY <1>0 DEF DeleteArticles
  <2>3. \A a \in ArticleIds : Exists(a)' => Accounts!InTable(articles[a].authorId)'
    BY <1>2
  <2>4. withdrawn' \subseteq {z \in Slots : reqs'[z].pc = "announce"}
    BY DEF DeleteArticles, AInv, TypeOK, Owing
  <2>5. QED BY <2>1, <2>2, <2>3, <2>4 DEF TypeOK
<1>4. Evolves
  BY <1>1, <1>2 DEF Evolves
<1>5. \A z \in Slots : RequestOK(reqs[z])'
  <2> TAKE z \in Slots
  <2>1. CASE reqs'[z] = reqs[z]
    <3>1. RequestOK(reqs[z])
      BY <1>0 DEF AInv
    <3>2. QED BY <1>4, <2>1, <3>1, OthersKept
  <2>2. CASE reqs'[z] # reqs[z]
    BY <2>2 DEF Idle, RequestOK, LocalsOK, PassedOK, Writing, Owing
  <2>3. QED BY <2>1, <2>2
<1>6. \A a \in ArticleIds : articles'[a].published => a \notin gone /\ articles'[a] = articles[a]
  BY <1>1, <1>2, UnpublishedOK
<1>7. ASSUME NEW a \in ArticleIds
      PROVE  RowOK(a)' /\ EntryOK(a)'
  <2>1. /\ Exists(a)' => articles'[a].authorId \in UserIds
        /\ ~ Exists(a)' => articles'[a] = NoArticle(articles'[a].state)
    BY <1>1, <1>2 DEF AInv, RowOK
  <2>2. articles'[a].published <=> notice'[a] # "none"
    BY <1>1, <1>2, <1>6 DEF AInv, RowOK
  <2>3. EntryOK(a)'
    <3> SUFFICES ASSUME <<"article_deleted", a>> \in (auditPending \cup auditLog)'
                 PROVE  articles'[a].state = "deleted"
      BY DEF EntryOK
    <3>1. CASE <<"article_deleted", a>> \in auditPending \cup auditLog
      BY <1>1, <1>2, <3>1 DEF AInv, EntryOK
    <3>2. CASE a \in gone /\ articles[a].state # "unused"
      <4>1. articles[a].state \in {"stored", "deleted"}
        BY <1>0, <3>2 DEF ArticleRow
      <4>2. QED BY <1>1, <1>2, <3>2, <4>1 DEF Exists
    <3>3. QED BY <3>1, <3>2
  <2>4. QED BY <2>1, <2>2, <2>3 DEF RowOK
<1>8. SlugUnique'
  BY <1>2 DEF AInv, SlugUnique
<1>9. AnnouncedWasPublic'
  <2> SUFFICES ASSUME NEW z \in Slots, NEW a \in ArticleIds, WillAnnounce(z, a)', Exists(a)'
               PROVE  articles'[a].published \/ z \in withdrawn'
    BY DEF AnnouncedWasPublic
  <2>1. reqs'[z] = reqs[z] /\ articles'[a] = articles[a] /\ Exists(a)
    BY <1>2 DEF WillAnnounce, Idle
  <2>2. withdrawn' = withdrawn
    BY DEF DeleteArticles
  <2>3. QED BY <2>1, <2>2 DEF WillAnnounce, AInv, AnnouncedWasPublic
<1>10. PublicationAnnounced'
  <2>1. \A z \in Slots, a \in ArticleIds : Owes(z, a) => Owes(z, a)'
    BY DEF Owes, WillLook, WillAnnounce, Owing
  <2>2. QED BY <1>2, <1>6, <2>1 DEF AInv, PublicationAnnounced
<1>11. QED BY <1>3, <1>5, <1>7, <1>8, <1>9, <1>10 DEF AInv

\* article.destroy() of a removal, and its audit entry.
LEMMA RemoveDestroyStep ==
  ASSUME AInv, NEW s \in Slots, RemoveDestroy(s)
  PROVE  AInv'
<1>0. PICK q \in Request : q = reqs[s]
  BY DEF AInv, TypeOK
<1> DEFINE a == q.article
<1>1. /\ q.pc = "remove_destroy" /\ a \in ArticleIds /\ articles[a].state # "unused"
      /\ DeleteArticles({a}) /\ Log("article_deleted", a) /\ UNCHANGED standing
      /\ reqs' = [reqs EXCEPT ![s] = Idle]
  BY <1>0 DEF RemoveDestroy, Respond, AInv, RequestOK, LocalsOK, Writing
<1>2. /\ reqs' \in [Slots -> Request]
      /\ \A z \in Slots : reqs'[z] # reqs[z] => reqs'[z] = Idle /\ reqs[z].pc \notin Owing
  BY <1>0, <1>1, IdleOK DEF AInv, TypeOK, Owing
<1>3. standing' \in [UserIds -> Accounts!Standing]
  BY <1>1 DEF AInv, TypeOK
<1>4. \A b \in ArticleIds \ {a} : Exists(b) => Accounts!InTable(articles[b].authorId)'
  BY <1>1 DEF DeleteArticles, AInv, TypeOK, Accounts!InTable
<1>5. /\ auditPending' \subseteq auditPending \cup {<<"article_deleted", a>>}
      /\ auditLog' = auditLog
  BY <1>1 DEF Log
<1>6. /\ auditPending' \subseteq {"article_deleted"} \X ArticleIds
      /\ auditLog' \subseteq {"article_deleted"} \X ArticleIds
  BY <1>1, <1>5 DEF AInv, TypeOK
<1>7. \A b \in ArticleIds :
        <<"article_deleted", b>> \in (auditPending \cup auditLog)' =>
          \/ <<"article_deleted", b>> \in auditPending \cup auditLog
          \/ b \in {a} /\ articles[b].state # "unused"
  BY <1>1, <1>5
<1>8. {a} \in SUBSET ArticleIds
  BY <1>1
<1> HIDE DEF a
<1>9. QED BY <1>1, <1>2, <1>3, <1>4, <1>6, <1>7, <1>8, DeleteStep

-----------------------------------------------------------------------------
(* The rest of the process. *)

\* An account that goes takes its articles along.
LEMMA AccountGoneStep ==
  ASSUME AInv, NEW u \in UserIds, AccountGone(u)
  PROVE  AInv'
<1> DEFINE gone == {a \in ArticleIds : articles[a].authorId = u}
<1>1. /\ standing' = [standing EXCEPT ![u] = "gone"]
      /\ DeleteArticles(gone) /\ UNCHANGED <<auditVars, reqs>>
      /\ standing \in [UserIds -> Accounts!Standing]
  BY DEF AccountGone, Accounts!Delete, AInv, TypeOK
<1>2. standing' \in [UserIds -> Accounts!Standing]
  BY <1>1 DEF Accounts!Standing
<1>3. \A a \in ArticleIds \ gone : Exists(a) => Accounts!InTable(articles[a].authorId)'
  <2> TAKE a \in ArticleIds \ gone
  <2> HAVE Exists(a)
  <2>1. articles'[a] = articles[a] /\ articles[a].authorId # u
    BY <1>1 DEF DeleteArticles
  <2>2. Accounts!InTable(articles[a].authorId)
    BY DEF AInv, TypeOK
  <2>3. articles[a].authorId \in UserIds
    BY DEF AInv, RowOK
  <2>4. QED BY <1>1, <2>1, <2>2, <2>3 DEF Accounts!InTable
<1>4. /\ reqs' \in [Slots -> Request] /\ \A z \in Slots : reqs'[z] = reqs[z]
      /\ auditPending' \subseteq {"article_deleted"} \X ArticleIds
      /\ auditLog' \subseteq {"article_deleted"} \X ArticleIds
      /\ \A a \in ArticleIds :
           <<"article_deleted", a>> \in (auditPending \cup auditLog)' =>
             <<"article_deleted", a>> \in auditPending \cup auditLog
  BY <1>1 DEF AInv, TypeOK, auditVars
<1>5. gone \in SUBSET ArticleIds
  OBVIOUS
<1> HIDE DEF gone
<1>6. QED BY <1>1, <1>2, <1>3, <1>4, <1>5, DeleteStep

\* No request in flight and no article depends on the role an account has now.
LEMMA AccountChangesStep ==
  ASSUME AInv, NEW u \in UserIds, AccountChanges(u)
  PROVE  AInv'
<1>1. PICK role \in Accounts!Roles : Accounts!Grant(u, role)
  BY DEF AccountChanges
<1>2. UNCHANGED <<articles, auditVars, reqs, historyVars>>
  BY DEF AccountChanges
<1>3. standing' = [standing EXCEPT ![u] = role]
  BY <1>1 DEF Accounts!Grant
<1>4. standing' \in [UserIds -> Accounts!Standing]
  BY <1>3 DEF AInv, TypeOK, Accounts!Standing
<1>5. \A a \in ArticleIds : Exists(a)' => Accounts!InTable(articles[a].authorId)'
  BY <1>2, <1>3 DEF AInv, TypeOK, RowOK, Exists, Accounts!InTable
<1>6. TypeOK'
  BY <1>2, <1>4, <1>5 DEF AInv, TypeOK, auditVars, historyVars
<1>7. QED BY <1>2, <1>6 DEF AInv, RequestOK, LocalsOK, PassedOK, RowOK, EntryOK, SlugUnique,
        AnnouncedWasPublic, PublicationAnnounced, Owes, WillLook, WillAnnounce, Exists,
        auditVars, historyVars

\* An entry of the audit log lands, or does not.
LEMMA AuditStep ==
  ASSUME AInv, Audit
  PROVE  AInv'
<1>1. /\ UNCHANGED <<tableVars, reqs, historyVars>>
      /\ auditPending' \subseteq auditPending
      /\ auditLog' \subseteq auditPending \cup auditLog
  BY DEF Audit, AuditInsert, AuditFail
<1>2. TypeOK'
  BY <1>1 DEF AInv, TypeOK, tableVars, historyVars, Exists, Accounts!InTable
<1>3. \A a \in ArticleIds : RowOK(a)' /\ EntryOK(a)'
  BY <1>1 DEF AInv, RowOK, EntryOK, tableVars, historyVars, Exists
<1>4. QED BY <1>1, <1>2, <1>3 DEF AInv, RequestOK, LocalsOK, PassedOK, SlugUnique,
        AnnouncedWasPublic, PublicationAnnounced, Owes, WillLook, WillAnnounce, Exists,
        tableVars, historyVars

-----------------------------------------------------------------------------
(* The invariant of the whole. *)

\* What a row is at the start.
LEMMA InitRow ==
  ASSUME Init, NEW a \in ArticleIds
  PROVE  /\ Exists(a) <=> a \in Seeded
         /\ articles[a] \in ArticleRow
         /\ articles[a].published = FALSE
         /\ Exists(a) => /\ articles[a].slug = SeedSlug[a]
                         /\ articles[a].authorId \in SeedUsers
         /\ ~ Exists(a) => articles[a] = NoArticle(articles[a].state)
         /\ notice[a] = "none"
<1>1. CASE a \in Seeded
  <2>1. SeedSlug[a] \in Slugs /\ SeedAuthor[a] \in SeedUsers /\ SeedAuthor[a] \in UserIds
    BY <1>1
  <2>2. articles[a] = [state |-> "stored", slug |-> SeedSlug[a], published |-> FALSE,
                       authorId |-> SeedAuthor[a]]
    BY <1>1 DEF Init
  <2> HIDE ArticleConstants
  <2>3. articles[a] \in ArticleRow
    BY <2>1, <2>2 DEF ArticleRow
  <2>4. /\ articles[a].state = "stored" /\ articles[a].slug = SeedSlug[a]
        /\ articles[a].published = FALSE /\ articles[a].authorId = SeedAuthor[a]
    BY <2>2
  <2>5. notice[a] = "none"
    BY DEF Init
  <2>6. QED BY <1>1, <2>1, <2>3, <2>4, <2>5 DEF Exists
<1>2. CASE a \notin Seeded
  <2> HIDE ArticleConstants
  <2>1. articles[a] = NoArticle("unused")
    BY <1>2 DEF Init
  <2>2. /\ articles[a].state = "unused" /\ articles[a].published = FALSE
        /\ articles[a] \in ArticleRow
    BY <2>1 DEF NoArticle, ArticleRow
  <2>3. notice[a] = "none"
    BY DEF Init
  <2>4. QED BY <1>2, <2>1, <2>2, <2>3 DEF Exists
<1>3. QED BY <1>1, <1>2

\* The seeded drafts satisfy the invariant.
LEMMA InitAInv == Init => AInv
<1> SUFFICES ASSUME Init PROVE AInv
  OBVIOUS
<1>1. TypeOK
  <2>1. articles \in [ArticleIds -> ArticleRow]
    <3>1. articles = [a \in ArticleIds |-> articles[a]]
      BY DEF Init
    <3>2. QED BY <3>1, InitRow
  <2>2. standing \in [UserIds -> Accounts!Standing]
    BY DEF Init, Accounts!Init, Accounts!Standing, Accounts!Roles
  <2>3. \A u \in SeedUsers : Accounts!InTable(u)
    BY DEF Init, Accounts!Init, Accounts!InTable, Accounts!Roles
  <2>4. \A a \in ArticleIds : Exists(a) => Accounts!InTable(articles[a].authorId)
    BY <2>3, InitRow
  <2>5. QED BY <2>1, <2>2, <2>4, IdleOK DEF Init, TypeOK, AuditInit
<1>2. \A s \in Slots : RequestOK(reqs[s])
  BY IdleOK DEF Init
<1>3. \A a \in ArticleIds : RowOK(a) /\ EntryOK(a)
  <2> TAKE a \in ArticleIds
  <2>1. RowOK(a)
    BY InitRow DEF RowOK
  <2>2. EntryOK(a)
    BY DEF Init, AuditInit, EntryOK
  <2>3. QED BY <2>1, <2>2
<1>4. SlugUnique
  <2> SUFFICES ASSUME NEW a \in ArticleIds, NEW b \in ArticleIds, Exists(a), Exists(b),
                      articles[a].slug = articles[b].slug
               PROVE  a = b
    BY DEF SlugUnique
  <2>1. a \in Seeded /\ articles[a].slug = SeedSlug[a]
    BY InitRow
  <2>2. b \in Seeded /\ articles[b].slug = SeedSlug[b]
    BY InitRow
  <2>3. QED BY <2>1, <2>2
<1>5. AnnouncedWasPublic /\ PublicationAnnounced
  BY InitRow DEF Init, Idle, WillAnnounce, AnnouncedWasPublic, PublicationAnnounced
<1>6. QED BY <1>1, <1>2, <1>3, <1>4, <1>5 DEF AInv

\* A step of the rest of the system.
LEMMA StutterStep ==
  ASSUME AInv, UNCHANGED vars
  PROVE  AInv'
BY DEF AInv, TypeOK, RequestOK, LocalsOK, PassedOK, RowOK, EntryOK, SlugUnique,
       AnnouncedWasPublic, PublicationAnnounced, Owes, WillLook, WillAnnounce, Exists, vars,
       tableVars, auditVars, historyVars, Accounts!InTable

\* The answers of create and update to a slug that is taken.
LEMMA RefusedStep ==
  ASSUME AInv, NEW s \in Slots,
         Answered(s) \/ CreateInsertFails(s) \/ UpdateSaveFails(s)
  PROVE  AInv'
<1>1. reqs[s].pc \notin Owing /\ Respond(s) /\ UNCHANGED <<tableVars, auditVars, historyVars>>
  BY DEF Answered, CreateInsertFails, UpdateSaveFails, Owing
<1>2. QED BY <1>1, RespondStep

\* Every step keeps the invariant.
LEMMA NextAInv == AInv /\ [Next]_vars => AInv'
<1> SUFFICES ASSUME AInv, [Next]_vars PROVE AInv'
  OBVIOUS
<1>1. CASE Calls
  BY <1>1, AdmitStep DEF Calls
<1>2. ASSUME NEW s \in Slots,
             \/ Answered(s) \/ CreateInsertFails(s) \/ UpdateSaveFails(s)
             \/ \E slug \in Slugs, published \in BOOLEAN : CreateRead(s, slug, published)
      PROVE  AInv'
  BY <1>2, RefusedStep, CreateReadStep
<1>3. ASSUME NEW s \in Slots, NEW a \in ArticleIds,
             \/ \E slug \in Slugs \cup {None}, published \in BOOLEAN \cup {None} :
                  UpdateRead(s, a, slug, published)
             \/ \E published \in BOOLEAN : PublishRead(s, a, published)
             \/ RemoveRead(s, a)
      PROVE  AInv'
  BY <1>3, FirstReadStep
<1>4. ASSUME NEW s \in Slots,
             \/ CreateInsert(s) \/ UpdateSlug(s) \/ UpdateSave(s) \/ Reread(s)
             \/ PublishSave(s) \/ Announce(s) \/ RemoveDestroy(s)
      PROVE  AInv'
  BY <1>4, CreateInsertStep, UpdateSlugStep, UpdateSaveStep, RereadStep, PublishSaveStep,
     AnnounceStep, RemoveDestroyStep
<1>5. CASE Handlers
  BY <1>2, <1>3, <1>4, <1>5 DEF Handlers
<1>6. CASE Audit
  BY <1>6, AuditStep
<1>7. CASE Environment
  BY <1>7, AccountGoneStep, AccountChangesStep, HandlerDiesStep DEF Environment
<1>8. CASE UNCHANGED vars
  BY <1>8, StutterStep
<1>9. QED BY <1>1, <1>5, <1>6, <1>7, <1>8 DEF Next

\* The invariant holds for as long as the system runs.
LEMMA AInvHolds == Spec => []AInv
BY InitAInv, NextAInv, PTL DEF Spec

-----------------------------------------------------------------------------
(* What a reader should know of. *)

\* Every row, request and announcement holds what it may hold, and every
\* article has an author who is in the users table (migration 000002:15-21).
THEOREM ArticlesTyped == Spec => []TypeOK
BY AInvHolds, PTL DEF AInv

\* Two articles never share a slug (articles.service.ts:52-54, 66-69).
THEOREM SlugsUnique == Spec => []SlugUnique
BY AInvHolds, PTL DEF AInv

\* An article that became public is announced, or a handler that is still to
\* announce it runs, or the last that owed it has ended in an error, be it between
\* its last statement and the emit (articles.service.ts:64-72, 79-83).
THEOREM PublicationsAnnounced == Spec => []PublicationAnnounced
BY AInvHolds, PTL DEF AInv

\* Who is about to announce an article that is there and not public has been
\* overtaken, since its last statement, by one that unpublished it
\* (articles.service.ts:56-57, 71-72, 81-83).
THEOREM AnnouncementsTimely == Spec => []AnnouncedWasPublic
BY AInvHolds, PTL DEF AInv

\* An entry of the audit log, landed or on its way, says of an article that it
\* was deleted only when it is (articles.service.ts:96-107).
THEOREM DeletionsTruthful == Spec => []ArticleDeletedTruthful
<1>1. AInv => ArticleDeletedTruthful
  BY DEF AInv, EntryOK, ArticleDeletedTruthful
<1>2. QED BY <1>1, AInvHolds, PTL

\* The requests that write to an article that is there have been let pass.
LEMMA WriterPassed ==
  ASSUME AInv, NEW s \in Slots, NEW a \in ArticleIds, Exists(a),
         articles'[a] # articles[a],
         UpdateSave(s) \/ PublishSave(s) \/ RemoveDestroy(s)
  PROVE  /\ reqs'[s] # reqs[s]
         /\ reqs[s].article = a
         /\ reqs[s].role = "admin" \/ reqs[s].actor = articles[a].authorId
<1>0. PICK q \in Request : q = reqs[s]
  BY DEF AInv, TypeOK
<1>1. q.pc \in Writing
  BY <1>0 DEF UpdateSave, PublishSave, RemoveDestroy, Writing
<1>2. reqs'[s].pc \in {"idle"} \cup Owing
  <2>1. PICK r : reqs' = [reqs EXCEPT ![s] = r] /\ r.pc \in {"idle"} \cup Owing
    <3>1. CASE UpdateSave(s)
      <4> DEFINE r == [Idle EXCEPT !.pc = "reread", !.article = q.article,
                                   !.wasPublished = q.wasPublished]
      <4>1. reqs' = [reqs EXCEPT ![s] = r]
        BY <1>0, <3>1 DEF UpdateSave
      <4>2. r.pc = "reread"
        BY DEF Idle
      <4> HIDE DEF r
      <4>3. QED BY <4>1, <4>2 DEF Owing
    <3>2. CASE PublishSave(s)
      <4> DEFINE r == IF q.published THEN ToAnnounce(q.article) ELSE Idle
      <4>1. reqs' = [reqs EXCEPT ![s] = r]
        BY <1>0, <3>2 DEF PublishSave
      <4>2. r.pc \in {"idle", "announce"}
        BY DEF ToAnnounce, Idle
      <4> HIDE DEF r
      <4>3. QED BY <4>1, <4>2 DEF Owing
    <3>3. CASE RemoveDestroy(s)
      <4>1. reqs' = [reqs EXCEPT ![s] = Idle] /\ Idle.pc = "idle"
        BY <3>3 DEF RemoveDestroy, Respond, Idle
      <4>2. QED BY <4>1
    <3>4. QED BY <3>1, <3>2, <3>3
  <2>2. QED BY <2>1 DEF AInv, TypeOK
<1>3. articles \in [ArticleIds -> ArticleRow]
  BY DEF AInv, TypeOK
<1>4. q.article = a
  <2>1. CASE UpdateSave(s)
    BY <1>0, <1>3, <2>1 DEF UpdateSave, StoreArticle
  <2>2. CASE PublishSave(s)
    BY <1>0, <1>3, <2>2 DEF PublishSave, StoreArticle
  <2>3. CASE RemoveDestroy(s)
    BY <1>0, <2>3 DEF RemoveDestroy, DeleteArticles
  <2>4. QED BY <2>1, <2>2, <2>3
<1>5. q.role = "admin" \/ q.actor = articles[a].authorId
  BY <1>0, <1>1, <1>4 DEF AInv, RequestOK, PassedOK
<1>6. reqs'[s] # reqs[s]
  BY <1>0, <1>1, <1>2 DEF Writing, Owing
<1>7. QED BY <1>0, <1>4, <1>5, <1>6

\* An article changes only by the hand of its author, or of one who was an
\* administrator when the guard looked, or goes with its author
\* (common/authorization.ts:5-7).
THEOREM OwnersOnly == Spec => OnlyOwnerOrAdmin
<1> DEFINE ByRight(a) ==
      \/ standing'[articles[a].authorId] = "gone"
      \/ \E s \in Slots : /\ reqs'[s] # reqs[s]
                          /\ reqs[s].article = a
                          /\ \/ reqs[s].role = "admin"
                             \/ reqs[s].actor = articles[a].authorId
<1>1. ASSUME AInv, [Next]_vars, NEW a \in ArticleIds, Exists(a), articles'[a] # articles[a]
      PROVE  ByRight(a)
  <2>0. articles \in [ArticleIds -> ArticleRow] /\ standing \in [UserIds -> Accounts!Standing]
        /\ articles[a].authorId \in UserIds
    BY <1>1 DEF AInv, TypeOK, RowOK
  <2>1. CASE UNCHANGED articles
    BY <1>1, <2>1
  <2>2. ASSUME NEW s \in Slots, CreateInsert(s)
        PROVE  FALSE
    BY <1>1, <2>0, <2>2 DEF CreateInsert, StoreArticle, Exists
  <2>3. ASSUME NEW s \in Slots, UpdateSave(s) \/ PublishSave(s) \/ RemoveDestroy(s)
        PROVE  ByRight(a)
    BY <1>1, <2>3, WriterPassed
  <2>4. ASSUME NEW u \in UserIds, AccountGone(u)
        PROVE  ByRight(a)
    <3>1. articles[a].authorId = u
      BY <1>1, <2>4 DEF AccountGone, DeleteArticles
    <3>2. standing'[u] = "gone"
      BY <2>0, <2>4 DEF AccountGone, Accounts!Delete
    <3>3. QED BY <3>1, <3>2
  <2>5. \/ UNCHANGED articles
        \/ \E s \in Slots : CreateInsert(s) \/ UpdateSave(s) \/ PublishSave(s)
                            \/ RemoveDestroy(s)
        \/ \E u \in UserIds : AccountGone(u)
    <3>1. CASE Calls
      BY <3>1 DEF Calls, Admit, tableVars
    <3>2. CASE Handlers
      BY <3>2 DEF Handlers, Answered, CreateRead, UpdateRead, PublishRead, RemoveRead,
             CreateInsertFails, UpdateSlug, UpdateSaveFails, Reread, Announce, tableVars
    <3>3. CASE Audit
      BY <3>3 DEF Audit, tableVars
    <3>4. CASE Environment
      BY <3>4 DEF Environment, AccountChanges, HandlerDies, tableVars
    <3>5. CASE UNCHANGED vars
      BY <3>5 DEF vars, tableVars
    <3>6. QED BY <1>1, <3>1, <3>2, <3>3, <3>4, <3>5 DEF Next
  <2> HIDE DEF ByRight
  <2>6. QED BY <2>1, <2>2, <2>3, <2>4, <2>5
<1>2. AInv /\ [Next]_vars =>
        [\A a \in ArticleIds : Exists(a) /\ articles'[a] # articles[a] => ByRight(a)]_vars
  BY <1>1
<1>3. QED BY <1>2, AInvHolds, PTL DEF Spec, OnlyOwnerOrAdmin

=============================================================================
