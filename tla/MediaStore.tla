----------------------------- MODULE MediaStore -----------------------------
(***************************************************************************)
(* MediaService: uploads that replace an article's image, check the share  *)
(* of the uploader and evict the oldest images when the cap is exceeded,   *)
(* all of it in single statements outside a transaction.                   *)
(*                                                                         *)
(* What a file holds is left out: an upload comes with the size it has     *)
(* after resizing.  Answers that change nothing are left to stuttering: an *)
(* unknown article, somebody else's, a file that is no image, a read.      *)
(***************************************************************************)
EXTENDS Naturals, FiniteSetsExt

CONSTANTS ArticleIds,  \* articles.id
          UserIds,     \* users.id
          Admins,      \* the accounts whose role is admin
          authorId,    \* articles.authorId: [ArticleIds -> UserIds]
          Images,      \* media.id; bound: how many are in use at a time
          Sizes,       \* the sizes of the files that are uploaded
          Cap,         \* STORAGE_CAP_BYTES
          Share,       \* MAX_PER_USER_BYTES
          Slots,       \* bound: how many requests are in flight at a time
          None         \* SQL NULL

ASSUME MediaConstants ==
  /\ None \notin ArticleIds \cup UserIds \cup Images
  /\ Admins \subseteq UserIds
  /\ authorId \in [ArticleIds -> UserIds]
  /\ Sizes \subseteq Nat \ {0} /\ Sizes # {} /\ IsFiniteSet(Sizes)
  /\ Cap \in Nat /\ Share \in Nat
  /\ Slots # {} /\ IsFiniteSet(Slots)

VARIABLES stored,     \* the ids in the articles table
          accounts,   \* the ids in the users table
          media,      \* the media table
          older,      \* the order of media.createdAt, as pairs of ids
          reqs,       \* the handler running in each slot
          disturbed,  \* history: the evictions during which images went otherwise
          abandoned   \* history: a handler died before its eviction was over

parents == <<stored, accounts>>
vars == <<parents, media, older, reqs, disturbed, abandoned>>

Row == [id : Images, articleId : ArticleIds, uploadedByUserId : UserIds \cup {None},
        sizeBytes : Sizes]

\* Rows whose sizes are summed up, as findAll and reduce do.
Bytes(rows) == MapThenSumSet(LAMBDA row : row.sizeBytes, rows)

PC == {"idle", "replace", "share", "create", "quota", "oldest", "evict", "remove"}

\* image is the id that create has drawn, total what enforceQuota counts down,
\* victim the row it has found.
Request == [pc : PC, actor : UserIds \cup {None}, article : ArticleIds \cup {None},
            size : Sizes \cup {0}, image : Images \cup {None}, total : Nat,
            victim : Images \cup {None}]

Idle == [pc |-> "idle", actor |-> None, article |-> None, size |-> 0, image |-> None,
         total |-> 0, victim |-> None]

Start(s, request) ==
  /\ reqs[s] = Idle
  /\ reqs' = [reqs EXCEPT ![s] = request]

Respond(s) == reqs' = [reqs EXCEPT ![s] = Idle]

ImagesOf(a) == {row \in media : row.articleId = a}

\* Between enforceQuota's sum and its end.
Evicting == {s \in Slots : reqs[s].pc \in {"oldest", "evict"}}

\* With a row inserted and its enforceQuota still to end.
Settling == Evicting \cup {s \in Slots : reqs[s].pc = "quota"}

Init ==
  /\ stored = ArticleIds
  /\ accounts = UserIds
  /\ media = {}
  /\ older = {}
  /\ reqs = [s \in Slots |-> Idle]
  /\ disturbed = {}
  /\ abandoned = FALSE

-----------------------------------------------------------------------------
(* Statements. *)

\* What has gone, or is never inserted, is older than nothing.
Forget(ids) == older' = {pair \in older : pair[1] \notin ids /\ pair[2] \notin ids}

\* DELETE FROM media.
DeleteImages(gone) ==
  /\ media' = media \ gone
  /\ Forget({row.id : row \in gone})

\* The ids of the rows, and of those about to be inserted.
Drawn == {row.id : row \in media} \cup ({reqs[s].image : s \in Slots} \ {None})

\* Draws an id (a UUID: one that is nowhere in use) and the time of creation,
\* before the INSERT is sent.
FreshImage == Images \ (Drawn \cup {reqs[s].victim : s \in Slots})

StartCreate(s) ==
  \E x \in FreshImage :
    /\ older' = older \cup (Drawn \X {x})
    /\ reqs' = [reqs EXCEPT ![s].pc = "create", ![s].image = x]

\* Mutant: media without its foreign keys.
ReferencesAnything(s) == TRUE

\* The foreign keys of media.
References(s) == reqs[s].article \in stored /\ reqs[s].actor \in accounts

-----------------------------------------------------------------------------
(* POST /media/articles/:articleId *)

\* findById finds the article and assertOwnerOrAdmin lets the caller pass.
MayMutate(u, a) == a \in stored /\ (u \in Admins \/ authorId[a] = u)

UploadRead(s, u, a, size) ==
  /\ MayMutate(u, a)
  /\ size <= Cap
  /\ Start(s, [Idle EXCEPT !.pc = "replace", !.actor = u, !.article = a, !.size = size])
  /\ UNCHANGED <<parents, media, older, abandoned>>

\* Mutant: only images of one's own are replaced.
ReplaceOwn(s) ==
  LET r == reqs[s]
  IN  /\ r.pc = "replace"
      /\ DeleteImages({row \in ImagesOf(r.article) : row.uploadedByUserId = r.actor})
      /\ reqs' = [reqs EXCEPT ![s].pc = "share"]
      /\ UNCHANGED <<parents, abandoned>>

\* Whatever image the article has goes first.
Replace(s) ==
  LET r == reqs[s]
  IN  /\ r.pc = "replace"
      /\ DeleteImages(ImagesOf(r.article))
      /\ reqs' = [reqs EXCEPT ![s].pc = "share"]
      /\ UNCHANGED <<parents, abandoned>>

\* Mutant: the size of the new image is not counted.
WithinShareSoFar(s) ==
  Bytes({row \in media : row.uploadedByUserId = reqs[s].actor}) <= Share

WithinShare(s) ==
  Bytes({row \in media : row.uploadedByUserId = reqs[s].actor}) + reqs[s].size <= Share

\* An administrator's upload goes on to create without a look at the table.
CheckShare(s) ==
  LET r == reqs[s]
  IN  /\ r.pc = "share"
      /\ r.actor \in Admins \/ WithinShare(s)
      /\ StartCreate(s)
      /\ UNCHANGED <<parents, media, abandoned>>

\* 400, with the image that was there before gone.
OverShare(s) ==
  /\ reqs[s].pc = "share"
  /\ reqs[s].actor \notin Admins /\ ~ WithinShare(s)
  /\ Respond(s)
  /\ UNCHANGED <<parents, media, older, abandoned>>

Create(s) ==
  LET r == reqs[s]
  IN  /\ r.pc = "create"
      /\ References(s)
      /\ media' = media \cup {[id |-> r.image, articleId |-> r.article,
                               uploadedByUserId |-> r.actor, sizeBytes |-> r.size]}
      /\ reqs' = [reqs EXCEPT ![s] = [Idle EXCEPT !.pc = "quota"]]
      /\ UNCHANGED <<parents, older, abandoned>>

\* The article or the account is gone: 500.
CreateFails(s) ==
  /\ reqs[s].pc = "create"
  /\ ~ References(s)
  /\ Forget({reqs[s].image})
  /\ Respond(s)
  /\ UNCHANGED <<parents, media, abandoned>>

-----------------------------------------------------------------------------
(* enforceQuota *)

\* Mutant: eviction starts when the cap is reached.
OverCapAlready(total) == total >= Cap

OverCap(total) == total > Cap

\* getTotalBytes.
SumUp(s) ==
  LET total == Bytes(media)
  IN  /\ reqs[s].pc = "quota"
      /\ reqs' = [reqs EXCEPT ![s] = IF OverCap(total)
                                     THEN [Idle EXCEPT !.pc = "oldest", !.total = total]
                                     ELSE Idle]
      /\ abandoned' = FALSE
      /\ UNCHANGED <<parents, media, older>>

FindOldest(s) ==
  LET r == reqs[s]
  IN  /\ r.pc = "oldest"
      /\ IF media = {}
         THEN Respond(s)
         ELSE \E row \in media :
                /\ \A other \in media \ {row} : <<row.id, other.id>> \in older
                /\ reqs' = [reqs EXCEPT ![s] = [r EXCEPT !.pc = "evict", !.victim = row.id,
                                                         !.total = @ - row.sizeBytes]]
      /\ UNCHANGED <<parents, media, older, abandoned>>

\* Mutant: one image is evicted, and no more.
EvictOne(s) ==
  LET r == reqs[s]
  IN  /\ r.pc = "evict"
      /\ DeleteImages({row \in media : row.id = r.victim})
      /\ Respond(s)
      /\ UNCHANGED <<parents, abandoned>>

\* DELETE of the row by its id; that it is gone already is not an error.
Evict(s) ==
  LET r == reqs[s]
  IN  /\ r.pc = "evict"
      /\ DeleteImages({row \in media : row.id = r.victim})
      /\ reqs' = [reqs EXCEPT ![s] = IF OverCap(r.total)
                                     THEN [r EXCEPT !.pc = "oldest", !.victim = None]
                                     ELSE Idle]
      /\ UNCHANGED <<parents, abandoned>>

-----------------------------------------------------------------------------
(* DELETE /media/articles/:articleId *)

RemoveRead(s, u, a) ==
  /\ MayMutate(u, a)
  /\ Start(s, [Idle EXCEPT !.pc = "remove", !.article = a])
  /\ UNCHANGED <<parents, media, older, abandoned>>

RemoveDestroy(s) ==
  /\ reqs[s].pc = "remove"
  /\ DeleteImages(ImagesOf(reqs[s].article))
  /\ Respond(s)
  /\ UNCHANGED <<parents, abandoned>>

-----------------------------------------------------------------------------
(* The rest of the process. *)

\* DELETE FROM articles, which cascades to media.
ArticleGone(a) ==
  /\ a \in stored
  /\ stored' = stored \ {a}
  /\ DeleteImages(ImagesOf(a))
  /\ UNCHANGED <<accounts, reqs, abandoned>>

\* DELETE FROM users: the articles of the account go, with their images, and
\* what it has uploaded to articles of others loses its uploader.
AccountGone(u) ==
  LET articles == {a \in ArticleIds : authorId[a] = u}
      gone == {row \in media : row.articleId \in articles}
      Disown(row) == IF row.uploadedByUserId = u THEN [row EXCEPT !.uploadedByUserId = None]
                     ELSE row
  IN  /\ u \in accounts
      /\ accounts' = accounts \ {u}
      /\ stored' = stored \ articles
      /\ media' = {Disown(row) : row \in media \ gone}
      /\ Forget({row.id : row \in gone})
      /\ UNCHANGED <<reqs, abandoned>>

\* A statement is refused, or the process ends: no more of this handler.
HandlerDies(s) ==
  /\ reqs[s] # Idle
  /\ Respond(s)
  /\ Forget({reqs[s].image})
  /\ abandoned' = (abandoned \/ s \in Settling)
  /\ UNCHANGED <<parents, media>>

Calls ==
  \E s \in Slots, u \in accounts, a \in ArticleIds :
    \/ \E size \in Sizes : UploadRead(s, u, a, size)
    \/ RemoveRead(s, u, a)

Handlers ==
  \E s \in Slots :
    \/ Replace(s)
    \/ CheckShare(s)
    \/ OverShare(s)
    \/ Create(s)
    \/ CreateFails(s)
    \/ SumUp(s)
    \/ FindOldest(s)
    \/ Evict(s)
    \/ RemoveDestroy(s)

Environment ==
  \/ \E a \in ArticleIds : ArticleGone(a)
  \/ \E u \in UserIds : AccountGone(u)
  \/ \E s \in Slots : HandlerDies(s)

\* disturbed is kept up with whatever step is taken: another one than the
\* evicting handler's own has freed bytes.
Observe ==
  disturbed' = {s \in Evicting \cap Evicting' :
                  s \in disturbed \/ (reqs'[s] = reqs[s] /\ Bytes(media') < Bytes(media))}

Next == (Calls \/ Handlers \/ Environment) /\ Observe

Spec == Init /\ [][Next]_vars

-----------------------------------------------------------------------------
\* Every variable holds what it may hold; an image belongs to an article and an
\* account that exist (migrations 000008:11-17, 000014:12-18), and the images of
\* the table and those about to be inserted have been drawn one after another.
TypeOK ==
  /\ stored \subseteq ArticleIds
  /\ accounts \subseteq UserIds
  /\ media \subseteq Row
  /\ \A row \in media : row.articleId \in stored /\ row.uploadedByUserId \in accounts \cup {None}
  /\ older \subseteq Drawn \X Drawn
  /\ \A x, y \in Drawn : x # y => (<<x, y>> \in older <=> <<y, x>> \notin older)
  /\ \A x, y, z \in Drawn : <<x, y>> \in older /\ <<y, z>> \in older => <<x, z>> \in older
  /\ reqs \in [Slots -> Request]
  /\ disturbed \subseteq Evicting
  /\ abandoned \in BOOLEAN

\* However uploads and evictions overlap, the table is within the cap when no
\* enforceQuota is under way.  One that died may leave it over the cap, until
\* the next upload (media.service.ts:144-155).
CapKept ==
  Bytes(media) > Cap => abandoned \/ Settling # {}

\* The uploads that have emptied the article a and not yet inserted its image.
Replacing(a) == {s \in Slots : reqs[s].article = a /\ reqs[s].pc \in {"share", "create"}}

\* Two uploads of one article may both destroy before either inserts; but its
\* images, with the uploads that are about to insert one, are no more than the
\* requests that can be in flight (media.service.ts:83-105).
ImagesBounded ==
  \A a \in ArticleIds : Cardinality(ImagesOf(a)) + Cardinality(Replacing(a)) <= Cardinality(Slots)

\* An account that is not an administrator's exceeds its share by no more than
\* its overlapping uploads, which do not see each other (media.service.ts:88-105).
ShareBounded ==
  \A u \in UserIds \ Admins :
    Bytes({row \in media : row.uploadedByUserId = u})
      <= Share + (Cardinality(Slots) - 1) * Max(Sizes)

\* An image is evicted only while the table is over the cap, if no other
\* statement has freed bytes since the sum was taken.  Two evictions at once may
\* well evict more than is needed (media.service.ts:143-154).
EvictsOnlyOverCap ==
  [][\A s \in Evicting : reqs[s].pc = "evict" /\ s \notin disturbed /\ reqs'[s] # reqs[s]
                           /\ Bytes(media') < Bytes(media)
       => Bytes(media) > Cap]_vars

=============================================================================
