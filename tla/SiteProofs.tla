----------------------------- MODULE SiteProofs -----------------------------
(***************************************************************************)
(* What holds of the public site, whatever the articles, tags and limits:  *)
(* the handler never answers with an image of an article that was a draft  *)
(* all along, its related articles are sound however editors interfere,    *)
(* and its lists are exact when nobody writes.                             *)
(***************************************************************************)
EXTENDS PublicSite, SequenceTheorems, FiniteSetTheorems, TLAPS

-----------------------------------------------------------------------------
(* Lists of distinct ids. *)

\* A list of all the elements of a finite set has each of them once.
LEMMA ListOfASet ==
  ASSUME NEW S, IsFiniteSet(S), NEW s \in SetToSeqs(S)
  PROVE  /\ s \in Seq(S)
         /\ DOMAIN s = 1 .. Len(s)
         /\ Len(s) = Cardinality(S)
         /\ IsInjective(s)
         /\ ToSet(s) = S
<1> DEFINE n == Cardinality(S)
<1>1. n \in Nat
  BY FS_CardinalityType
<1>2. s \in [1 .. n -> S] /\ \A i, j \in 1 .. n : i # j => s[i] # s[j]
  BY DEF SetToSeqs
<1>3. s \in Seq(S) /\ Len(s) = n /\ DOMAIN s = 1 .. n
  BY <1>1, <1>2
<1>4. IsInjective(s)
  BY <1>2, <1>3 DEF IsInjective
<1>5. s \in Injection(1 .. n, S)
  BY <1>2, <1>4 DEF Injection, IsInjective
<1>6. Cardinality(1 .. n) = n
  BY <1>1, FS_Interval
<1>7. s \in Surjection(1 .. n, S)
  BY <1>5, <1>6, FS_Injection
<1>8. ToSet(s) = S
  BY <1>2, <1>3, <1>7 DEF Surjection, ToSet
<1> QED BY <1>3, <1>4, <1>8

\* The cut of a list is its beginning, of limit elements or as many as it has.
LEMMA CutTaken ==
  ASSUME NEW S, NEW s \in Seq(S), req.limit \in Nat
  PROVE  /\ Cut(s) \in Seq(S)
         /\ Len(Cut(s)) = IF req.limit <= Len(s) THEN req.limit ELSE Len(s)
         /\ \A i \in 1 .. Len(Cut(s)) : Cut(s)[i] = s[i]
<1> DEFINE m == Min({req.limit, Len(s)})
<1>1. Len(s) \in Nat /\ DOMAIN s = 1 .. Len(s) /\ \A i \in 1 .. Len(s) : s[i] \in S
  OBVIOUS
<1>2. \E k \in {req.limit, Len(s)} : \A o \in {req.limit, Len(s)} : k =< o
  BY <1>1
<1>3. m \in {req.limit, Len(s)} /\ m =< req.limit /\ m =< Len(s)
  BY <1>2 DEF Min
<1>4. m \in Nat /\ m = IF req.limit <= Len(s) THEN req.limit ELSE Len(s)
  BY <1>1, <1>3
<1>5. \A i \in 1 .. m : s[i] \in S
  BY <1>1, <1>3, <1>4
<1> HIDE DEF m
<1>6. /\ SubSeq(s, 1, m) \in Seq(S)
      /\ Len(SubSeq(s, 1, m)) = IF 1 <= m THEN m - 1 + 1 ELSE 0
      /\ \A i \in 1 .. m - 1 + 1 : SubSeq(s, 1, m)[i] = s[1 + i - 1]
  BY <1>4, <1>5, SubSeqProperties
<1>7. Cut(s) = SubSeq(s, 1, m)
  BY DEF Cut, m
<1>8. Len(Cut(s)) = m
  BY <1>4, <1>6, <1>7
<1>9. ASSUME NEW i \in 1 .. m
      PROVE  Cut(s)[i] = s[i]
  <2>1. i \in 1 .. m - 1 + 1 /\ 1 + i - 1 = i
    BY <1>4
  <2> QED BY <1>6, <1>7, <2>1
<1> QED BY <1>4, <1>6, <1>7, <1>8, <1>9

-----------------------------------------------------------------------------
(* The editors. *)

\* A public article has no image that has not been seen.
PublicSeen == \A a \in ArticleIds : Public(a) => articles[a].images \subseteq {"seen"}

\* Whatever an editor does, it writes one row, of nothing where the article is
\* gone; and what a public article has is seen.
Writes(a, row) ==
  /\ Write(a, row)
  /\ row.state = "gone" => row = Gone
  /\ PublicSeen => (row.state = "public" => row.images \subseteq {"seen"})

\* An editor writes one row, as above.
LEMMA EditorsWrite ==
  ASSUME TypeOK, Editors
  PROVE  \E a \in ArticleIds, row \in Article : Writes(a, row)
<1>1. PICK a \in ArticleIds :
        \/ \E published \in BOOLEAN : SetPublished(a, published)
        \/ \E tags \in SUBSET TagIds : SetTags(a, tags)
        \/ \E images \in SUBSET articles[a].images : RemoveImages(a, images)
        \/ CreateImage(a)
        \/ ArticleGone(a)
  BY DEF Editors
<1> DEFINE was == articles[a]
<1>2. was \in Article /\ (was.state = "gone" => was = Gone)
  BY <1>1 DEF TypeOK, Exists
<1>3. PublicSeen => (was.state = "public" => was.images \subseteq {"seen"})
  BY DEF PublicSeen, Public
<1>4. Gone \in Article /\ Gone.state = "gone" /\ Gone.images = {}
  BY DEF Gone, Draft, Article, Image
<1> SUFFICES \E row \in Article : Writes(a, row)
  OBVIOUS
<1>5. ASSUME NEW published \in BOOLEAN, SetPublished(a, published)
      PROVE  \E row \in Article : Writes(a, row)
  <2> DEFINE row == [was EXCEPT !.state = IF published THEN "public" ELSE "draft",
                                !.images = IF published /\ @ # {} THEN {"seen"} ELSE @]
  <2>1. row \in Article
    BY <1>2 DEF Article, Image
  <2>2. row.state # "gone" /\ (row.state = "public" => row.images \subseteq {"seen"})
    BY <1>2 DEF Article
  <2>3. Write(a, row)
    BY <1>5 DEF SetPublished
  <2> QED BY <2>1, <2>2, <2>3 DEF Writes
<1>6. ASSUME NEW tags \in SUBSET TagIds, SetTags(a, tags)
      PROVE  \E row \in Article : Writes(a, row)
  <2> DEFINE row == [was EXCEPT !.tags = tags]
  <2>1. row \in Article /\ row.state = was.state /\ row.images = was.images
    BY <1>2 DEF Article
  <2>2. Write(a, row) /\ was.state # "gone"
    BY <1>6 DEF SetTags, Exists
  <2> QED BY <1>3, <2>1, <2>2 DEF Writes
<1>7. ASSUME NEW images \in SUBSET was.images, RemoveImages(a, images)
      PROVE  \E row \in Article : Writes(a, row)
  <2> DEFINE row == [was EXCEPT !.images = images]
  <2>1. row \in Article /\ row.state = was.state /\ row.images = images
    BY <1>2 DEF Article
  <2>2. Write(a, row) /\ row # was
    BY <1>7 DEF RemoveImages, Write
  <2>3. row.state # "gone"
    BY <1>2, <1>4, <2>1, <2>2 DEF Gone, Draft
  <2> QED BY <1>3, <2>1, <2>2, <2>3 DEF Writes
<1>8. ASSUME CreateImage(a)
      PROVE  \E row \in Article : Writes(a, row)
  <2> DEFINE row == [was EXCEPT !.images = @ \cup {IF Public(a) THEN "seen" ELSE "unseen"}]
  <2>1. /\ row \in Article
        /\ row.state = was.state
        /\ row.images = was.images \cup {IF Public(a) THEN "seen" ELSE "unseen"}
    BY <1>2 DEF Article, Image
  <2>2. Write(a, row) /\ was.state # "gone"
    BY <1>8 DEF CreateImage, Exists
  <2>3. was.state = "public" => row.images = was.images \cup {"seen"}
    BY <2>1 DEF Public
  <2> QED BY <1>3, <2>1, <2>2, <2>3 DEF Writes
<1>9. ASSUME ArticleGone(a)
      PROVE  \E row \in Article : Writes(a, row)
  BY <1>4, <1>9 DEF ArticleGone, Writes
<1> QED BY <1>1, <1>5, <1>6, <1>7, <1>8, <1>9

-----------------------------------------------------------------------------
(* The type invariant. *)

\* A handler that is about to read of an article has one.
TypeInv ==
  /\ TypeOK
  /\ req.pc \in {"related_tags", "related_rows", "related_fetch", "image"} =>
       req.article \in ArticleIds

\* No request is a request.
LEMMA IdleTyped == Idle \in Request
BY DEF Idle, Request, PC

\* A limit is a number.
LEMMA LimitTyped == TypeOK => req.limit \in Nat
<1>1. TypeOK => req.limit \in Limits \cup {0}
  BY DEF TypeOK, Request
<1>2. \A limit \in Limits \cup {0} : limit \in Nat
  BY SiteConstants
<1> QED BY <1>1, <1>2

\* A list of what was fetched is one of articles.
LEMMA FetchedTyped ==
  ASSUME NEW ids \in SetToSeqs(Fetched), TypeOK
  PROVE  /\ ids \in Seq(ArticleIds)
         /\ IsInjective(ids)
         /\ ToSet(ids) = Fetched
         /\ Len(ids) = Cardinality(Fetched)
         /\ DOMAIN ids = 1 .. Len(ids)
<1>1. req.ids \in Seq(ArticleIds)
  BY DEF TypeOK, Request
<1>2. Fetched \in SUBSET ArticleIds
  BY <1>1 DEF Fetched, ToSet
<1>3. IsFiniteSet(Fetched)
  BY <1>2, SiteConstants, FS_Subset
<1>4. ids \in Seq(Fetched)
  BY <1>3, ListOfASet
<1>5. ids \in Seq(ArticleIds)
  BY <1>2, <1>4
<1> QED BY <1>3, <1>5, ListOfASet

\* The candidates are articles, finitely many.
LEMMA CandidatesTyped == Candidates \in SUBSET ArticleIds /\ IsFiniteSet(Candidates)
<1>1. Candidates \in SUBSET ArticleIds
  BY DEF Candidates
<1> QED BY <1>1, SiteConstants, FS_Subset

\* A ranking that was cut is a list of candidates, of limit or fewer.
LEMMA RankedTyped ==
  ASSUME NEW ids \in RankedIds, req.limit \in Nat
  PROVE  /\ ids \in Seq(Candidates)
         /\ Len(ids) <= req.limit
<1>1. PICK any \in SetToSeqs(Candidates) : Ranked(any) /\ ids = Cut(any)
  BY DEF RankedIds
<1>2. any \in Seq(Candidates)
  BY CandidatesTyped, ListOfASet
<1>3. /\ ids \in Seq(Candidates)
      /\ Len(ids) = IF req.limit <= Len(any) THEN req.limit ELSE Len(any)
      /\ \A i \in 1 .. Len(ids) : ids[i] = any[i]
  BY <1>1, <1>2, CutTaken
<1>4. Len(any) \in Nat /\ Len(ids) \in Nat
  BY <1>2, <1>3
<1>5. Len(ids) <= req.limit
  BY <1>3, <1>4
<1> QED BY <1>3, <1>5

\* A write keeps what is typed.
LEMMA WriteTyped ==
  ASSUME TypeInv, NEW a \in ArticleIds, NEW row \in Article, Writes(a, row)
  PROVE  TypeInv'
<1>1. articles' = [articles EXCEPT ![a] = row] /\ (row.state = "gone" => row = Gone)
  BY DEF Writes, Write
<1>2. articles' \in [ArticleIds -> Article]
  BY <1>1 DEF TypeInv, TypeOK
<1>3. \A b \in ArticleIds : (~ Exists(b) => articles[b] = Gone)'
  BY <1>1 DEF TypeInv, TypeOK, Exists
<1>4. req' \in Request /\ req'.pc = req.pc /\ req'.article = req.article
  <2>1. CASE req.pc \in {"idle", "done"}
    BY <2>1 DEF Writes, Write, TypeInv, TypeOK
  <2>2. CASE req.pc \notin {"idle", "done"}
    <3>1. req' = [req EXCEPT !.quiet = FALSE,
                             !.withdrawn = @ \/ (a = req.article /\ row.state # "public")]
      BY <2>2 DEF Writes, Write
    <3>2. (req.withdrawn \/ (a = req.article /\ row.state # "public")) \in BOOLEAN
      OBVIOUS
    <3> QED BY <3>1, <3>2, Zenon DEF TypeInv, TypeOK, Request
  <2> QED BY <2>1, <2>2
<1> QED BY <1>2, <1>3, <1>4 DEF TypeInv, TypeOK

\* The first statement of a request.
LEMMA RequestsTyped ==
  ASSUME TypeInv, Requests
  PROVE  TypeInv'
<1>1. articles' = articles
  BY DEF Requests, FindTagged, FindPublishedBySlug
<1>2. ASSUME NEW t \in TagIds, FindTagged(t)
      PROVE  TypeInv'
  <2> DEFINE tagged == {a \in ArticleIds : t \in articles[a].tags}
  <2>1. PICK ids \in SetToSeqs(tagged) :
          req' = [Idle EXCEPT !.pc = IF ids = <<>> THEN "done" ELSE "list_fetch",
                              !.tags = {t}, !.ids = ids]
    BY <1>2 DEF FindTagged
  <2>2. tagged \in SUBSET ArticleIds /\ IsFiniteSet(tagged)
    BY SiteConstants, FS_Subset
  <2>3. ids \in Seq(ArticleIds)
    <3>1. ids \in Seq(tagged)
      BY <2>2, ListOfASet
    <3> QED BY <2>2, <3>1
  <2>4. req' \in Request /\ req'.pc \in {"done", "list_fetch"}
    BY <2>1, <2>3, IdleTyped DEF Request, PC, Idle
  <2> QED BY <1>1, <2>4 DEF TypeInv, TypeOK, Exists
<1>3. ASSUME NEW a \in ArticleIds, NEW pc \in PC, NEW limit \in Limits \cup {0},
             FindPublishedBySlug(a, pc, limit)
      PROVE  TypeInv'
  <2>1. req' = [Idle EXCEPT !.pc = pc, !.article = a, !.limit = limit]
    BY <1>3 DEF FindPublishedBySlug
  <2>2. req' \in Request /\ req'.article = a
    BY <2>1, IdleTyped DEF Request, PC, Idle
  <2> QED BY <1>1, <2>2 DEF TypeInv, TypeOK, Exists
<1>4. {"related_tags", "image"} \subseteq PC
  BY DEF PC
<1> QED BY <1>2, <1>3, <1>4 DEF Requests

\* The statements that follow.
LEMMA HandlerTyped ==
  ASSUME TypeInv, Handler
  PROVE  TypeInv'
<1>1. articles' = articles
  BY DEF Handler, ListFetch, RelatedTags, RelatedNotFound, RelatedRows, RelatedFetch,
         ReadImage, ImageNotFound, Answer, Respond
<1>2. req \in Request /\ articles \in [ArticleIds -> Article]
  BY DEF TypeInv, TypeOK
<1> SUFFICES /\ req' \in Request
             /\ req'.pc # "idle" => req'.article = req.article
             /\ req'.pc = "related_rows" => req.pc = "related_tags"
             /\ req'.pc = "related_fetch" => req.pc = "related_rows"
             /\ req'.pc \notin {"related_tags", "image"}
  BY <1>1, <1>2 DEF TypeInv, TypeOK, Exists
<1>3. CASE ListFetch
  <2>1. PICK ids \in SetToSeqs(Fetched) : req' = [req EXCEPT !.pc = "done", !.ids = ids]
    BY <1>3 DEF ListFetch
  <2>2. ids \in Seq(ArticleIds)
    BY FetchedTyped DEF TypeInv
  <2> QED BY <1>2, <1>3, <2>1, <2>2 DEF ListFetch, Request, PC
<1>4. CASE RelatedTags
  <2> DEFINE tags == articles[req.article].tags
  <2>1. req.pc = "related_tags"
    BY <1>4 DEF RelatedTags
  <2>2. tags \in SUBSET TagIds
    BY <1>2, <2>1 DEF TypeInv, Article
  <2>3. req' = [req EXCEPT !.pc = IF tags = {} THEN "done" ELSE "related_rows",
                           !.tags = tags]
    BY <1>4 DEF RelatedTags
  <2> QED BY <1>2, <2>1, <2>2, <2>3 DEF Request, PC
<1>5. CASE RelatedRows
  <2>1. req.pc = "related_rows"
    BY <1>5 DEF RelatedRows
  <2>2. PICK ids \in RankedIds :
          req' = [req EXCEPT !.pc = IF ids = <<>> THEN "done" ELSE "related_fetch", !.ids = ids]
    BY <1>5 DEF RelatedRows
  <2>3. req.limit \in Nat
    BY LimitTyped DEF TypeInv
  <2>4. ids \in Seq(ArticleIds)
    <3>1. ids \in Seq(Candidates) /\ Candidates \in SUBSET ArticleIds
      BY <2>3, RankedTyped, CandidatesTyped
    <3> QED BY <3>1
  <2> QED BY <1>2, <2>1, <2>2, <2>4 DEF Request, PC
<1>6. CASE RelatedFetch
  <2>1. PICK ids \in SetToSeqs(Fetched) : req' = [req EXCEPT !.pc = "done", !.ids = ids]
    BY <1>6 DEF RelatedFetch
  <2>2. ids \in Seq(ArticleIds)
    BY FetchedTyped DEF TypeInv
  <2> QED BY <1>2, <1>6, <2>1, <2>2 DEF RelatedFetch, Request, PC
<1>7. CASE ReadImage
  <2>1. PICK image \in articles[req.article].images :
          req' = [req EXCEPT !.pc = "done", !.image = image]
    BY <1>7 DEF ReadImage
  <2>2. req.pc = "image" /\ image \in Image
    BY <1>2, <1>7 DEF ReadImage, TypeInv, Article
  <2> QED BY <1>2, <2>1, <2>2 DEF Request, PC
<1>8. CASE RelatedNotFound \/ ImageNotFound \/ Answer
  <2>1. req' = Idle
    BY <1>8 DEF RelatedNotFound, ImageNotFound, Answer, Respond
  <2> QED BY <2>1, IdleTyped DEF Idle
<1> QED BY <1>3, <1>4, <1>5, <1>6, <1>7, <1>8 DEF Handler

\* The type invariant is inductive.
LEMMA TypeNext ==
  ASSUME TypeInv, [Next]_vars
  PROVE  TypeInv'
<1>1. CASE Editors
  BY <1>1, EditorsWrite, WriteTyped DEF TypeInv
<1>2. CASE UNCHANGED vars
  BY <1>2 DEF vars, TypeInv, TypeOK, Exists
<1> QED BY <1>1, <1>2, RequestsTyped, HandlerTyped DEF Next

\* ... and holds at first.
LEMMA TypeInit == Init => TypeInv
BY IdleTyped DEF Init, TypeInv, TypeOK, Draft, Article, Image, Exists, Idle

\* Requests, lists and rows have their types; nothing is read of an article
\* that is gone (migrations 000006:6-12, 000008:11-17).
THEOREM SiteTyped == Spec => []TypeOK
<1>1. TypeInv => TypeOK
  BY DEF TypeInv
<1> QED BY <1>1, TypeInit, TypeNext, PTL DEF Spec

-----------------------------------------------------------------------------
(* Images. *)

\* The handler that is about to read an image knows that its article is public,
\* unless it was withdrawn; and nothing of a public article is unseen.
ShownInv ==
  /\ PublicSeen
  /\ req.pc = "image" /\ ~ req.withdrawn => Public(req.article)
  /\ ImageWasShown

\* A step of a reader changes no article.
LEMMA ReadersOnlyRead ==
  Requests \/ Handler => articles' = articles
BY DEF Requests, FindTagged, FindPublishedBySlug,
       Handler, ListFetch, RelatedTags, RelatedNotFound, RelatedRows, RelatedFetch,
       ReadImage, ImageNotFound, Answer, Respond

\* A request for an image finds its article public.
LEMMA RequestsShown ==
  ASSUME ShownInv, Requests
  PROVE  ShownInv'
<1>1. articles' = articles /\ PublicSeen'
  BY ReadersOnlyRead DEF ShownInv, PublicSeen, Public
<1>2. None # "unseen"
  BY SiteConstants DEF Image
<1>3. CASE \E t \in TagIds : FindTagged(t)
  <2>1. req'.pc # "image" /\ req'.image = None
    BY <1>3 DEF FindTagged, Idle
  <2> QED BY <1>1, <1>2, <2>1 DEF ShownInv, ImageWasShown
<1>4. ASSUME NEW a \in ArticleIds, NEW pc, NEW limit, FindPublishedBySlug(a, pc, limit)
      PROVE  ShownInv'
  <2>1. Public(a) /\ req'.article = a /\ req'.image = None
    BY <1>4 DEF FindPublishedBySlug, Idle
  <2> QED BY <1>1, <1>2, <2>1 DEF ShownInv, ImageWasShown, Public
<1> QED BY <1>3, <1>4 DEF Requests

\* The image that is read is seen, or the article was withdrawn.
LEMMA HandlerShown ==
  ASSUME TypeInv, ShownInv, Handler
  PROVE  ShownInv'
<1>1. articles' = articles /\ PublicSeen'
  BY ReadersOnlyRead DEF ShownInv, PublicSeen, Public
<1>2. None # "unseen"
  BY SiteConstants DEF Image
<1> SUFFICES req'.pc # "image" /\ (req'.image = "unseen" => req'.withdrawn)
  BY <1>1 DEF ShownInv, ImageWasShown
<1>3. req \in Request
  BY DEF TypeInv, TypeOK
<1>4. CASE ReadImage
  <2>1. PICK image \in articles[req.article].images :
          req' = [req EXCEPT !.pc = "done", !.image = image]
    BY <1>4 DEF ReadImage
  <2>2. req.pc = "image" /\ req.article \in ArticleIds
    BY <1>4 DEF ReadImage, TypeInv
  <2>3. ~ req.withdrawn => image = "seen"
    BY <2>2 DEF ShownInv, PublicSeen
  <2> QED BY <1>3, <2>1, <2>3 DEF Request
<1>5. CASE ListFetch \/ RelatedTags \/ RelatedRows \/ RelatedFetch
  <2>1. /\ req'.pc \in {"done", "related_rows", "related_fetch"}
        /\ req'.image = req.image
        /\ req'.withdrawn = req.withdrawn
    BY <1>3, <1>5 DEF Request, ListFetch, RelatedTags, RelatedRows, RelatedFetch
  <2> QED BY <2>1 DEF ShownInv, ImageWasShown
<1>6. CASE RelatedNotFound \/ ImageNotFound \/ Answer
  BY <1>2, <1>6 DEF RelatedNotFound, ImageNotFound, Answer, Respond, Idle
<1> QED BY <1>4, <1>5, <1>6 DEF Handler

\* An editor who hides an article withdraws it.
LEMMA WriteShown ==
  ASSUME TypeInv, ShownInv, NEW a \in ArticleIds, NEW row \in Article, Writes(a, row)
  PROVE  ShownInv'
<1>1. articles' = [articles EXCEPT ![a] = row] /\ articles \in [ArticleIds -> Article]
  BY DEF Writes, Write, TypeInv, TypeOK
<1>2. PublicSeen'
  BY <1>1 DEF Writes, ShownInv, PublicSeen, Public
<1>3. CASE req.pc \in {"idle", "done"}
  <2>1. req' = req
    BY <1>3 DEF Writes, Write
  <2> QED BY <1>2, <1>3, <2>1 DEF ShownInv, ImageWasShown
<1>4. CASE req.pc \notin {"idle", "done"}
  <2> DEFINE gone == a = req.article /\ row.state # "public"
  <2>1. req' = [req EXCEPT !.quiet = FALSE, !.withdrawn = @ \/ gone]
    BY <1>4 DEF Writes, Write
  <2>2. /\ req'.pc = req.pc
        /\ req'.article = req.article
        /\ req'.image = req.image
        /\ req'.withdrawn <=> req.withdrawn \/ gone
    BY <2>1, Zenon DEF TypeInv, TypeOK, Request
  <2>3. ImageWasShown'
    BY <2>2 DEF ShownInv, ImageWasShown
  <2>4. ASSUME req'.pc = "image", ~ req'.withdrawn
        PROVE  Public(req.article)'
    <3>1. Public(req.article) /\ req.article \in ArticleIds /\ ~ gone
      BY <2>2, <2>4 DEF ShownInv, TypeInv
    <3> QED BY <1>1, <2>2, <3>1 DEF Public
  <2> QED BY <1>2, <2>3, <2>4 DEF ShownInv
<1> QED BY <1>3, <1>4

\* The invariant of images is inductive.
LEMMA ShownNext ==
  ASSUME TypeInv, ShownInv, [Next]_vars
  PROVE  ShownInv'
<1>1. CASE Editors
  BY <1>1, EditorsWrite, WriteShown DEF TypeInv
<1>2. CASE UNCHANGED vars
  BY <1>2 DEF vars, ShownInv, PublicSeen, Public, ImageWasShown
<1> QED BY <1>1, <1>2, RequestsShown, HandlerShown DEF Next

\* ... and holds at first.
LEMMA ShownInit == Init => ShownInv
<1>1. None # "unseen"
  BY SiteConstants DEF Image
<1> QED BY <1>1 DEF Init, ShownInv, PublicSeen, Public, ImageWasShown, Draft, Idle

\* An image that has never been on a public article is served only if the
\* article was unpublished between the look at it and the read of the image
\* (public-media.controller.ts:8-9, 17-18).
THEOREM ImagesShown == Spec => []ImageWasShown
<1>1. ShownInv => ImageWasShown
  BY DEF ShownInv
<1> QED BY <1>1, TypeInit, TypeNext, ShownInit, ShownNext, PTL DEF Spec

-----------------------------------------------------------------------------
(* Related articles. *)

\* What a handler holds between two of its reads: only the related articles
\* have a limit, and a ranking is within it and leaves the article itself out.
HeldInv ==
  /\ req.pc \in {"list_fetch", "image"} => req.limit = 0
  /\ req.pc = "related_tags" => req.tags = {} /\ req.ids = <<>>
  /\ req.pc = "related_fetch" =>
       Len(req.ids) <= req.limit /\ req.article \notin ToSet(req.ids)

\* HeldInv is inductive.
LEMMA HeldNext ==
  ASSUME TypeInv, HeldInv, [Next]_vars
  PROVE  HeldInv'
<1>1. req \in Request
  BY DEF TypeInv, TypeOK
<1>2. ASSUME NEW t \in TagIds, FindTagged(t)
      PROVE  HeldInv'
  <2>1. req'.pc \in {"done", "list_fetch"} /\ req'.limit = 0
    BY <1>2 DEF FindTagged, Idle
  <2> QED BY <2>1 DEF HeldInv
<1>3. ASSUME NEW a \in ArticleIds, NEW limit, FindPublishedBySlug(a, "related_tags", limit)
      PROVE  HeldInv'
  BY <1>3 DEF FindPublishedBySlug, HeldInv, Idle
<1>4. ASSUME NEW a \in ArticleIds, FindPublishedBySlug(a, "image", 0)
      PROVE  HeldInv'
  BY <1>4 DEF FindPublishedBySlug, HeldInv, Idle
<1>5. CASE RelatedRows
  <2>1. PICK ids \in RankedIds :
          req' = [req EXCEPT !.pc = IF ids = <<>> THEN "done" ELSE "related_fetch", !.ids = ids]
    BY <1>5 DEF RelatedRows
  <2>2. ids \in Seq(Candidates) /\ Len(ids) <= req.limit
    BY LimitTyped, RankedTyped DEF TypeInv
  <2>3. req.article \notin ToSet(ids)
    <3>1. req.article \notin Candidates
      BY DEF Candidates
    <3>2. ToSet(ids) \subseteq Candidates
      BY <2>2 DEF ToSet
    <3> QED BY <3>1, <3>2
  <2>4. /\ req'.pc \in {"done", "related_fetch"}
        /\ req'.ids = ids
        /\ req'.limit = req.limit
        /\ req'.article = req.article
    BY <1>1, <2>1 DEF Request
  <2> QED BY <2>2, <2>3, <2>4 DEF HeldInv
<1>6. CASE ListFetch \/ RelatedTags \/ RelatedFetch \/ ReadImage
  <2>1. req'.pc \in {"done", "related_rows"}
    BY <1>1, <1>6 DEF Request, ListFetch, RelatedTags, RelatedFetch, ReadImage
  <2> QED BY <2>1 DEF HeldInv
<1>7. CASE RelatedNotFound \/ ImageNotFound \/ Answer
  BY <1>7 DEF RelatedNotFound, ImageNotFound, Answer, Respond, Idle, HeldInv
<1>8. CASE Editors
  <2>1. PICK a \in ArticleIds, row \in Article : Write(a, row)
    BY <1>8, EditorsWrite DEF TypeInv, Writes
  <2>2. /\ req'.pc = req.pc
        /\ req'.limit = req.limit
        /\ req'.tags = req.tags
        /\ req'.ids = req.ids
        /\ req'.article = req.article
    BY <1>1, <2>1 DEF Write, Request
  <2> QED BY <2>2 DEF HeldInv
<1>9. CASE UNCHANGED vars
  BY <1>9 DEF vars, HeldInv
<1> QED BY <1>2, <1>3, <1>4, <1>5, <1>6, <1>7, <1>8, <1>9 DEF Next, Requests, Handler

\* ... and holds at first.
LEMMA HeldInit == Init => HeldInv
BY DEF Init, HeldInv, Idle

\* The steps that answer with related articles: the article has no tags, no
\* article shares one, or those found have been fetched.
LEMMA AnswersRelated ==
  ASSUME TypeInv, HeldInv, Next, Answers, req.limit > 0
  PROVE  \/ RelatedTags /\ req.tags = {} /\ req'.ids = <<>>
         \/ RelatedRows /\ req'.ids = <<>> /\ <<>> \in RankedIds
         \/ RelatedFetch
<1>1. req \in Request
  BY DEF TypeInv, TypeOK
<1>2. req # Idle
  BY DEF Idle
<1>3. ~ Requests
  BY <1>2 DEF Requests, FindTagged, FindPublishedBySlug
<1>4. ~ Editors
  <2>1. \A a, row : Write(a, row) => req'.pc = req.pc
    BY <1>1 DEF Write, Request
  <2>2. Editors => req'.pc = req.pc
    BY <2>1, EditorsWrite DEF TypeInv, Writes
  <2> QED BY <2>2 DEF Answers
<1>5. ~ ListFetch /\ ~ ReadImage
  <2>1. req.limit # 0
    <3>1. req.limit \in Nat
      BY LimitTyped DEF TypeInv
    <3> QED BY <3>1
  <2> QED BY <2>1 DEF HeldInv, ListFetch, ReadImage
<1>6. ~ RelatedNotFound /\ ~ ImageNotFound /\ ~ Answer
  BY DEF RelatedNotFound, ImageNotFound, Answer, Respond, Answers, Idle
<1>7. CASE RelatedTags
  BY <1>1, <1>7 DEF RelatedTags, HeldInv, Request
<1>8. CASE RelatedRows
  BY <1>1, <1>8 DEF RelatedRows, Request, Answers
<1> QED BY <1>3, <1>4, <1>5, <1>6, <1>7, <1>8 DEF Next, Handler

\* What was fetched is no longer than the ids that were asked for.
LEMMA FetchedFew ==
  ASSUME TypeOK
  PROVE  Cardinality(Fetched) \in Nat /\ Cardinality(Fetched) <= Len(req.ids)
<1> DEFINE n == Len(req.ids)
           all == ToSet(req.ids)
<1>1. req.ids \in Seq(ArticleIds)
  BY DEF TypeOK, Request
<1>2. n \in Nat /\ DOMAIN req.ids = 1 .. n /\ req.ids \in [1 .. n -> all]
  BY <1>1 DEF ToSet
<1>3. req.ids \in Surjection(1 .. n, all)
  BY <1>2 DEF Surjection, ToSet
<1>4. IsFiniteSet(1 .. n)
  BY <1>2, FS_Interval
<1>5. IsFiniteSet(all)
  BY <1>3, <1>4, FS_Surjection
<1>6. Cardinality(all) <= n
  BY <1>2, <1>3, FS_SurjCardinalityBound DEF ExistsSurjection
<1>7. Fetched \in SUBSET all
  BY DEF Fetched
<1>8. IsFiniteSet(Fetched) /\ Cardinality(Fetched) <= Cardinality(all)
  BY <1>5, <1>7, FS_Subset
<1> QED BY <1>2, <1>5, <1>6, <1>8, FS_CardinalityType

\* However editors interfere, related articles are public when they are read,
\* at most limit of them, each once, and never the article itself
\* (articles.service.ts:141-162).
THEOREM RelatedAreSound == Spec => RelatedSound
<1> DEFINE Sound == Answers /\ req.limit > 0 =>
                      /\ IsInjective(req'.ids)
                      /\ Len(req'.ids) <= req.limit
                      /\ \A a \in ToSet(req'.ids) : a # req.article /\ Public(a)
<1>1. ASSUME TypeInv, HeldInv, Next, Answers, req.limit > 0
      PROVE  /\ IsInjective(req'.ids)
             /\ Len(req'.ids) <= req.limit
             /\ \A a \in ToSet(req'.ids) : a # req.article /\ Public(a)
  <2>1. req.limit \in Nat
    BY <1>1, LimitTyped DEF TypeInv
  <2>2. CASE req'.ids = <<>>
    <3>1. Len(req'.ids) = 0 /\ DOMAIN req'.ids = {}
      BY <2>2
    <3> QED BY <2>1, <3>1 DEF IsInjective, ToSet
  <2>3. CASE RelatedFetch
    <3>1. PICK ids \in SetToSeqs(Fetched) : req' = [req EXCEPT !.pc = "done", !.ids = ids]
      BY <2>3 DEF RelatedFetch
    <3>2. req'.ids = ids
      BY <1>1, <3>1 DEF TypeInv, TypeOK, Request
    <3>3. IsInjective(ids) /\ ToSet(ids) = Fetched /\ Len(ids) = Cardinality(Fetched)
      BY <1>1, FetchedTyped DEF TypeInv
    <3>4. Len(req.ids) <= req.limit /\ req.article \notin ToSet(req.ids)
      BY <1>1, <2>3 DEF RelatedFetch, HeldInv
    <3>5. Len(ids) <= req.limit
      <4>1. Cardinality(Fetched) \in Nat /\ Cardinality(Fetched) <= Len(req.ids)
        BY <1>1, FetchedFew DEF TypeInv
      <4>2. Len(req.ids) \in Nat
        BY <1>1 DEF TypeInv, TypeOK, Request
      <4> QED BY <2>1, <3>3, <3>4, <4>1, <4>2
    <3>6. \A a \in Fetched : a # req.article /\ Public(a)
      BY <3>4 DEF Fetched
    <3> QED BY <3>2, <3>3, <3>5, <3>6
  <2> QED BY <1>1, <2>2, <2>3, AnswersRelated
<1>2. TypeInv /\ HeldInv /\ [Next]_vars => [Sound]_vars
  BY <1>1
<1> QED BY <1>2, TypeInit, TypeNext, HeldInit, HeldNext, PTL DEF Spec, RelatedSound

-----------------------------------------------------------------------------
(* Readers who are left alone. *)

\* The articles of the tag that the list is of.
Tagged == {a \in ArticleIds : req.tags \subseteq articles[a].tags}

\* As long as nobody writes, what a handler holds is still so.
QuietInv ==
  req.quiet =>
    /\ req.pc = "list_fetch" => ToSet(req.ids) = Tagged
    /\ req.pc = "related_fetch" => req.ids \in RankedIds

\* QuietInv is inductive: a read changes nothing, a write ends the quiet.
LEMMA QuietNext ==
  ASSUME TypeInv, QuietInv, [Next]_vars
  PROVE  QuietInv'
<1>1. req \in Request
  BY DEF TypeInv, TypeOK
<1>2. ASSUME NEW t \in TagIds, FindTagged(t)
      PROVE  QuietInv'
  <2> DEFINE tagged == {a \in ArticleIds : t \in articles[a].tags}
  <2>1. PICK ids \in SetToSeqs(tagged) :
          req' = [Idle EXCEPT !.pc = IF ids = <<>> THEN "done" ELSE "list_fetch",
                              !.tags = {t}, !.ids = ids]
    BY <1>2 DEF FindTagged
  <2>2. IsFiniteSet(tagged)
    <3>1. tagged \in SUBSET ArticleIds
      OBVIOUS
    <3> QED BY <3>1, SiteConstants, FS_Subset
  <2>3. ToSet(ids) = tagged
    BY <2>2, ListOfASet
  <2>4. req'.pc \in {"done", "list_fetch"} /\ req'.tags = {t} /\ req'.ids = ids
    BY <2>1 DEF Idle
  <2>5. articles' = articles
    BY <1>2 DEF FindTagged
  <2>6. Tagged' = tagged
    BY <2>4, <2>5 DEF Tagged
  <2> QED BY <2>3, <2>4, <2>6 DEF QuietInv
<1>3. ASSUME NEW a, NEW pc \in {"related_tags", "image"}, NEW limit,
             FindPublishedBySlug(a, pc, limit)
      PROVE  QuietInv'
  BY <1>3 DEF FindPublishedBySlug, QuietInv, Idle
<1>4. CASE RelatedRows
  <2>1. PICK ids \in RankedIds :
          req' = [req EXCEPT !.pc = IF ids = <<>> THEN "done" ELSE "related_fetch", !.ids = ids]
    BY <1>4 DEF RelatedRows
  <2>2. /\ req'.pc \in {"done", "related_fetch"}
        /\ req'.ids = ids
        /\ req'.limit = req.limit
        /\ req'.tags = req.tags
        /\ req'.article = req.article
    BY <1>1, <2>1 DEF Request
  <2>3. articles' = articles
    BY <1>4 DEF RelatedRows
  <2>4. RankedIds' = RankedIds
    BY <2>2, <2>3 DEF RankedIds, Ranked, Cut, Candidates, Score
  <2> QED BY <2>1, <2>2, <2>4 DEF QuietInv
<1>5. CASE ListFetch \/ RelatedTags \/ RelatedFetch \/ ReadImage
  <2>1. req'.pc \in {"done", "related_rows"}
    BY <1>1, <1>5 DEF Request, ListFetch, RelatedTags, RelatedFetch, ReadImage
  <2> QED BY <2>1 DEF QuietInv
<1>6. CASE RelatedNotFound \/ ImageNotFound \/ Answer
  BY <1>6 DEF RelatedNotFound, ImageNotFound, Answer, Respond, Idle, QuietInv
<1>7. CASE Editors
  <2>1. PICK a \in ArticleIds, row \in Article : Write(a, row)
    BY <1>7, EditorsWrite DEF TypeInv, Writes
  <2>2. CASE req.pc \in {"idle", "done"}
    BY <2>1, <2>2 DEF Write, QuietInv
  <2>3. CASE req.pc \notin {"idle", "done"}
    <3>1. ~ req'.quiet
      BY <1>1, <2>1, <2>3, Zenon DEF Write, Request
    <3> QED BY <3>1 DEF QuietInv
  <2> QED BY <2>2, <2>3
<1>8. CASE UNCHANGED vars
  BY <1>8 DEF vars, QuietInv, Tagged, RankedIds, Ranked, Cut, Candidates, Score
<1> QED BY <1>2, <1>3, <1>4, <1>5, <1>6, <1>7, <1>8 DEF Next, Requests, Handler

\* ... and holds at first.
LEMMA QuietInit == Init => QuietInv
BY DEF Init, QuietInv, Idle

\* A score is a number.
LEMMA ScoreTyped == TypeOK => \A a \in ArticleIds : Score(a) \in Nat
<1> SUFFICES ASSUME TypeOK, NEW a \in ArticleIds
             PROVE  Score(a) \in Nat
  OBVIOUS
<1>1. articles[a].tags \cap req.tags \in SUBSET TagIds
  BY DEF TypeOK, Article
<1>2. IsFiniteSet(articles[a].tags \cap req.tags)
  BY <1>1, SiteConstants, FS_Subset
<1> QED BY <1>2, FS_CardinalityType DEF Score

\* The first p - 1 of a ranking are the only ones that can outrank the p-th.
LEMMA FewOutrank ==
  ASSUME TypeOK, NEW any \in SetToSeqs(Candidates), Ranked(any), NEW p \in DOMAIN any
  PROVE  Cardinality(Outranking(any[p])) \in Nat /\ Cardinality(Outranking(any[p])) < p
<1> DEFINE first == {any[j] : j \in 1 .. p - 1}
           f == [j \in 1 .. p - 1 |-> any[j]]
<1>1. /\ any \in Seq(Candidates)
      /\ DOMAIN any = 1 .. Len(any)
      /\ Len(any) \in Nat
      /\ ToSet(any) = Candidates
  BY CandidatesTyped, ListOfASet
<1>2. p \in Nat /\ p - 1 \in Nat /\ \A j \in 1 .. p - 1 : j \in DOMAIN any
  BY <1>1
<1>3. any[p] \in ArticleIds
  BY <1>1, CandidatesTyped
<1>4. Outranking(any[p]) \in SUBSET first
  <2> SUFFICES ASSUME NEW other \in Candidates, Score(other) > Score(any[p])
               PROVE  other \in first
    BY DEF Outranking
  <2>1. PICK q \in DOMAIN any : other = any[q]
    BY <1>1 DEF ToSet
  <2>2. Score(any[p]) \in Nat /\ Score(any[q]) \in Nat
    BY <1>3, <2>1, ScoreTyped, CandidatesTyped
  <2>3. ~ (p <= q)
    <3>1. SUFFICES ASSUME p <= q PROVE FALSE
      OBVIOUS
    <3>2. CASE p = q
      BY <2>1, <2>2, <3>2
    <3>3. CASE p < q
      <4>1. Score(any[p]) >= Score(any[q])
        BY <3>3 DEF Ranked
      <4> QED BY <2>1, <2>2, <4>1
    <3> QED BY <1>1, <3>1, <3>2, <3>3
  <2>4. q \in 1 .. p - 1
    BY <1>1, <2>3
  <2> QED BY <2>1, <2>4
<1>5. f \in Surjection(1 .. p - 1, first)
  BY DEF Surjection
<1>6. IsFiniteSet(1 .. p - 1)
  BY <1>2, FS_Interval
<1>7. IsFiniteSet(first)
  BY <1>5, <1>6, FS_Surjection
<1>8. Cardinality(first) <= p - 1
  BY <1>2, <1>5, FS_SurjCardinalityBound DEF ExistsSurjection
<1>9. /\ IsFiniteSet(Outranking(any[p]))
      /\ Cardinality(Outranking(any[p])) <= Cardinality(first)
  BY <1>4, <1>7, FS_Subset
<1> HIDE DEF first, f
<1> QED BY <1>2, <1>7, <1>8, <1>9, FS_CardinalityType

\* Those that come before the p-th of a ranking rank at least as high.
LEMMA ManyRankAlike ==
  ASSUME TypeOK, NEW any \in SetToSeqs(Candidates), Ranked(any), NEW p \in DOMAIN any,
         NEW n \in Nat, n < p
  PROVE  Cardinality(RankingAlike(any[p])) >= n
<1> DEFINE f == [j \in 1 .. n |-> any[j]]
           alike == RankingAlike(any[p])
<1>1. /\ any \in Seq(Candidates)
      /\ DOMAIN any = 1 .. Len(any)
      /\ Len(any) \in Nat
      /\ IsInjective(any)
  BY CandidatesTyped, ListOfASet
<1>2. \A j \in 1 .. n : j \in DOMAIN any /\ j < p
  BY <1>1
<1>3. \A j \in 1 .. n : any[j] \in alike
  BY <1>1, <1>2 DEF RankingAlike, Ranked, IsInjective
<1>4. f \in Injection(1 .. n, alike)
  BY <1>1, <1>2, <1>3 DEF Injection, IsInjective
<1>5. alike \in SUBSET Candidates
  BY DEF RankingAlike
<1>6. IsFiniteSet(alike)
  BY <1>5, CandidatesTyped, FS_Subset
<1> HIDE DEF f, alike
<1>7. Cardinality(1 .. n) <= Cardinality(alike)
  BY <1>4, <1>6, FS_Injection
<1>8. Cardinality(1 .. n) = n
  BY FS_Interval
<1>9. Cardinality(alike) \in Nat
  BY <1>6, FS_CardinalityType
<1>10. Cardinality(alike) >= n
  BY <1>7, <1>8, <1>9
<1> QED BY <1>10 DEF alike

\* A ranking that was cut is ranked; fewer than limit outrank one that is in
\* it, and at least limit rank as high as a candidate that is not.
LEMMA CutRanks ==
  ASSUME TypeOK, NEW ids \in RankedIds
  PROVE  /\ Ranked(ids)
         /\ \A a \in ToSet(ids) : Cardinality(Outranking(a)) < req.limit
         /\ \A a \in Candidates \ ToSet(ids) : Cardinality(RankingAlike(a)) >= req.limit
<1>1. PICK any \in SetToSeqs(Candidates) : Ranked(any) /\ ids = Cut(any)
  BY DEF RankedIds
<1>2. /\ any \in Seq(Candidates)
      /\ DOMAIN any = 1 .. Len(any)
      /\ Len(any) \in Nat
      /\ ToSet(any) = Candidates
  BY CandidatesTyped, ListOfASet
<1>3. req.limit \in Nat
  BY LimitTyped
<1>4. /\ ids \in Seq(Candidates)
      /\ Len(ids) = IF req.limit <= Len(any) THEN req.limit ELSE Len(any)
      /\ \A i \in 1 .. Len(ids) : ids[i] = any[i]
  BY <1>1, <1>2, <1>3, CutTaken
<1>5. Len(ids) \in Nat /\ DOMAIN ids = 1 .. Len(ids) /\ Len(ids) <= Len(any)
  BY <1>2, <1>3, <1>4
<1>6. Ranked(ids)
  BY <1>1, <1>2, <1>4, <1>5 DEF Ranked
<1>7. ASSUME NEW a \in ToSet(ids)
      PROVE  Cardinality(Outranking(a)) < req.limit
  <2>1. PICK p \in 1 .. Len(ids) : a = ids[p]
    BY <1>5 DEF ToSet
  <2>2. p \in DOMAIN any /\ a = any[p] /\ p \in Nat /\ p <= req.limit
    BY <1>2, <1>3, <1>4, <1>5, <2>1
  <2>3. Cardinality(Outranking(a)) \in Nat /\ Cardinality(Outranking(a)) < p
    BY <1>1, <2>2, FewOutrank
  <2> QED BY <1>3, <2>2, <2>3
<1>8. ASSUME NEW a \in Candidates \ ToSet(ids)
      PROVE  Cardinality(RankingAlike(a)) >= req.limit
  <2>1. PICK p \in DOMAIN any : a = any[p]
    BY <1>2 DEF ToSet
  <2>2. p \notin 1 .. Len(ids)
    BY <1>4, <1>5, <2>1 DEF ToSet
  <2>3. req.limit < p
    BY <1>2, <1>3, <1>4, <1>5, <2>2
  <2> QED BY <1>1, <1>3, <2>1, <2>3, ManyRankAlike
<1> QED BY <1>6, <1>7, <1>8

\* What remains of a ranking, in its order, is ranked.
LEMMA RankedStill ==
  ASSUME Ranked(req.ids), NEW ids,
         \A i, j \in DOMAIN ids : i < j => Before(ids[i], ids[j], req.ids)
  PROVE  Ranked(ids)
<1> SUFFICES ASSUME NEW i \in DOMAIN ids, NEW j \in DOMAIN ids, i < j
             PROVE  Score(ids[i]) >= Score(ids[j])
  BY DEF Ranked
<1>1. PICK p, q \in DOMAIN req.ids :
        p < q /\ req.ids[p] = ids[i] /\ req.ids[q] = ids[j]
  BY DEF Before
<1>2. Score(req.ids[p]) >= Score(req.ids[q])
  BY <1>1 DEF Ranked
<1> QED BY <1>1, <1>2

\* The answer of a handler that was left alone, to a list by tag.
LEMMA QuietList ==
  ASSUME TypeInv, QuietInv, Next, Answers, req.quiet, req.pc = "list_fetch"
  PROVE  ToSet(req'.ids) = {a \in ArticleIds : Public(a) /\ req.tags \subseteq articles[a].tags}
<1>1. req \in Request /\ req # Idle
  BY DEF TypeInv, TypeOK, Idle
<1>2. ~ Requests
  BY <1>1 DEF Requests, FindTagged, FindPublishedBySlug
<1>3. ~ Editors
  <2>1. \A a, row : Write(a, row) => req'.pc = req.pc
    BY <1>1 DEF Write, Request
  <2>2. Editors => req'.pc = req.pc
    BY <2>1, EditorsWrite DEF TypeInv, Writes
  <2> QED BY <2>2 DEF Answers
<1>4. ListFetch
  BY <1>2, <1>3 DEF Next, Handler, RelatedTags, RelatedNotFound, RelatedRows, RelatedFetch,
                    ReadImage, ImageNotFound, Answer
<1>5. PICK ids \in SetToSeqs(Fetched) : req' = [req EXCEPT !.pc = "done", !.ids = ids]
  BY <1>4 DEF ListFetch
<1>6. req'.ids = ids
  BY <1>1, <1>5 DEF Request
<1>7. ToSet(ids) = Fetched
  BY FetchedTyped DEF TypeInv
<1>8. ToSet(req.ids) = Tagged
  BY DEF QuietInv
<1> QED BY <1>6, <1>7, <1>8 DEF Fetched, Tagged

\* The answer of a handler that was left alone, to a request for an article.
LEMMA QuietRelated ==
  ASSUME TypeInv, HeldInv, QuietInv, Next, Answers, req.quiet, req.limit > 0
  PROVE  /\ Ranked(req'.ids)
         /\ \A a \in ToSet(req'.ids) : Cardinality(Outranking(a)) < req.limit
         /\ \A a \in Candidates \ ToSet(req'.ids) :
              Public(a) => Cardinality(RankingAlike(a)) >= req.limit
<1>1. TypeOK /\ req \in Request
  BY DEF TypeInv, TypeOK
<1>2. CASE RelatedTags /\ req.tags = {} /\ req'.ids = <<>>
  <2>1. ToSet(req'.ids) = {} /\ DOMAIN req'.ids = {}
    BY <1>2 DEF ToSet
  <2>2. \A a : Score(a) = 0
    BY <1>2, FS_EmptySet DEF Score
  <2>3. Candidates = {}
    BY <2>2 DEF Candidates
  <2> QED BY <2>1, <2>3 DEF Ranked
<1>3. CASE RelatedRows /\ req'.ids = <<>> /\ <<>> \in RankedIds
  BY <1>1, <1>3, CutRanks
<1>4. CASE RelatedFetch
  <2>1. PICK ids \in SetToSeqs(Fetched) :
          /\ \A i, j \in DOMAIN ids : i < j => Before(ids[i], ids[j], req.ids)
          /\ req' = [req EXCEPT !.pc = "done", !.ids = ids]
    BY <1>4 DEF RelatedFetch
  <2>2. req'.ids = ids
    BY <1>1, <2>1 DEF Request
  <2>3. ToSet(ids) = Fetched
    BY <1>1, FetchedTyped
  <2>4. req.ids \in RankedIds
    BY <1>4 DEF RelatedFetch, QuietInv
  <2>5. Ranked(ids)
    BY <1>1, <2>1, <2>4, CutRanks, RankedStill
  <2>6. ASSUME NEW a \in Fetched
        PROVE  Cardinality(Outranking(a)) < req.limit
    <3>1. a \in ToSet(req.ids)
      BY DEF Fetched
    <3> QED BY <1>1, <2>4, <3>1, CutRanks
  <2>7. ASSUME NEW a \in Candidates \ Fetched, Public(a)
        PROVE  Cardinality(RankingAlike(a)) >= req.limit
    <3>1. a \notin ToSet(req.ids)
      BY <2>7 DEF Fetched
    <3> QED BY <1>1, <2>4, <3>1, CutRanks
  <2> QED BY <2>2, <2>3, <2>5, <2>6, <2>7
<1> QED BY <1>2, <1>3, <1>4, AnswersRelated

\* If nobody writes meanwhile, a list by tag is the public articles of the tag;
\* related articles come by the number of tags they share, and one that is
\* public is missing only if limit others, drafts among them, share as many
\* (articles.service.ts:113-128, 135-162).
THEOREM QuietReadsAreExact == Spec => QuietReadsExact
<1> DEFINE Exact ==
      Answers /\ req.quiet =>
        LET shown == ToSet(req'.ids)
        IN  /\ req.pc = "list_fetch" =>
                 shown = {a \in ArticleIds : Public(a) /\ req.tags \subseteq articles[a].tags}
            /\ req.limit > 0 =>
                 /\ Ranked(req'.ids)
                 /\ \A a \in shown : Cardinality(Outranking(a)) < req.limit
                 /\ \A a \in Candidates \ shown :
                      Public(a) => Cardinality(RankingAlike(a)) >= req.limit
<1>1. ASSUME TypeInv, HeldInv, QuietInv, Next
      PROVE  Exact
  BY <1>1, QuietList, QuietRelated
<1>2. TypeInv /\ HeldInv /\ QuietInv /\ [Next]_vars => [Exact]_vars
  BY <1>1
<1> QED BY <1>2, TypeInit, TypeNext, HeldInit, HeldNext, QuietInit, QuietNext, PTL
        DEF Spec, QuietReadsExact

=============================================================================
