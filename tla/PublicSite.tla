----------------------------- MODULE PublicSite -----------------------------
(***************************************************************************)
(* The public controllers: lists of articles, an article with its related  *)
(* ones, and its image.  A handler reads in several statements, with no    *)
(* transaction around them, while editors go on changing what it reads.    *)
(*                                                                         *)
(* Readers change nothing, so that one of them at a time is as good as     *)
(* many.  Writes are those of Articles, TagSync and MediaStore, of which   *)
(* a reader cannot tell more than the row that has changed.                *)
(***************************************************************************)
EXTENDS Naturals, FiniteSets, Sequences, SequencesExt

CONSTANTS ArticleIds,  \* articles.id; a slug stands for its article
          TagIds,      \* tags.id
          Limits,      \* the limits that findRelated may be given
          None

\* An image is "unseen" until its article has been public with it.
Image == {"unseen", "seen"}

ASSUME SiteConstants ==
  /\ None \notin ArticleIds \cup Image
  /\ IsFiniteSet(ArticleIds)
  /\ IsFiniteSet(TagIds)
  /\ Limits \subseteq Nat \ {0}

VARIABLES articles,  \* of each article, what the public handlers read of it
          req        \* the handler that is reading

vars == <<articles, req>>

\* images: of the images that it has by the side of each other, the kinds.
Article == [state : {"gone", "draft", "public"}, tags : SUBSET TagIds,
            images : SUBSET Image]

Draft == [state |-> "draft", tags |-> {}, images |-> {}]

Gone == [Draft EXCEPT !.state = "gone"]

PC == {"idle", "list_fetch", "related_tags", "related_rows", "related_fetch", "image", "done"}

\* tags and ids are what the handler has read, ids in the order it has given
\* them.  quiet is history: nothing was written since the first statement; so
\* is withdrawn: the article asked for is public no more.
Request == [pc : PC, article : ArticleIds \cup {None}, limit : Limits \cup {0},
            tags : SUBSET TagIds, ids : Seq(ArticleIds), image : Image \cup {None},
            quiet : BOOLEAN, withdrawn : BOOLEAN]

Idle == [pc |-> "idle", article |-> None, limit |-> 0, tags |-> {}, ids |-> <<>>,
         image |-> None, quiet |-> TRUE, withdrawn |-> FALSE]

Exists(a) == articles[a].state # "gone"

Public(a) == articles[a].state = "public"

Init ==
  /\ articles = [a \in ArticleIds |-> Draft]
  /\ req = Idle

-----------------------------------------------------------------------------
(* GET /public/articles *)

\* findPublished looks the articles of a tag up first.  (Without a tag it is a
\* single statement.)
FindTagged(t) ==
  LET tagged == {a \in ArticleIds : t \in articles[a].tags}
  IN  /\ req = Idle
      /\ \E ids \in SetToSeqs(tagged) :
           req' = [Idle EXCEPT !.pc = IF ids = <<>> THEN "done" ELSE "list_fetch",
                               !.tags = {t}, !.ids = ids]
      /\ UNCHANGED articles

\* The rows of a SELECT by ids, with published = true.
Fetched == {a \in ToSet(req.ids) : Public(a)}

\* The newest first, which may be any order.
ListFetch ==
  /\ req.pc = "list_fetch"
  /\ \E ids \in SetToSeqs(Fetched) : req' = [req EXCEPT !.pc = "done", !.ids = ids]
  /\ UNCHANGED articles

-----------------------------------------------------------------------------
(* GET /public/articles/:slug *)

\* Mutant: findBySlug, whether published or not.
FindAnyBySlug(a, pc, limit) ==
  /\ req = Idle
  /\ Exists(a)
  /\ req' = [Idle EXCEPT !.pc = pc, !.article = a, !.limit = limit]
  /\ UNCHANGED articles

FindPublishedBySlug(a, pc, limit) ==
  /\ req = Idle
  /\ Public(a)
  /\ req' = [Idle EXCEPT !.pc = pc, !.article = a, !.limit = limit]
  /\ UNCHANGED articles

Respond == req' = Idle /\ UNCHANGED articles

\* findById, which does not look at published.
RelatedTags ==
  LET a == req.article
  IN  /\ req.pc = "related_tags"
      /\ Exists(a)
      /\ req' = [req EXCEPT !.pc = IF articles[a].tags = {} THEN "done" ELSE "related_rows",
                            !.tags = articles[a].tags]
      /\ UNCHANGED articles

RelatedNotFound ==
  /\ req.pc = "related_tags"
  /\ ~ Exists(req.article)
  /\ Respond

Score(a) == Cardinality(articles[a].tags \cap req.tags)

\* Mutant: the article asked for is not left out.
CandidatesAndItself == {a \in ArticleIds : Score(a) > 0}

Candidates == {a \in ArticleIds \ {req.article} : Score(a) > 0}

\* slice(0, limit).
Cut(ids) == SubSeq(ids, 1, Min({req.limit, Len(ids)}))

\* Mutant: the first of the rows, in any order.
CutUnranked == {Cut(ids) : ids \in SetToSeqs(Candidates)}

\* Sorted by score, with ties in the order the rows came in, and cut.
Ranked(ids) == \A i, j \in DOMAIN ids : i < j => Score(ids[i]) >= Score(ids[j])

RankedIds ==
  {Cut(ids) : ids \in {any \in SetToSeqs(Candidates) : Ranked(any)}}

RelatedRows ==
  /\ req.pc = "related_rows"
  /\ \E ids \in RankedIds :
       req' = [req EXCEPT !.pc = IF ids = <<>> THEN "done" ELSE "related_fetch", !.ids = ids]
  /\ UNCHANGED articles

\* x comes before y in the list.
Before(x, y, list) ==
  \E i, j \in DOMAIN list : i < j /\ list[i] = x /\ list[j] = y

\* Drafts are dropped from the ranking after the cut; the others keep its order.
RelatedFetch ==
  /\ req.pc = "related_fetch"
  /\ \E ids \in SetToSeqs(Fetched) :
       /\ \A i, j \in DOMAIN ids : i < j => Before(ids[i], ids[j], req.ids)
       /\ req' = [req EXCEPT !.pc = "done", !.ids = ids]
  /\ UNCHANGED articles

-----------------------------------------------------------------------------
(* GET /public/articles/:slug/image *)

\* findOne: one of the article's images, if it has any.
ReadImage ==
  /\ req.pc = "image"
  /\ \E image \in articles[req.article].images :
       req' = [req EXCEPT !.pc = "done", !.image = image]
  /\ UNCHANGED articles

ImageNotFound ==
  /\ req.pc = "image"
  /\ articles[req.article].images = {}
  /\ Respond

Answer == req.pc = "done" /\ Respond

-----------------------------------------------------------------------------
(* The editors. *)

Write(a, row) ==
  /\ row # articles[a]
  /\ articles' = [articles EXCEPT ![a] = row]
  /\ req' = IF req.pc \in {"idle", "done"} THEN req
            ELSE [req EXCEPT !.quiet = FALSE,
                             !.withdrawn = @ \/ (a = req.article /\ row.state # "public")]

\* A statement of a handler of Articles.
SetPublished(a, published) ==
  /\ Exists(a)
  /\ Write(a, [articles[a] EXCEPT
                 !.state = IF published THEN "public" ELSE "draft",
                 !.images = IF published /\ @ # {} THEN {"seen"} ELSE @])

\* A statement of syncTags.
SetTags(a, tags) == Exists(a) /\ Write(a, [articles[a] EXCEPT !.tags = tags])

\* A statement of MediaService.
RemoveImages(a, images) == Write(a, [articles[a] EXCEPT !.images = images])

CreateImage(a) ==
  /\ Exists(a)
  /\ Write(a, [articles[a] EXCEPT !.images = @ \cup {IF Public(a) THEN "seen" ELSE "unseen"}])

\* Mutant: article_tags and media without ON DELETE CASCADE.
ArticleGoneKeepingLinks(a) == Write(a, [articles[a] EXCEPT !.state = "gone"])

\* DELETE FROM articles, which cascades to article_tags and media.
ArticleGone(a) == Write(a, Gone)

Requests ==
  \/ \E t \in TagIds : FindTagged(t)
  \/ \E a \in ArticleIds : \/ \E limit \in Limits : FindPublishedBySlug(a, "related_tags", limit)
                           \/ FindPublishedBySlug(a, "image", 0)

Handler ==
  \/ ListFetch
  \/ RelatedTags
  \/ RelatedNotFound
  \/ RelatedRows
  \/ RelatedFetch
  \/ ReadImage
  \/ ImageNotFound
  \/ Answer

Editors ==
  \E a \in ArticleIds :
    \/ \E published \in BOOLEAN : SetPublished(a, published)
    \/ \E tags \in SUBSET TagIds : SetTags(a, tags)
    \/ \E images \in SUBSET articles[a].images : RemoveImages(a, images)
    \/ CreateImage(a)
    \/ ArticleGone(a)

Next == Requests \/ Handler \/ Editors

Spec == Init /\ [][Next]_vars

-----------------------------------------------------------------------------
\* What is read of an article, and what a handler holds of it: nothing is read
\* of an article that is gone (migrations 000006:6-12, 000008:11-17).
TypeOK ==
  /\ articles \in [ArticleIds -> Article]
  /\ \A a \in ArticleIds : ~ Exists(a) => articles[a] = Gone
  /\ req \in Request

\* The handler has read what it answers.
Answers == req.pc # "done" /\ req'.pc = "done"

\* However editors interfere, related articles are public when they are read,
\* at most limit of them, each once, and never the article itself
\* (articles.service.ts:141-162).
RelatedSound ==
  [][Answers /\ req.limit > 0 =>
       /\ IsInjective(req'.ids)
       /\ Len(req'.ids) <= req.limit
       /\ \A a \in ToSet(req'.ids) : a # req.article /\ Public(a)]_vars

Outranking(a) == {other \in Candidates : Score(other) > Score(a)}

RankingAlike(a) == {other \in Candidates \ {a} : Score(other) >= Score(a)}

\* If nobody writes meanwhile, a list by tag is the public articles of the tag;
\* related articles come by the number of tags they share, and one that is
\* public is missing only if limit others, drafts among them, share as many
\* (articles.service.ts:113-128, 135-162).
QuietReadsExact ==
  [][Answers /\ req.quiet =>
       LET shown == ToSet(req'.ids)
       IN  /\ req.pc = "list_fetch" =>
                shown = {a \in ArticleIds : Public(a) /\ req.tags \subseteq articles[a].tags}
           /\ req.limit > 0 =>
                /\ Ranked(req'.ids)
                /\ \A a \in shown : Cardinality(Outranking(a)) < req.limit
                /\ \A a \in Candidates \ shown :
                     Public(a) => Cardinality(RankingAlike(a)) >= req.limit]_vars

\* An image that has never been on a public article is served only if the
\* article was unpublished between the look at it and the read of the image
\* (public-media.controller.ts:8-9, 17-18).
ImageWasShown == req.image = "unseen" => req.withdrawn

=============================================================================
