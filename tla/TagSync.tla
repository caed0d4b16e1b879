------------------------------ MODULE TagSync -------------------------------
(***************************************************************************)
(* ArticlesService.syncTags: TagsService.findOrCreateMany, and $set of     *)
(* Sequelize, which looks at the article's links and then deletes and      *)
(* inserts the difference.  Several updates of one article may be at it.   *)
(***************************************************************************)
EXTENDS Naturals, FiniteSets

CONSTANTS ArticleIds,  \* articles.id
          Spellings,   \* the names clients write
          TagNames,    \* tags.name; a name stands for its tag
          normalize,   \* trim, lower case: [Spellings -> TagNames \cup {None}]
          Slots,       \* bound: how many updates are in flight at a time
          None

\* None is what is left of a blank.
ASSUME TagConstants ==
  /\ None \notin ArticleIds \cup TagNames
  /\ normalize \in [Spellings -> TagNames \cup {None}]

VARIABLES stored,  \* the ids in the articles table
          tags,    \* the tags table
          links,   \* the article_tags table
          reqs,    \* the update running in each slot
          burst    \* history: of each article, the updates that overlap by now

tableVars == <<stored, tags, links>>
vars == <<tableVars, reqs, burst>>

PC == {"idle", "tags_create", "tags_read", "tags_write"}

\* names is the list of tags that the request comes to, missing and obsolete the
\* difference $set has found, failed whether its INSERT was refused.
Request == [pc : PC, article : ArticleIds \cup {None}, names : SUBSET TagNames,
            missing : SUBSET TagNames, obsolete : SUBSET TagNames, failed : BOOLEAN]

Idle == [pc |-> "idle", article |-> None, names |-> {}, missing |-> {}, obsolete |-> {},
         failed |-> FALSE]

\* What all and what some of the overlapping updates ask for.
Burst == [all : SUBSET TagNames, some : SUBSET TagNames, failed : BOOLEAN]

NoBurst == [all |-> {}, some |-> {}, failed |-> FALSE]

Respond(s) == reqs' = [reqs EXCEPT ![s] = Idle]

TagsOf(a) == {name \in TagNames : <<a, name>> \in links}

\* The updates between $set's look and its end.
Syncing(a) == {s \in Slots : reqs[s].pc = "tags_write" /\ reqs[s].article = a}

\* An update joins those of the article that are at it.
Joined(a, names) ==
  IF Syncing(a) = {} THEN [all |-> names, some |-> names, failed |-> FALSE]
  ELSE [burst[a] EXCEPT !.all = @ \cap names, !.some = @ \cup names]

Init ==
  /\ stored = ArticleIds
  /\ tags = {}
  /\ links = {}
  /\ reqs = [s \in Slots |-> Idle]
  /\ burst = [a \in ArticleIds |-> NoBurst]

-----------------------------------------------------------------------------
\* Mutant: names are taken as they are written.
uniqueAsWritten(given) == given

\* Spellings of one name make one tag, and blanks none.
unique(given) == {normalize[name] : name \in given} \ {None}

\* create and update come to syncTags with their row written.
syncTags(s, a, given) ==
  /\ reqs[s] = Idle
  /\ reqs' = [reqs EXCEPT ![s] = [Idle EXCEPT !.pc = "tags_create", !.article = a,
                                              !.names = unique(given)]]
  /\ UNCHANGED <<tableVars, burst>>

\* One findOrCreate for each name.  Nothing deletes a tag, so the order in which
\* they are answered cannot be told.
findOrCreateMany(s) ==
  /\ reqs[s].pc = "tags_create"
  /\ tags' = tags \cup reqs[s].names
  /\ reqs' = [reqs EXCEPT ![s].pc = "tags_read"]
  /\ UNCHANGED <<stored, links, burst>>

\* Mutant: $add instead of $set.
TagsReadToAdd(s) ==
  LET r == reqs[s]
      a == r.article
  IN  /\ r.pc = "tags_read"
      /\ reqs' = [reqs EXCEPT ![s].pc = "tags_write", ![s].missing = r.names \ TagsOf(a)]
      /\ burst' = [burst EXCEPT ![a] = Joined(a, r.names)]
      /\ UNCHANGED tableVars

\* $set looks at the links that the article has.
TagsRead(s) ==
  LET r == reqs[s]
      a == r.article
  IN  /\ r.pc = "tags_read"
      /\ reqs' = [reqs EXCEPT ![s].pc = "tags_write",
                              ![s].missing = r.names \ TagsOf(a),
                              ![s].obsolete = TagsOf(a) \ r.names]
      /\ burst' = [burst EXCEPT ![a] = Joined(a, r.names)]
      /\ UNCHANGED tableVars

\* The DELETE and the INSERT are sent at once, and the database may take them
\* in either order.
Destroy(s) ==
  LET r == reqs[s]
  IN  /\ r.pc = "tags_write"
      /\ r.obsolete # {}
      /\ links' = links \ ({r.article} \X r.obsolete)
      /\ reqs' = [reqs EXCEPT ![s].obsolete = {}]
      /\ UNCHANGED <<stored, tags, burst>>

\* Mutant: article_tags without its foreign key on articleId.
ReferencesAnything(a) == TRUE

\* The foreign key on article_tags.articleId.
References(a) == a \in stored

BulkCreate(s) ==
  LET r == reqs[s]
  IN  /\ r.pc = "tags_write"
      /\ r.missing # {}
      /\ References(r.article)
      /\ r.missing \cap TagsOf(r.article) = {}
      /\ links' = links \cup ({r.article} \X r.missing)
      /\ reqs' = [reqs EXCEPT ![s].missing = {}]
      /\ UNCHANGED <<stored, tags, burst>>

\* The whole INSERT fails: another update has linked one of the tags meanwhile
\* (the primary key), or the article is gone (the foreign key).
BulkCreateFails(s) ==
  LET r == reqs[s]
  IN  /\ r.pc = "tags_write"
      /\ r.missing # {}
      /\ ~ References(r.article) \/ r.missing \cap TagsOf(r.article) # {}
      /\ reqs' = [reqs EXCEPT ![s].missing = {}, ![s].failed = TRUE]
      /\ burst' = [burst EXCEPT ![r.article].failed = TRUE]
      /\ UNCHANGED tableVars

\* Both are answered: the handler goes on, or ends in an error.
SetDone(s) ==
  LET r == reqs[s]
  IN  /\ r.pc = "tags_write"
      /\ r.missing = {} /\ r.obsolete = {}
      /\ Respond(s)
      /\ burst' = [burst EXCEPT ![r.article] = IF Syncing(r.article) = {s} THEN NoBurst ELSE @]
      /\ UNCHANGED tableVars

-----------------------------------------------------------------------------
\* DELETE FROM articles, which cascades to article_tags.
ArticleGone(a) ==
  /\ a \in stored
  /\ stored' = stored \ {a}
  /\ links' = {link \in links : link[1] # a}
  /\ UNCHANGED <<tags, reqs, burst>>

\* A statement is refused, or the process ends: no more of this handler.
HandlerDies(s) ==
  /\ reqs[s] # Idle
  /\ Respond(s)
  /\ burst' = [a \in ArticleIds |-> CASE Syncing(a) = {s} -> NoBurst
                                      [] s \in Syncing(a) -> [burst[a] EXCEPT !.failed = TRUE]
                                      [] OTHER -> burst[a]]
  /\ UNCHANGED tableVars

Handlers ==
  \E s \in Slots :
    \/ \E a \in ArticleIds, given \in SUBSET Spellings : syncTags(s, a, given)
    \/ findOrCreateMany(s)
    \/ TagsRead(s)
    \/ Destroy(s)
    \/ BulkCreate(s)
    \/ BulkCreateFails(s)
    \/ SetDone(s)

Environment == (\E a \in ArticleIds : ArticleGone(a)) \/ (\E s \in Slots : HandlerDies(s))

Next == Handlers \/ Environment

Spec == Init /\ [][Next]_vars

-----------------------------------------------------------------------------
\* Every variable holds what its table or local variable may hold; a tag is a
\* normalised name (tags.service.ts:5-7).
TypeOK ==
  /\ stored \subseteq ArticleIds
  /\ tags \subseteq TagNames
  /\ links \subseteq ArticleIds \X TagNames
  /\ reqs \in [Slots -> Request]
  /\ burst \in [ArticleIds -> Burst]

\* However a $set races with a removal of its article, no link is left behind,
\* and each link is to a tag in the table.
LinksIntact == \A link \in links : link[1] \in stored /\ link[2] \in tags

\* When overlapping updates of an article's tags are over, and none failed, it
\* has every tag that all of them asked for and none that nobody asked for; it
\* may be a mixture of their lists (articles.service.ts:170-173).
TagsSettle ==
  [][\A a \in ArticleIds : \A s \in Slots :
       /\ a \in stored /\ ~ burst[a].failed
       /\ Syncing(a) = {s} /\ Syncing(a)' = {}
       /\ reqs[s].missing = {} /\ reqs[s].obsolete = {}
       => burst[a].all \subseteq TagsOf(a) /\ TagsOf(a) \subseteq burst[a].some]_vars

=============================================================================
