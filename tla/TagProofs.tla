----------------------------- MODULE TagProofs ------------------------------
(***************************************************************************)
(* What TLAPS proves of TagSync, for any numbers of articles, tags,        *)
(* spellings and updates in flight.                                        *)
(***************************************************************************)
EXTENDS TagSync, TLAPS

\* The tags that a $set is to link are in the table, whatever other updates do
\* meanwhile: nothing deletes a tag.
RequestOK(r) ==
  /\ r.pc # "idle" => r.article \in ArticleIds
  /\ r.pc \in {"tags_read", "tags_write"} => r.names \subseteq tags
  /\ r.missing \subseteq r.names
  /\ r.pc # "tags_write" => r.missing = {}

\* The inductive invariant.
TInv ==
  /\ TypeOK
  /\ \A s \in Slots : RequestOK(reqs[s])
  /\ LinksIntact

-----------------------------------------------------------------------------
USE TagConstants

\* A slot with no update in it.
LEMMA IdleOK == Idle \in Request /\ RequestOK(Idle)
BY DEF Idle, Request, PC, RequestOK

\* The tables after the statement of one update: articles stay, no tag goes, and
\* the links are intact.
LEMMA StatementStep ==
  ASSUME TInv, NEW s \in Slots, NEW r \in Request, reqs' = [reqs EXCEPT ![s] = r],
         stored' = stored, tags' \subseteq TagNames, tags \subseteq tags',
         links' \subseteq ArticleIds \X TagNames,
         \A link \in links' : link \in links \/ (link[1] \in stored /\ link[2] \in tags'),
         burst' \in [ArticleIds -> Burst],
         RequestOK(r)'
  PROVE  TInv'
<1>1. TypeOK'
  BY DEF TInv, TypeOK
<1>2. \A q \in Slots : RequestOK(reqs[q])'
  <2> TAKE q \in Slots
  <2>1. CASE q = s
    BY <2>1 DEF TInv, TypeOK, RequestOK
  <2>2. CASE q # s
    <3>1. reqs'[q] = reqs[q] /\ RequestOK(reqs[q])
      BY <2>2 DEF TInv, TypeOK
    <3>2. QED BY <3>1 DEF RequestOK
  <2>3. QED BY <2>1, <2>2
<1>3. LinksIntact'
  BY DEF TInv, LinksIntact
<1>4. QED BY <1>1, <1>2, <1>3 DEF TInv

\* How an update begins.
LEMMA BeginStep ==
  ASSUME TInv, NEW s \in Slots, NEW a \in ArticleIds, NEW given \in SUBSET Spellings,
         syncTags(s, a, given)
  PROVE  TInv'
<1> DEFINE r == [Idle EXCEPT !.pc = "tags_create", !.article = a, !.names = unique(given)]
<1>1. unique(given) \subseteq TagNames
  BY DEF unique
<1>2. r \in Request
  BY <1>1 DEF Idle, Request, PC
<1>3. r.pc = "tags_create" /\ r.article = a /\ r.missing = {}
  BY DEF Idle
<1>4. reqs' = [reqs EXCEPT ![s] = r] /\ UNCHANGED <<stored, tags, links, burst>>
  BY DEF syncTags, tableVars
<1> HIDE DEF r
<1>5. RequestOK(r)'
  BY <1>3 DEF RequestOK
<1>6. QED BY <1>2, <1>4, <1>5, StatementStep DEF TInv, TypeOK

\* The statements of an update.
LEMMA SetStep ==
  ASSUME TInv, NEW s \in Slots,
         \/ findOrCreateMany(s) \/ TagsRead(s) \/ Destroy(s) \/ BulkCreate(s)
         \/ BulkCreateFails(s) \/ SetDone(s)
  PROVE  TInv'
<1> PICK q \in Request : q = reqs[s]
  BY DEF TInv, TypeOK
<1>1. /\ q.names \subseteq TagNames /\ q.missing \subseteq q.names /\ RequestOK(q)
      /\ reqs \in [Slots -> Request] /\ q \in Request
  BY DEF TInv, TypeOK, RequestOK, Request
<1>2. CASE findOrCreateMany(s)
  <2> DEFINE r == [q EXCEPT !.pc = "tags_read"]
  <2>1. /\ q.pc = "tags_create" /\ q.article \in ArticleIds /\ q.missing = {}
    BY <1>1, <1>2 DEF findOrCreateMany, RequestOK
  <2>2. r \in Request
    BY DEF Request, PC
  <2>3. r.pc = "tags_read" /\ r.article = q.article /\ r.missing = {} /\ r.names = q.names
    BY <2>1 DEF Request
  <2>4. /\ reqs' = [reqs EXCEPT ![s] = r] /\ tags' = tags \cup q.names
        /\ UNCHANGED <<stored, links, burst>>
    BY <1>1, <1>2 DEF findOrCreateMany
  <2> HIDE DEF r
  <2>5. RequestOK(r)'
    BY <2>1, <2>3, <2>4 DEF RequestOK
  <2>6. QED BY <1>1, <2>2, <2>4, <2>5, StatementStep DEF TInv, TypeOK
<1>3. CASE TagsRead(s)
  <2> PICK a \in ArticleIds : a = q.article
    BY <1>1, <1>3 DEF TagsRead, RequestOK
  <2>1. PICK old \in SUBSET TagNames : old = TagsOf(a)
    BY DEF TagsOf
  <2> DEFINE r == [q EXCEPT !.pc = "tags_write", !.missing = q.names \ old,
                            !.obsolete = old \ q.names]
  <2>2. r \in Request
    BY <1>1 DEF Request, PC
  <2>3. /\ r.pc = "tags_write" /\ r.article = a /\ r.names = q.names
        /\ r.missing \subseteq q.names
    BY DEF Request
  <2>4. q.names \subseteq tags
    BY <1>1, <1>3 DEF TagsRead, RequestOK
  <2>5. reqs' = [reqs EXCEPT ![s] = r] /\ UNCHANGED <<stored, tags, links>>
    BY <1>1, <1>3, <2>1 DEF TagsRead, tableVars
  <2>6. burst' \in [ArticleIds -> Burst]
    <3>1. burst \in [ArticleIds -> Burst] /\ burst[a] \in Burst
      BY DEF TInv, TypeOK
    <3>2. Joined(a, q.names) \in Burst
      BY <1>1, <3>1 DEF Joined, Burst
    <3>3. burst' = [burst EXCEPT ![a] = Joined(a, q.names)]
      BY <1>3 DEF TagsRead
    <3>4. QED BY <3>1, <3>2, <3>3
  <2> HIDE DEF r
  <2>7. RequestOK(r)'
    BY <2>3, <2>4, <2>5 DEF RequestOK
  <2>8. QED BY <2>2, <2>5, <2>6, <2>7, StatementStep DEF TInv, TypeOK
<1>4. CASE Destroy(s)
  <2> DEFINE r == [q EXCEPT !.obsolete = {}]
  <2>1. r \in Request
    BY DEF Request
  <2>2. r.pc = q.pc /\ r.article = q.article /\ r.missing = q.missing /\ r.names = q.names
    BY DEF Request
  <2>3. /\ reqs' = [reqs EXCEPT ![s] = r] /\ links' \subseteq links
        /\ UNCHANGED <<stored, tags, burst>>
    BY <1>1, <1>4 DEF Destroy
  <2> HIDE DEF r
  <2>4. RequestOK(r)'
    BY <1>1, <2>2, <2>3 DEF RequestOK
  <2>5. QED BY <2>1, <2>3, <2>4, StatementStep DEF TInv, TypeOK
<1>5. CASE BulkCreate(s)
  <2> PICK a \in ArticleIds : a = q.article
    BY <1>1, <1>5 DEF BulkCreate, RequestOK
  <2> DEFINE r == [q EXCEPT !.missing = {}]
  <2>1. r \in Request
    BY DEF Request
  <2>2. r.pc = q.pc /\ r.article = q.article /\ r.missing = {} /\ r.names = q.names
    BY DEF Request
  <2>3. /\ reqs' = [reqs EXCEPT ![s] = r] /\ links' = links \cup ({a} \X q.missing)
        /\ a \in stored /\ q.missing \subseteq tags
        /\ UNCHANGED <<stored, tags, burst>>
    BY <1>1, <1>5 DEF BulkCreate, References, RequestOK
  <2> HIDE DEF r
  <2>4. RequestOK(r)'
    BY <1>1, <2>2, <2>3 DEF RequestOK
  <2>5. links' \subseteq ArticleIds \X TagNames
    BY <1>1, <2>3 DEF TInv, TypeOK
  <2>6. \A link \in links' : link \in links \/ (link[1] \in stored /\ link[2] \in tags')
    BY <2>3
  <2>7. QED BY <2>1, <2>3, <2>4, <2>5, <2>6, StatementStep DEF TInv, TypeOK
<1>6. CASE BulkCreateFails(s)
  <2> PICK a \in ArticleIds : a = q.article
    BY <1>1, <1>6 DEF BulkCreateFails, RequestOK
  <2> DEFINE r == [q EXCEPT !.missing = {}, !.failed = TRUE]
  <2>1. r \in Request
    BY DEF Request
  <2>2. r.pc = q.pc /\ r.article = q.article /\ r.missing = {} /\ r.names = q.names
    BY DEF Request
  <2>3. reqs' = [reqs EXCEPT ![s] = r] /\ UNCHANGED <<stored, tags, links>>
    BY <1>1, <1>6 DEF BulkCreateFails, tableVars
  <2>4. burst' \in [ArticleIds -> Burst]
    BY <1>6 DEF BulkCreateFails, TInv, TypeOK, Burst
  <2> HIDE DEF r
  <2>5. RequestOK(r)'
    BY <1>1, <2>2, <2>3 DEF RequestOK
  <2>6. QED BY <2>1, <2>3, <2>4, <2>5, StatementStep DEF TInv, TypeOK
<1>7. CASE SetDone(s)
  <2>1. reqs' = [reqs EXCEPT ![s] = Idle] /\ UNCHANGED <<stored, tags, links>>
    BY <1>7 DEF SetDone, Respond, tableVars
  <2>2. burst' \in [ArticleIds -> Burst]
    BY <1>7 DEF SetDone, TInv, TypeOK, Burst, NoBurst
  <2>3. RequestOK(Idle)'
    BY DEF Idle, RequestOK
  <2>4. QED BY <2>1, <2>2, <2>3, IdleOK, StatementStep DEF TInv, TypeOK
<1>8. QED BY <1>2, <1>3, <1>4, <1>5, <1>6, <1>7

\* An update that ends in an error.
LEMMA HandlerDiesStep ==
  ASSUME TInv, NEW s \in Slots, HandlerDies(s)
  PROVE  TInv'
<1>1. reqs' = [reqs EXCEPT ![s] = Idle] /\ UNCHANGED <<stored, tags, links>>
  BY DEF HandlerDies, Respond, tableVars
<1>2. burst' \in [ArticleIds -> Burst]
  BY DEF HandlerDies, TInv, TypeOK, Burst, NoBurst
<1>3. RequestOK(Idle)'
  BY DEF Idle, RequestOK
<1>4. QED BY <1>1, <1>2, <1>3, IdleOK, StatementStep DEF TInv, TypeOK

\* A removal of an article takes its links along.
LEMMA ArticleGoneStep ==
  ASSUME TInv, NEW a \in ArticleIds, ArticleGone(a)
  PROVE  TInv'
<1>1. /\ stored' = stored \ {a} /\ UNCHANGED <<tags, reqs, burst>>
      /\ links' = {link \in links : link[1] # a}
  BY DEF ArticleGone
<1>2. TypeOK'
  BY <1>1 DEF TInv, TypeOK
<1>3. LinksIntact'
  BY <1>1 DEF TInv, LinksIntact
<1>4. QED BY <1>1, <1>2, <1>3 DEF TInv, RequestOK

\* The invariant holds for as long as the system runs.
LEMMA TInvHolds == Spec => []TInv
<1>1. Init => TInv
  <2> SUFFICES ASSUME Init PROVE TInv
    OBVIOUS
  <2>1. TypeOK
    BY IdleOK DEF Init, TypeOK, Burst, NoBurst
  <2>2. QED BY <2>1, IdleOK DEF Init, TInv, LinksIntact
<1>2. TInv /\ [Next]_vars => TInv'
  <2> SUFFICES ASSUME TInv, [Next]_vars PROVE TInv'
    OBVIOUS
  <2>1. CASE Handlers
    BY <2>1, BeginStep, SetStep DEF Handlers
  <2>2. CASE Environment
    BY <2>2, ArticleGoneStep, HandlerDiesStep DEF Environment
  <2>3. CASE UNCHANGED vars
    BY <2>3 DEF vars, tableVars, TInv, TypeOK, RequestOK, LinksIntact
  <2>4. QED BY <2>1, <2>2, <2>3 DEF Next
<1>3. QED BY <1>1, <1>2, PTL DEF Spec

-----------------------------------------------------------------------------
\* Every variable holds what its table or local variable may hold; in
\* particular only normalised names become tags (tags.service.ts:5-7).
THEOREM TagsTyped == Spec => []TypeOK
BY TInvHolds, PTL DEF TInv

\* However a $set races with other updates and with a removal of its article, a
\* link is to an article and a tag that are there (articles.service.ts:170-173).
THEOREM LinksKept == Spec => []LinksIntact
BY TInvHolds, PTL DEF TInv

-----------------------------------------------------------------------------
(* How overlapping updates of an article settle. *)

\* What the updates under way on an article owe it: each was asked for what all
\* of them were asked for, and for no more than some; and as long as none has
\* failed, a tag that all ask for is there or still to be inserted by one of
\* them, and one that nobody asks for is still to be deleted by one.
Owed(a) ==
  /\ \A s \in Syncing(a) :
       /\ burst[a].all \subseteq reqs[s].names
       /\ reqs[s].names \subseteq burst[a].some
       /\ reqs[s].obsolete \cap reqs[s].names = {}
  /\ a \in stored /\ ~ burst[a].failed /\ Syncing(a) # {} =>
       /\ \A t \in burst[a].all \ TagsOf(a) : \E s \in Syncing(a) : t \in reqs[s].missing
       /\ \A t \in TagsOf(a) \ burst[a].some : \E s \in Syncing(a) : t \in reqs[s].obsolete

SettleInv == \A a \in ArticleIds : Owed(a)

\* A statement of an update that is not between $set's look and its end, before
\* or after, leaves what is owed to the article.
LEMMA OwedAside ==
  ASSUME TInv, NEW a \in ArticleIds, Owed(a), NEW s \in Slots, NEW r \in Request,
         reqs' = [reqs EXCEPT ![s] = r], s \notin Syncing(a),
         r.pc = "tags_write" => r.article # a,
         burst'[a] = burst[a], TagsOf(a)' = TagsOf(a), stored' \subseteq stored
  PROVE  Owed(a)'
<1>1. \A w \in Slots : w # s => reqs'[w] = reqs[w]
  BY DEF TInv, TypeOK
<1>2. reqs'[s] = r
  BY DEF TInv, TypeOK
<1>3. Syncing(a)' = Syncing(a)
  BY <1>1, <1>2 DEF Syncing
<1>4. \A w \in Syncing(a) : reqs'[w] = reqs[w]
  BY <1>1 DEF Syncing
<1>5. QED BY <1>3, <1>4 DEF Owed

\* The look of $set: the update owes what it has found missing and obsolete.
LEMMA ReadOwed ==
  ASSUME TInv, NEW a \in ArticleIds, Owed(a), NEW s \in Slots, TagsRead(s)
  PROVE  Owed(a)'
<1> PICK q \in Request : q = reqs[s]
  BY DEF TInv, TypeOK
<1> DEFINE r == [q EXCEPT !.pc = "tags_write", !.missing = q.names \ TagsOf(q.article),
                          !.obsolete = TagsOf(q.article) \ q.names]
<1>1. q.pc = "tags_read" /\ q.article \in ArticleIds /\ q.names \subseteq TagNames
  BY DEF TagsRead, TInv, RequestOK, Request
<1>2. r \in Request
  BY <1>1 DEF Request, PC, TagsOf
<1>3. /\ r.pc = "tags_write" /\ r.article = q.article /\ r.names = q.names
      /\ r.missing = q.names \ TagsOf(q.article)
      /\ r.obsolete = TagsOf(q.article) \ q.names
  BY DEF Request
<1>4. /\ reqs' = [reqs EXCEPT ![s] = r]
      /\ burst' = [burst EXCEPT ![q.article] = Joined(q.article, q.names)]
      /\ UNCHANGED <<stored, tags, links>>
  BY DEF TagsRead, tableVars, TInv, TypeOK
<1> HIDE DEF r
<1>5. /\ \A w \in Slots : w # s => reqs'[w] = reqs[w]
      /\ reqs'[s] = r
      /\ TagsOf(a)' = TagsOf(a)
      /\ s \notin Syncing(a)
  BY <1>1, <1>4 DEF TInv, TypeOK, TagsOf, Syncing
<1>6. CASE a # q.article
  <2>1. burst'[a] = burst[a]
    BY <1>4, <1>6 DEF TInv, TypeOK
  <2>2. QED BY <1>2, <1>3, <1>4, <1>5, <1>6, <2>1, OwedAside
<1>7. CASE a = q.article
  <2> PICK b \in Burst : b = Joined(a, q.names)
    <3>1. burst[a] \in Burst
      BY DEF TInv, TypeOK
    <3>2. QED BY <1>1, <3>1 DEF Joined, Burst
  <2>1. burst'[a] = b
    BY <1>4, <1>7 DEF TInv, TypeOK
  <2>2. Syncing(a)' = Syncing(a) \cup {s}
    BY <1>3, <1>5, <1>7 DEF Syncing
  <2>3. \A w \in Syncing(a) : reqs'[w] = reqs[w]
    BY <1>5 DEF Syncing
  <2>4. CASE Syncing(a) = {}
    <3>1. b.all = q.names /\ b.some = q.names
      BY <2>4 DEF Joined
    <3>2. QED BY <1>3, <1>5, <1>7, <2>1, <2>2, <2>4, <3>1 DEF Owed
  <2>5. CASE Syncing(a) # {}
    <3>1. /\ b.all = burst[a].all \cap q.names
          /\ b.some = burst[a].some \cup q.names
          /\ b.failed = burst[a].failed
      BY <2>5 DEF Joined, TInv, TypeOK, Burst
    <3>2. \A w \in Syncing(a)' : /\ b.all \subseteq reqs'[w].names
                               /\ reqs'[w].names \subseteq b.some
                               /\ reqs'[w].obsolete \cap reqs'[w].names = {}
      BY <1>3, <1>5, <2>2, <2>3, <3>1 DEF Owed
    <3>3. ASSUME a \in stored, ~ b.failed
          PROVE  /\ \A t \in b.all \ TagsOf(a) : \E w \in Syncing(a)' : t \in reqs'[w].missing
                 /\ \A t \in TagsOf(a) \ b.some :
                      \E w \in Syncing(a)' : t \in reqs'[w].obsolete
      <4>1. /\ \A t \in burst[a].all \ TagsOf(a) : \E w \in Syncing(a) : t \in reqs[w].missing
            /\ \A t \in TagsOf(a) \ burst[a].some :
                 \E w \in Syncing(a) : t \in reqs[w].obsolete
        BY <2>5, <3>1, <3>3 DEF Owed
      <4>2. QED BY <2>2, <2>3, <3>1, <4>1
    <3>4. QED BY <1>4, <1>5, <2>1, <3>2, <3>3 DEF Owed
  <2>6. QED BY <2>4, <2>5
<1>8. QED BY <1>6, <1>7

\* What the article is owed while an update is at its DELETE and INSERT: what
\* one of the two has settled, nobody owes any more.
LEMMA WriteOwed ==
  ASSUME TInv, NEW a \in ArticleIds, Owed(a), NEW s \in Slots, Destroy(s) \/ BulkCreate(s)
  PROVE  Owed(a)'
<1> PICK q \in Request : q = reqs[s]
  BY DEF TInv, TypeOK
<1> PICK r \in Request :
      /\ reqs' = [reqs EXCEPT ![s] = r]
      /\ r.pc = "tags_write" /\ r.article = q.article /\ r.names = q.names
      /\ \/ /\ Destroy(s)
            /\ r.missing = q.missing /\ r.obsolete = {}
         \/ /\ BulkCreate(s)
            /\ r.missing = {} /\ r.obsolete = q.obsolete
  <2>1. CASE Destroy(s)
    <3> DEFINE r == [q EXCEPT !.obsolete = {}]
    <3>1. r \in Request /\ reqs' = [reqs EXCEPT ![s] = r] /\ q.pc = "tags_write"
      BY <2>1 DEF Destroy, Request, TInv, TypeOK
    <3>2. /\ r.pc = q.pc /\ r.article = q.article /\ r.names = q.names
          /\ r.missing = q.missing /\ r.obsolete = {}
      BY DEF Request
    <3>3. QED BY <2>1, <3>1, <3>2
  <2>2. CASE BulkCreate(s)
    <3> DEFINE r == [q EXCEPT !.missing = {}]
    <3>1. r \in Request /\ reqs' = [reqs EXCEPT ![s] = r] /\ q.pc = "tags_write"
      BY <2>2 DEF BulkCreate, Request, TInv, TypeOK
    <3>2. /\ r.pc = q.pc /\ r.article = q.article /\ r.names = q.names
          /\ r.missing = {} /\ r.obsolete = q.obsolete
      BY DEF Request
    <3>3. QED BY <2>2, <3>1, <3>2
  <2>3. QED BY <2>1, <2>2
<1>1. /\ q.pc = "tags_write" /\ q.missing \subseteq q.names /\ q.missing \subseteq TagNames
      /\ UNCHANGED <<stored, tags, burst>>
  BY DEF Destroy, BulkCreate, TInv, RequestOK, Request
<1>2. /\ \A w \in Slots : w # s => reqs'[w] = reqs[w]
      /\ reqs'[s] = r
  BY DEF TInv, TypeOK
<1>3. CASE a # q.article
  <2>1. TagsOf(a)' = TagsOf(a)
    BY <1>3 DEF Destroy, BulkCreate, TagsOf
  <2>2. s \notin Syncing(a)
    BY <1>3 DEF Syncing
  <2>3. QED BY <1>1, <1>3, <2>1, <2>2, OwedAside
<1>4. CASE a = q.article
  <2>1. Syncing(a)' = Syncing(a) /\ s \in Syncing(a)
    BY <1>1, <1>2, <1>4 DEF Syncing
  <2>2. /\ burst[a].all \subseteq q.names
        /\ q.names \subseteq burst[a].some
        /\ q.obsolete \cap q.names = {}
    BY <2>1 DEF Owed
  <2>3. \A w \in Syncing(a)' : /\ burst'[a].all \subseteq reqs'[w].names
                              /\ reqs'[w].names \subseteq burst'[a].some
                              /\ reqs'[w].obsolete \cap reqs'[w].names = {}
    <3> TAKE w \in Syncing(a)'
    <3>1. CASE w = s
      BY <1>1, <1>2, <2>2, <3>1
    <3>2. CASE w # s
      BY <1>1, <1>2, <2>1, <3>2 DEF Owed, Syncing
    <3>3. QED BY <3>1, <3>2
  <2>4. ASSUME a \in stored, ~ burst[a].failed
        PROVE  /\ \A t \in burst[a].all \ TagsOf(a)' :
                    \E w \in Syncing(a)' : t \in reqs'[w].missing
               /\ \A t \in TagsOf(a)' \ burst[a].some :
                    \E w \in Syncing(a)' : t \in reqs'[w].obsolete
    <3>1. /\ \A t \in burst[a].all \ TagsOf(a) : \E w \in Syncing(a) : t \in reqs[w].missing
          /\ \A t \in TagsOf(a) \ burst[a].some :
               \E w \in Syncing(a) : t \in reqs[w].obsolete
      BY <2>1, <2>4 DEF Owed
    <3>2. CASE Destroy(s) /\ r.missing = q.missing /\ r.obsolete = {}
      <4>1. TagsOf(a)' = TagsOf(a) \ q.obsolete
        BY <1>4, <3>2 DEF Destroy, TagsOf
      <4>2. \A w \in Syncing(a) : reqs'[w].missing = reqs[w].missing
        BY <1>2, <3>2 DEF Syncing
      <4>3. \A w \in Syncing(a), t \in TagsOf(a)' :
              t \in reqs[w].obsolete => t \in reqs'[w].obsolete
        BY <1>2, <4>1 DEF Syncing
      <4>4. QED BY <2>1, <2>2, <3>1, <4>1, <4>2, <4>3
    <3>3. CASE BulkCreate(s) /\ r.missing = {} /\ r.obsolete = q.obsolete
      <4>1. TagsOf(a)' = TagsOf(a) \cup q.missing
        BY <1>1, <1>4, <3>3 DEF BulkCreate, TagsOf
      <4>2. \A w \in Syncing(a) : reqs'[w].obsolete = reqs[w].obsolete
        BY <1>2, <3>3 DEF Syncing
      <4>3. \A w \in Syncing(a), t \in TagNames \ TagsOf(a)' :
              t \in reqs[w].missing => t \in reqs'[w].missing
        BY <1>2, <4>1 DEF Syncing
      <4>4. burst[a].all \subseteq TagNames
        BY DEF TInv, TypeOK, Burst
      <4>5. QED BY <1>1, <2>1, <2>2, <3>1, <4>1, <4>2, <4>3, <4>4
    <3>4. QED BY <3>2, <3>3
  <2>5. QED BY <1>1, <2>3, <2>4 DEF Owed
<1>5. QED BY <1>3, <1>4

\* An INSERT that was refused leaves nothing to say of the tags that are owed.
LEMMA RefusalOwed ==
  ASSUME TInv, NEW a \in ArticleIds, Owed(a), NEW s \in Slots, BulkCreateFails(s)
  PROVE  Owed(a)'
<1> PICK q \in Request : q = reqs[s]
  BY DEF TInv, TypeOK
<1> DEFINE r == [q EXCEPT !.missing = {}, !.failed = TRUE]
<1>1. q.pc = "tags_write" /\ q.article \in ArticleIds
  BY DEF BulkCreateFails, TInv, RequestOK
<1>2. /\ r \in Request
      /\ r.pc = q.pc /\ r.article = q.article /\ r.names = q.names /\ r.obsolete = q.obsolete
  BY DEF Request
<1>3. /\ reqs' = [reqs EXCEPT ![s] = r] /\ UNCHANGED <<stored, tags, links>>
      /\ burst' = [burst EXCEPT ![q.article].failed = TRUE]
  BY DEF BulkCreateFails, tableVars, TInv, TypeOK
<1> HIDE DEF r
<1>4. /\ \A w \in Slots : w # s => reqs'[w] = reqs[w]
      /\ reqs'[s] = r
      /\ TagsOf(a)' = TagsOf(a)
  BY <1>3 DEF TInv, TypeOK, TagsOf
<1>5. CASE a # q.article
  <2>1. burst'[a] = burst[a]
    BY <1>3, <1>5 DEF TInv, TypeOK
  <2>2. s \notin Syncing(a)
    BY <1>5 DEF Syncing
  <2>3. QED BY <1>2, <1>3, <1>4, <1>5, <2>1, <2>2, OwedAside
<1>6. CASE a = q.article
  <2>1. burst[a] \in Burst /\ burst'[a] = [burst[a] EXCEPT !.failed = TRUE]
    BY <1>3, <1>6 DEF TInv, TypeOK
  <2>2. burst'[a].all = burst[a].all /\ burst'[a].some = burst[a].some /\ burst'[a].failed
    BY <2>1 DEF Burst
  <2>3. Syncing(a)' = Syncing(a)
    BY <1>1, <1>2, <1>4 DEF Syncing
  <2>4. \A w \in Syncing(a) : reqs'[w].names = reqs[w].names /\ reqs'[w].obsolete = reqs[w].obsolete
    BY <1>2, <1>4 DEF Syncing
  <2>5. QED BY <2>2, <2>3, <2>4 DEF Owed
<1>7. QED BY <1>5, <1>6

\* An update that is over, one way or the other, leaves the debt to the others;
\* the last leaves none.
LEMMA LeaveOwed ==
  ASSUME TInv, NEW a \in ArticleIds, Owed(a), NEW s \in Slots, SetDone(s) \/ HandlerDies(s)
  PROVE  Owed(a)'
<1>1. reqs' = [reqs EXCEPT ![s] = Idle] /\ UNCHANGED <<stored, tags, links>>
  BY DEF SetDone, HandlerDies, Respond, tableVars
<1>2. /\ \A w \in Slots : w # s => reqs'[w] = reqs[w]
      /\ reqs'[s] = Idle
      /\ Idle.pc # "tags_write"
      /\ TagsOf(a)' = TagsOf(a)
  BY <1>1 DEF TInv, TypeOK, TagsOf, Idle
<1>3. Syncing(a)' = Syncing(a) \ {s}
  BY <1>2 DEF Syncing
<1>4. burst[a] \in Burst /\ burst \in [ArticleIds -> Burst]
  BY DEF TInv, TypeOK
<1>5. CASE s \notin Syncing(a)
  <2>1. burst'[a] = burst[a]
    <3>1. CASE SetDone(s)
      <4>1. reqs[s].pc = "tags_write" /\ reqs[s].article # a
        BY <1>5, <3>1 DEF SetDone, Syncing
      <4>2. QED BY <1>4, <3>1, <4>1 DEF SetDone
    <3>2. CASE HandlerDies(s)
      <4>1. Syncing(a) # {s}
        BY <1>5
      <4>2. QED BY <1>5, <3>2, <4>1 DEF HandlerDies
    <3>3. QED BY <3>1, <3>2
  <2>2. QED BY <1>1, <1>2, <1>5, <2>1, IdleOK, OwedAside
<1>6. CASE Syncing(a) = {s}
  <2>1. Syncing(a)' = {}
    BY <1>3, <1>6
  <2>2. QED BY <2>1 DEF Owed
<1>7. CASE s \in Syncing(a) /\ Syncing(a) # {s}
  <2>1. /\ burst'[a].all = burst[a].all
        /\ burst'[a].some = burst[a].some
    <3>1. CASE SetDone(s)
      <4>1. reqs[s].article = a
        BY <1>7 DEF Syncing
      <4>2. burst'[a] = burst[a]
        BY <1>4, <1>7, <3>1, <4>1 DEF SetDone
      <4>3. QED BY <4>2
    <3>2. CASE HandlerDies(s)
      <4>1. burst'[a] = [burst[a] EXCEPT !.failed = TRUE]
        BY <1>7, <3>2 DEF HandlerDies
      <4>2. QED BY <1>4, <4>1 DEF Burst
    <3>3. QED BY <3>1, <3>2
  <2>2. \A w \in Syncing(a)' : w \in Syncing(a) /\ reqs'[w] = reqs[w]
    BY <1>2, <1>3 DEF Syncing
  <2>3. ASSUME a \in stored, ~ burst'[a].failed
        PROVE  /\ \A t \in burst[a].all \ TagsOf(a) :
                    \E w \in Syncing(a)' : t \in reqs'[w].missing
               /\ \A t \in TagsOf(a) \ burst[a].some :
                    \E w \in Syncing(a)' : t \in reqs'[w].obsolete
    <3>1. SetDone(s) /\ ~ burst[a].failed
      <4>1. ~ HandlerDies(s)
        <5>1. SUFFICES ASSUME HandlerDies(s) PROVE FALSE
          OBVIOUS
        <5>2. burst'[a] = [burst[a] EXCEPT !.failed = TRUE]
          BY <1>7, <5>1 DEF HandlerDies
        <5>3. burst'[a].failed
          BY <1>4, <5>2 DEF Burst
        <5>4. QED BY <2>3, <5>3
      <4>2. reqs[s].article = a /\ SetDone(s)
        BY <1>7, <4>1 DEF Syncing
      <4>3. burst'[a] = burst[a]
        BY <1>4, <1>7, <4>2 DEF SetDone
      <4>4. QED BY <2>3, <4>2, <4>3
    <3>2. reqs[s].missing = {} /\ reqs[s].obsolete = {}
      BY <3>1 DEF SetDone
    <3>3. /\ \A t \in burst[a].all \ TagsOf(a) : \E w \in Syncing(a) : t \in reqs[w].missing
          /\ \A t \in TagsOf(a) \ burst[a].some :
               \E w \in Syncing(a) : t \in reqs[w].obsolete
      BY <1>7, <2>3, <3>1 DEF Owed
    <3>4. \A w \in Syncing(a) : w # s => w \in Syncing(a)' /\ reqs'[w] = reqs[w]
      BY <1>2, <1>3 DEF Syncing
    <3>5. QED BY <3>2, <3>3, <3>4
  <2>4. QED BY <1>1, <1>2, <2>1, <2>2, <2>3 DEF Owed
<1>8. QED BY <1>5, <1>6, <1>7

\* Nothing is owed to an article that is gone.
LEMMA GoneOwed ==
  ASSUME TInv, NEW a \in ArticleIds, Owed(a), NEW b \in ArticleIds, ArticleGone(b)
  PROVE  Owed(a)'
<1>1. stored' = stored \ {b} /\ UNCHANGED <<tags, reqs, burst>>
  BY DEF ArticleGone
<1>2. Syncing(a)' = Syncing(a)
  BY <1>1 DEF Syncing
<1>3. a # b => TagsOf(a)' = TagsOf(a)
  BY DEF ArticleGone, TagsOf
<1>4. CASE a = b
  BY <1>1, <1>2, <1>4 DEF Owed
<1>5. CASE a # b
  BY <1>1, <1>2, <1>3, <1>5 DEF Owed
<1>6. QED BY <1>4, <1>5

\* SettleInv is inductive.
LEMMA SettleNext ==
  ASSUME TInv, SettleInv, [Next]_vars
  PROVE  SettleInv'
<1> SUFFICES ASSUME NEW a \in ArticleIds
             PROVE  Owed(a)'
  BY DEF SettleInv
<1>1. Owed(a)
  BY DEF SettleInv
<1>2. ASSUME NEW s \in Slots, NEW b \in ArticleIds, NEW given \in SUBSET Spellings,
             syncTags(s, b, given)
      PROVE  Owed(a)'
  <2> DEFINE r == [Idle EXCEPT !.pc = "tags_create", !.article = b, !.names = unique(given)]
  <2>1. r \in Request
    BY DEF unique, Idle, Request, PC
  <2>2. r.pc = "tags_create" /\ s \notin Syncing(a)
    BY <1>2 DEF syncTags, Syncing, Idle
  <2>3. reqs' = [reqs EXCEPT ![s] = r] /\ UNCHANGED <<stored, tags, links, burst>>
    BY <1>2 DEF syncTags, tableVars
  <2>4. TagsOf(a)' = TagsOf(a)
    BY <2>3 DEF TagsOf
  <2> HIDE DEF r
  <2>5. QED BY <1>1, <2>1, <2>2, <2>3, <2>4, OwedAside
<1>3. ASSUME NEW s \in Slots, findOrCreateMany(s)
      PROVE  Owed(a)'
  <2> PICK q \in Request : q = reqs[s]
    BY DEF TInv, TypeOK
  <2> DEFINE r == [q EXCEPT !.pc = "tags_read"]
  <2>1. r \in Request /\ r.pc = "tags_read"
    BY DEF Request, PC
  <2>2. s \notin Syncing(a)
    BY <1>3 DEF findOrCreateMany, Syncing
  <2>3. reqs' = [reqs EXCEPT ![s] = r] /\ UNCHANGED <<stored, links, burst>>
    BY <1>3 DEF findOrCreateMany, TInv, TypeOK
  <2>4. TagsOf(a)' = TagsOf(a)
    BY <2>3 DEF TagsOf
  <2> HIDE DEF r
  <2>5. QED BY <1>1, <2>1, <2>2, <2>3, <2>4, OwedAside
<1>4. CASE UNCHANGED vars
  BY <1>1, <1>4 DEF vars, tableVars, Owed, Syncing, TagsOf
<1>5. QED BY <1>1, <1>2, <1>3, <1>4, ReadOwed, WriteOwed, RefusalOwed, LeaveOwed, GoneOwed
          DEF Next, Handlers, Environment

\* When overlapping updates of an article's tags are over, and none failed, it
\* has every tag that all of them asked for and none that nobody asked for,
\* whatever the articles, tags and updates in flight (articles.service.ts:170-173).
THEOREM TagsSettled == Spec => TagsSettle
<1> DEFINE Settled ==
      \A a \in ArticleIds : \A s \in Slots :
        /\ a \in stored /\ ~ burst[a].failed
        /\ Syncing(a) = {s} /\ Syncing(a)' = {}
        /\ reqs[s].missing = {} /\ reqs[s].obsolete = {}
        => burst[a].all \subseteq TagsOf(a) /\ TagsOf(a) \subseteq burst[a].some
<1>1. Init => SettleInv
  BY DEF Init, SettleInv, Owed, Syncing, Idle
<1>2. TInv /\ SettleInv /\ [Next]_vars => SettleInv'
  BY SettleNext
<1>3. SettleInv => Settled
  BY DEF SettleInv, Owed
<1>4. SettleInv /\ [Next]_vars => [Settled]_vars
  BY <1>3
<1>5. QED BY <1>1, <1>2, <1>4, TInvHolds, PTL DEF Spec, TagsSettle

=============================================================================
