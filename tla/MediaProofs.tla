---------------------------- MODULE MediaProofs -----------------------------
(***************************************************************************)
(* What TLAPS proves of MediaStore, for any numbers of articles, accounts, *)
(* images and requests in flight, any sizes and any cap and share.         *)
(***************************************************************************)
EXTENDS MediaStore, FiniteSetTheorems, TLAPS

-----------------------------------------------------------------------------
(* Sums of sizes.  The library's induction theorems take an operator; its   *)
(* theorem that the strict subsets of a finite set are well-founded does    *)
(* not, and a set of subsets serves as the predicate.                       *)

\* The recursive function in the definition of the sum.
IsSum(f, S) ==
  f = [s \in SUBSET S |->
         IF s = {} THEN 0
         ELSE (CHOOSE x \in s : TRUE).sizeBytes + f[s \ {CHOOSE x \in s : TRUE}]]

\* The sum is that function's value at the whole set.
LEMMA BytesIsSum == \A S : Bytes(S) = (CHOOSE f : IsSum(f, S))[S]
BY DEF Bytes, MapThenSumSet, MapThenFoldSet, IsSum

\* What holds of every subset whose strict subsets it holds of holds of all.
LEMMA SetInduction ==
  ASSUME NEW S, IsFiniteSet(S), NEW G,
         \A T \in SUBSET S : (\A U \in SUBSET T : U # T => U \in G) => T \in G
  PROVE  \A T \in SUBSET S : T \in G
<1> DEFINE Bad == (SUBSET S) \ G
<1> SUFFICES ASSUME Bad # {} PROVE FALSE
  OBVIOUS
<1>1. IsWellFoundedOn(StrictSubsetOrdering(S), SUBSET S)
  <2>1. FiniteSubsetsOf(S) = SUBSET S
    BY FS_FiniteSubsetsOfFinite
  <2>2. IsWellFoundedOn(StrictSubsetOrdering(S), FiniteSubsetsOf(S))
    BY FS_StrictSubsetOrderingWellFounded
  <2>3. QED BY <2>1, <2>2, Zenon
<1>2. PICK T \in Bad : \A U \in Bad : ~ (<<U, T>> \in StrictSubsetOrdering(S))
  <2> HIDE DEF Bad
  <2>1. Bad \subseteq SUBSET S BY DEF Bad
  <2>2. QED BY <1>1, <2>1, WFMin
<1>3. \A U \in SUBSET T : U # T => U \in G
  BY <1>2 DEF StrictSubsetOrdering
<1>4. QED BY <1>2, <1>3

\* Two such functions agree.
LEMMA SumUnique ==
  ASSUME NEW S, IsFiniteSet(S), NEW f, IsSum(f, S), NEW T \in SUBSET S, NEW g, IsSum(g, T)
  PROVE  g[T] = f[T]
<1> DEFINE G == {U \in SUBSET T : g[U] = f[U]}
<1>0. IsFiniteSet(T)
  BY FS_Subset
<1>1. ASSUME NEW U \in SUBSET T, \A V \in SUBSET U : V # U => V \in G
      PROVE  U \in G
  <2>1. CASE U = {}
    BY <2>1 DEF IsSum
  <2>2. CASE U # {}
    <3>1. PICK x : x = CHOOSE y \in U : TRUE
      OBVIOUS
    <3>2. x \in U
      BY <2>2, <3>1
    <3>3. f[U] = x.sizeBytes + f[U \ {x}]
      BY <2>2, <3>1 DEF IsSum
    <3>4. g[U] = x.sizeBytes + g[U \ {x}]
      BY <2>2, <3>1 DEF IsSum
    <3>5. U \ {x} \in G
      BY <1>1, <3>2
    <3>6. QED BY <3>3, <3>4, <3>5
  <2>3. QED BY <2>1, <2>2
<1> HIDE DEF G
<1>2. \A U \in SUBSET T : U \in G
  BY <1>0, <1>1, SetInduction
<1>3. QED BY <1>2 DEF G

\* There is one for every finite set.
LEMMA SumExists ==
  ASSUME NEW S, IsFiniteSet(S)
  PROVE  \E f : IsSum(f, S)
<1> DEFINE G == {U \in SUBSET S : \E f : IsSum(f, U)}
           first(s) == CHOOSE x \in s : TRUE
           total(s) == (CHOOSE f : IsSum(f, s))[s]
<1>1. ASSUME NEW T \in SUBSET S, \A U \in SUBSET T : U # T => U \in G
      PROVE  T \in G
  <2> DEFINE g == [s \in SUBSET T |-> IF s = {} THEN 0
                                      ELSE first(s).sizeBytes + total(s \ {first(s)})]
  <2>1. \A U \in SUBSET T : U # T => IsSum(CHOOSE f : IsSum(f, U), U)
    BY <1>1
  <2>2. ASSUME NEW U \in SUBSET T, U # T
        PROVE  total(U) = g[U]
    <3>1. PICK f : f = CHOOSE h : IsSum(h, U)
      OBVIOUS
    <3>2. IsSum(f, U) /\ total(U) = f[U]
      BY <2>1, <2>2, <3>1
    <3>3. CASE U = {}
      BY <3>2, <3>3 DEF IsSum
    <3>4. CASE U # {}
      <4>1. first(U) \in U
        BY <3>4
      <4>2. f[U] = first(U).sizeBytes + f[U \ {first(U)}]
        BY <3>2, <3>4 DEF IsSum
      <4>3. PICK V : V = U \ {first(U)}
        OBVIOUS
      <4>4. V \in SUBSET U /\ V \in SUBSET T /\ V # T /\ IsFiniteSet(U)
        BY <4>1, <4>3, FS_Subset
      <4>5. IsSum(CHOOSE h : IsSum(h, V), V)
        BY <2>1, <4>4
      <4>6. total(V) = f[V]
        BY <3>2, <4>4, <4>5, SumUnique
      <4>7. g[U] = first(U).sizeBytes + total(V)
        BY <3>4, <4>3
      <4>8. QED BY <3>2, <4>2, <4>3, <4>6, <4>7
    <3>5. QED BY <3>3, <3>4
  <2>3. IsSum(g, T)
    <3>1. \A s \in SUBSET T : s # {} => s \ {first(s)} \in SUBSET T /\ s \ {first(s)} # T
      OBVIOUS
    <3>2. \A s \in SUBSET T : s # {} => total(s \ {first(s)}) = g[s \ {first(s)}]
      BY <2>2, <3>1
    <3> HIDE DEF total
    <3>3. PICK k : k = g
      OBVIOUS
    <3> DEFINE h == [s \in SUBSET T |-> IF s = {} THEN 0
                                       ELSE first(s).sizeBytes + k[s \ {first(s)}]]
    <3>4. k = [s \in SUBSET T |-> k[s]]
      BY <3>3
    <3>5. ASSUME NEW s \in SUBSET T  PROVE k[s] = h[s]
      <4>1. CASE s = {}  BY <3>3, <4>1
      <4>2. CASE s # {}
        <5>1. total(s \ {first(s)}) = k[s \ {first(s)}]
          BY <3>2, <3>3, <4>2
        <5>2. k[s] = first(s).sizeBytes + total(s \ {first(s)})
          BY <3>3, <4>2
        <5>3. QED BY <4>2, <5>1, <5>2
      <4>3. QED BY <4>1, <4>2
    <3> HIDE DEF g
    <3>6. k = h
      BY <3>4, <3>5
    <3>7. IsSum(k, T)
      BY <3>6 DEF IsSum
    <3>8. QED BY <3>3, <3>7
  <2> HIDE DEF g
  <2>4. QED BY <2>3
<1> HIDE DEF G
<1>2. \A U \in SUBSET S : U \in G
  BY <1>1, SetInduction
<1>3. QED BY <1>2 DEF G

\* Rows of a size.
Sized(S) == IsFiniteSet(S) /\ \A row \in S : row.sizeBytes \in Nat

\* So has every part of a set of rows.
LEMMA SubsetSized ==
  ASSUME NEW S, Sized(S), NEW T \in SUBSET S
  PROVE  Sized(T)
BY FS_Subset DEF Sized

\* No rows, no bytes; and of others the definition takes out one at a time.
LEMMA BytesUnfold ==
  /\ Bytes({}) = 0
  /\ \A S : IsFiniteSet(S) /\ S # {} =>
       \E x \in S : Bytes(S) = x.sizeBytes + Bytes(S \ {x})
<1>1. ASSUME NEW S, IsFiniteSet(S)
      PROVE  \E f : IsSum(f, S) /\ \A T \in SUBSET S : Bytes(T) = f[T]
  <2>1. PICK f : IsSum(f, S)
    BY <1>1, SumExists
  <2>2. ASSUME NEW T \in SUBSET S  PROVE Bytes(T) = f[T]
    <3>1. IsFiniteSet(T)
      BY <1>1, FS_Subset
    <3>2. IsSum(CHOOSE h : IsSum(h, T), T)
      BY <3>1, SumExists
    <3>3. QED BY <1>1, <2>1, <3>2, SumUnique, BytesIsSum
  <2>3. QED BY <2>1, <2>2
<1>2. Bytes({}) = 0
  <2>1. PICK f : IsSum(f, {}) /\ Bytes({}) = f[{}]
    BY <1>1, FS_EmptySet
  <2>2. QED BY <2>1 DEF IsSum
<1>3. ASSUME NEW S, IsFiniteSet(S), S # {}
      PROVE  \E x \in S : Bytes(S) = x.sizeBytes + Bytes(S \ {x})
  <2>1. PICK f : IsSum(f, S) /\ \A T \in SUBSET S : Bytes(T) = f[T]
    BY <1>1, <1>3
  <2>2. PICK x : x = CHOOSE y \in S : TRUE
    OBVIOUS
  <2>3. x \in S
    BY <1>3, <2>2
  <2>4. f[S] = x.sizeBytes + f[S \ {x}]
    BY <1>3, <2>1, <2>2 DEF IsSum
  <2>5. Bytes(S) = f[S] /\ Bytes(S \ {x}) = f[S \ {x}]
    BY <2>1
  <2>6. QED BY <2>3, <2>4, <2>5
<1>4. QED BY <1>2, <1>3

\* A sum of sizes is one.
LEMMA BytesType ==
  ASSUME NEW S, Sized(S)
  PROVE  Bytes(S) \in Nat
<1> DEFINE G == {U \in SUBSET S : Bytes(U) \in Nat}
<1>1. ASSUME NEW T \in SUBSET S, \A U \in SUBSET T : U # T => U \in G
      PROVE  T \in G
  <2>1. CASE T = {}
    BY <2>1, BytesUnfold
  <2>2. CASE T # {}
    <3>1. PICK x \in T : Bytes(T) = x.sizeBytes + Bytes(T \ {x})
      BY <2>2, SubsetSized, BytesUnfold DEF Sized
    <3>2. T \ {x} \in G
      BY <1>1
    <3>3. QED BY <3>1, <3>2 DEF Sized
  <2>3. QED BY <2>1, <2>2
<1> HIDE DEF G
<1>2. \A U \in SUBSET S : U \in G
  BY <1>1, SetInduction DEF Sized
<1>3. QED BY <1>2 DEF G

\* The order in which rows are added up does not matter.
LEMMA BytesRemove ==
  ASSUME NEW S, Sized(S), NEW row \in S
  PROVE  Bytes(S) = row.sizeBytes + Bytes(S \ {row})
<1> DEFINE G == {U \in SUBSET S : \A x \in U : Bytes(U) = x.sizeBytes + Bytes(U \ {x})}
<1>1. ASSUME NEW T \in SUBSET S, \A U \in SUBSET T : U # T => U \in G
      PROVE  T \in G
  <2> SUFFICES ASSUME NEW x \in T  PROVE Bytes(T) = x.sizeBytes + Bytes(T \ {x})
    OBVIOUS
  <2>1. PICK y \in T : Bytes(T) = y.sizeBytes + Bytes(T \ {y})
    BY SubsetSized, BytesUnfold DEF Sized
  <2>2. CASE x = y
    BY <2>1, <2>2
  <2>3. CASE x # y
    <3>1. T \ {y} \in G /\ T \ {x} \in G /\ x \in T \ {y} /\ y \in T \ {x}
      BY <1>1, <2>3
    <3>2. PICK rest : rest = (T \ {x}) \ {y}
      OBVIOUS
    <3>3. rest = (T \ {y}) \ {x} /\ rest \in SUBSET S
      BY <3>2
    <3>4. Bytes(T \ {y}) = x.sizeBytes + Bytes(rest)
      BY <3>1, <3>3
    <3>5. Bytes(T \ {x}) = y.sizeBytes + Bytes(rest)
      BY <3>1, <3>2
    <3>6. Bytes(rest) \in Nat /\ x.sizeBytes \in Nat /\ y.sizeBytes \in Nat
      BY <3>3, SubsetSized, BytesType DEF Sized
    <3>7. QED BY <2>1, <3>4, <3>5, <3>6
  <2>4. QED BY <2>2, <2>3
<1> HIDE DEF G
<1>2. \A U \in SUBSET S : U \in G
  BY <1>1, SetInduction DEF Sized
<1>3. QED BY <1>2 DEF G

\* A row more adds its size at most.
LEMMA BytesAdd ==
  ASSUME NEW S, Sized(S), NEW row, row.sizeBytes \in Nat
  PROVE  /\ Sized(S \cup {row})
         /\ Bytes(S \cup {row}) <= Bytes(S) + row.sizeBytes
         /\ row \notin S => Bytes(S \cup {row}) = Bytes(S) + row.sizeBytes
<1>1. Sized(S \cup {row})
  BY FS_AddElement DEF Sized
<1>2. Bytes(S) \in Nat
  BY BytesType
<1>3. CASE row \in S
  <2>1. S \cup {row} = S
    BY <1>3
  <2>2. Bytes(S \cup {row}) = Bytes(S)
    BY <2>1
  <2>3. QED BY <1>1, <1>2, <1>3, <2>2
<1>4. CASE row \notin S
  <2>1. (S \cup {row}) \ {row} = S
    BY <1>4
  <2>2. Bytes(S \cup {row}) = row.sizeBytes + Bytes(S)
    BY <1>1, <2>1, BytesRemove
  <2>3. QED BY <1>1, <1>2, <2>2
<1>5. QED BY <1>3, <1>4

\* Fewer rows have no more bytes.
LEMMA BytesMonotone ==
  ASSUME NEW S, Sized(S), NEW T \in SUBSET S
  PROVE  Bytes(T) <= Bytes(S)
<1> DEFINE G == {U \in SUBSET S : Bytes(T \cap U) <= Bytes(U)}
<1>1. ASSUME NEW U \in SUBSET S, \A V \in SUBSET U : V # U => V \in G
      PROVE  U \in G
  <2>1. CASE U = {}
    <3>1. T \cap U = {}
      BY <2>1
    <3>2. QED BY <2>1, <3>1, BytesUnfold
  <2>2. CASE U # {}
    <3>1. PICK x \in U : TRUE
      BY <2>2
    <3>2. PICK A, B : A = T \cap U /\ B = U \ {x}
      OBVIOUS
    <3>3. Sized(U) /\ Sized(A) /\ Sized(B) /\ x.sizeBytes \in Nat
      BY <3>2, SubsetSized DEF Sized
    <3>4. T \cap B = A \ {x} /\ B \in G
      BY <1>1, <3>1, <3>2
    <3>5. Bytes(U) = x.sizeBytes + Bytes(B)
      BY <3>2, <3>3, BytesRemove
    <3>6. x \in A => Bytes(A) = x.sizeBytes + Bytes(A \ {x})
      BY <3>3, BytesRemove
    <3>7. x \notin A => A \ {x} = A
      OBVIOUS
    <3>8. Bytes(A) \in Nat /\ Bytes(B) \in Nat /\ Bytes(A \ {x}) \in Nat
      BY <3>3, SubsetSized, BytesType
    <3>9. Bytes(A \ {x}) <= Bytes(B)
      BY <3>4
    <3>10. CASE x \in A
      BY <3>2, <3>3, <3>5, <3>6, <3>8, <3>9, <3>10
    <3>11. CASE x \notin A
      <4>1. Bytes(A \ {x}) = Bytes(A)
        BY <3>7, <3>11
      <4>2. Bytes(A) <= Bytes(U)
        BY <3>3, <3>5, <3>8, <3>9, <4>1
      <4>3. QED BY <3>2, <4>2
    <3>12. QED BY <3>10, <3>11
  <2>3. QED BY <2>1, <2>2
<1> HIDE DEF G
<1>2. S \in G
  BY <1>1, SetInduction DEF Sized
<1>3. T \cap S = T
  OBVIOUS
<1>4. QED BY <1>2, <1>3 DEF G

\* Two sets of rows together have no more bytes than one by one.
LEMMA BytesUnion ==
  ASSUME NEW S, Sized(S), NEW T, Sized(T)
  PROVE  Sized(S \cup T) /\ Bytes(S \cup T) <= Bytes(S) + Bytes(T)
<1> DEFINE G == {U \in SUBSET T : Sized(S \cup U) /\ Bytes(S \cup U) <= Bytes(S) + Bytes(U)}
<1>1. ASSUME NEW U \in SUBSET T, \A V \in SUBSET U : V # U => V \in G
      PROVE  U \in G
  <2>1. CASE U = {}
    <3>1. S \cup U = S
      BY <2>1
    <3>2. QED BY <2>1, <3>1, BytesUnfold, BytesType
  <2>2. CASE U # {}
    <3>1. PICK x \in U : TRUE
      BY <2>2
    <3>2. PICK V : V = U \ {x}
      OBVIOUS
    <3>3. Sized(U) /\ x.sizeBytes \in Nat /\ V \in G /\ Sized(V)
      BY <1>1, <3>2, SubsetSized DEF Sized
    <3>4. Bytes(U) = x.sizeBytes + Bytes(V)
      BY <3>2, <3>3, BytesRemove
    <3>5. S \cup U = (S \cup V) \cup {x}
      BY <3>2
    <3>6. Sized(S \cup U) /\ Bytes(S \cup U) <= Bytes(S \cup V) + x.sizeBytes
      BY <3>3, <3>5, BytesAdd
    <3>7. Bytes(S) \in Nat /\ Bytes(V) \in Nat /\ Bytes(S \cup V) \in Nat
            /\ Bytes(S \cup U) \in Nat
      BY <3>3, <3>6, BytesType
    <3>8. Bytes(S \cup V) <= Bytes(S) + Bytes(V)
      BY <3>3
    <3>9. QED BY <3>3, <3>4, <3>6, <3>7, <3>8
  <2>3. QED BY <2>1, <2>2
<1> HIDE DEF G
<1>2. T \in G
  BY <1>1, SetInduction DEF Sized
<1>3. QED BY <1>2 DEF G

\* Rows of a bounded size.
LEMMA BytesBound ==
  ASSUME NEW S, Sized(S), NEW m \in Nat, \A row \in S : row.sizeBytes <= m
  PROVE  Bytes(S) <= Cardinality(S) * m
<1> DEFINE G == {U \in SUBSET S : Bytes(U) <= Cardinality(U) * m}
<1>1. ASSUME NEW U \in SUBSET S, \A V \in SUBSET U : V # U => V \in G
      PROVE  U \in G
  <2>1. CASE U = {}
    BY <2>1, BytesUnfold, FS_EmptySet
  <2>2. CASE U # {}
    <3>1. PICK x \in U : TRUE
      BY <2>2
    <3>2. PICK V : V = U \ {x}
      OBVIOUS
    <3>3. Sized(U) /\ x.sizeBytes \in Nat /\ x.sizeBytes <= m /\ V \in G /\ Sized(V)
      BY <1>1, <3>2, SubsetSized DEF Sized
    <3>4. Bytes(U) = x.sizeBytes + Bytes(V)
      BY <3>2, <3>3, BytesRemove
    <3>5. Cardinality(U) \in Nat /\ Cardinality(V) = Cardinality(U) - 1
      BY <3>2, <3>3, FS_RemoveElement, FS_CardinalityType DEF Sized
    <3>6. Cardinality(V) * m = Cardinality(U) * m - m
      BY <3>5
    <3>7. Bytes(V) \in Nat /\ Bytes(V) <= Cardinality(V) * m
      BY <3>3, BytesType
    <3>8. Cardinality(U) * m \in Int
      BY <3>5
    <3>9. Bytes(U) <= Cardinality(U) * m
      BY <3>3, <3>4, <3>6, <3>7, <3>8
    <3>10. QED BY <3>9
  <2>3. QED BY <2>1, <2>2
<1> HIDE DEF G
<1>2. S \in G
  BY <1>1, SetInduction DEF Sized
<1>3. QED BY <1>2 DEF G

\* Rows that are changed one by one, but for their sizes.
LEMMA BytesImage ==
  ASSUME NEW S, Sized(S), NEW f, DOMAIN f = S,
         \A x \in S : f[x].sizeBytes = x.sizeBytes,
         \A x, y \in S : f[x] = f[y] => x = y
  PROVE  Sized({f[x] : x \in S}) /\ Bytes({f[x] : x \in S}) = Bytes(S)
<1> DEFINE image(U) == {f[x] : x \in U}
           G == {U \in SUBSET S : Sized(image(U)) /\ Bytes(image(U)) = Bytes(U)}
<1>1. ASSUME NEW U \in SUBSET S, \A V \in SUBSET U : V # U => V \in G
      PROVE  U \in G
  <2>1. CASE U = {}
    <3>1. image(U) = {}
      BY <2>1
    <3>2. QED BY <2>1, <3>1, SubsetSized
  <2>2. CASE U # {}
    <3>1. PICK x \in U : TRUE
      BY <2>2
    <3>2. PICK V : V = U \ {x}
      OBVIOUS
    <3>3. V \in G
      BY <1>1, <3>2
    <3> HIDE DEF G
    <3>31. Sized(U) /\ x.sizeBytes \in Nat /\ Sized(V)
      BY <3>2, SubsetSized DEF Sized
    <3>4. Bytes(U) = x.sizeBytes + Bytes(V)
      BY <3>2, <3>31, BytesRemove
    <3>5. image(U) = image(V) \cup {f[x]} /\ f[x] \notin image(V)
      BY <3>2
    <3>6. f[x].sizeBytes = x.sizeBytes /\ Sized(image(V)) /\ Bytes(image(V)) = Bytes(V)
      BY <3>3 DEF G
    <3> HIDE DEF image
    <3>7. PICK A, row : A = image(V) /\ row = f[x]
      OBVIOUS
    <3>8. Sized(A \cup {row}) /\ Bytes(A \cup {row}) = Bytes(A) + row.sizeBytes
      BY <3>31, <3>5, <3>6, <3>7, BytesAdd
    <3>9. Sized(image(U)) /\ Bytes(image(U)) = Bytes(V) + x.sizeBytes
      BY <3>5, <3>6, <3>7, <3>8
    <3>10. QED BY <3>31, <3>4, <3>9, BytesType DEF G
  <2>3. QED BY <2>1, <2>2
<1> HIDE DEF G
<1>2. S \in G
  BY <1>1, SetInduction DEF Sized
<1>3. QED BY <1>2 DEF G
-----------------------------------------------------------------------------
(* The inductive invariant. *)

\* The locals a handler is about to use are there.
LocalsOK(r) ==
  /\ r.pc \in {"replace", "share", "create"} =>
       /\ r.actor \in UserIds
       /\ r.article \in ArticleIds
       /\ r.size \in Sizes /\ r.size <= Cap
  /\ r.pc = "create" <=> r.image # None
  /\ r.pc = "evict" <=> r.victim # None
  /\ r.pc = "oldest" => r.total > Cap

\* An id is one row's, and no image alone is over the cap.
RowsOK ==
  /\ IsFiniteSet(media)
  /\ \A row \in media : row.sizeBytes <= Cap
  /\ \A x, y \in media : x.id = y.id => x = y

\* An id is drawn once.
DrawnOnce ==
  /\ \A s \in Slots, row \in media : reqs[s].image # row.id
  /\ \A s, q \in Slots : s # q /\ reqs[s].image # None => reqs[s].image # reqs[q].image

TypeInv ==
  /\ TypeOK
  /\ \A s \in Slots : LocalsOK(reqs[s])
  /\ RowsOK
  /\ DrawnOnce

\* The handler of s will see to it that the table is within the cap: it is still
\* to sum up, or what it counts down bounds what there is.
Covers(s) ==
  LET r == reqs[s]
  IN  \/ r.pc = "quota"
      \/ r.pc = "oldest" /\ Bytes(media) <= r.total
      \/ r.pc = "evict" /\ Bytes({row \in media : row.id # r.victim}) <= r.total

CapInv == Bytes(media) > Cap => abandoned \/ \E s \in Slots : Covers(s)

\* The image that the handler with the request r inserts for the account u, those of
\* the handlers in Q, and all that are about to be inserted for it.
Uploading(r, u) ==
  [id |-> r.image, articleId |-> r.article, uploadedByUserId |-> u, sizeBytes |-> r.size]

Creating(u) == {s \in Slots : reqs[s].pc = "create" /\ reqs[s].actor = u}

Inserts(Q, u) == {Uploading(reqs[q], u) : q \in Q}

Pending(u) == Inserts(Creating(u), u)

Own(u) == {row \in media : row.uploadedByUserId = u}

Limit == Share + (Cardinality(Slots) - 1) * Max(Sizes)

ShareInv == \A u \in UserIds \ Admins : Bytes(Own(u) \cup Pending(u)) <= Limit

\* While nothing but inserts has come between, what s counts down is there.
Undisturbed(s) ==
  s \in Evicting \ disturbed =>
    LET r == reqs[s]
    IN  /\ Bytes(media) > Cap
        /\ r.pc = "oldest" => r.total <= Bytes(media)
        /\ r.pc = "evict" => \E row \in media : /\ row.id = r.victim
                                                /\ r.total + row.sizeBytes <= Bytes(media)

-----------------------------------------------------------------------------
(* Types, rows and draws. *)

USE MediaConstants

\* A slot with no handler in it.
LEMMA IdleOK == Idle \in Request /\ LocalsOK(Idle) /\ Idle.image = None
BY DEF Idle, Request, PC, LocalsOK

\* Nothing is older than None.
LEMMA NoneNotDrawn ==
  ASSUME TypeInv
  PROVE  None \notin Drawn
BY DEF TypeInv, TypeOK, Drawn, Row

\* Forgetting ids leaves the rest in order.
LEMMA ForgetOrder ==
  ASSUME TypeInv, NEW ids, Forget(ids), Drawn' = Drawn \ ids
  PROVE  /\ older' \subseteq Drawn' \X Drawn'
         /\ \A x, y \in Drawn' : x # y => (<<x, y>> \in older' <=> <<y, x>> \notin older')
         /\ \A x, y, z \in Drawn' :
              <<x, y>> \in older' /\ <<y, z>> \in older' => <<x, z>> \in older'
<1> PICK D, D2 : D = Drawn /\ D2 = Drawn'
  OBVIOUS
<1>1. /\ older \subseteq D \X D
      /\ \A x, y \in D : x # y => (<<x, y>> \in older <=> <<y, x>> \notin older)
      /\ \A x, y, z \in D : <<x, y>> \in older /\ <<y, z>> \in older => <<x, z>> \in older
  BY DEF TypeInv, TypeOK
<1>2. \A x, y \in D2 : <<x, y>> \in older' <=> <<x, y>> \in older
  BY DEF Forget
<1>3. older' \subseteq D2 \X D2
  BY <1>1 DEF Forget
<1>4. D2 \subseteq D
  OBVIOUS
<1>5. QED BY <1>1, <1>2, <1>3, <1>4

\* A step that replaces one request, not by one about to insert, and leaves the
\* tables alone.
LEMMA RequestStep ==
  ASSUME TypeInv, NEW s \in Slots, NEW r \in Request, LocalsOK(r), r.image = None,
         reqs' = [reqs EXCEPT ![s] = r], UNCHANGED <<parents, media>>,
         (older' = older /\ reqs[s].image = None) \/ Forget({reqs[s].image}),
         disturbed' \subseteq Evicting', abandoned' \in BOOLEAN
  PROVE  TypeInv'
<1>0. reqs \in [Slots -> Request]
  BY DEF TypeInv, TypeOK
<1>1. /\ reqs' \in [Slots -> Request]
      /\ reqs'[s] = r /\ \A q \in Slots \ {s} : reqs'[q] = reqs[q]
  BY <1>0
<1>2. Drawn' = Drawn \ {reqs[s].image}
  BY <1>0, <1>1 DEF Drawn, TypeInv, DrawnOnce
<1>3. Forget({reqs[s].image})
  <2>1. CASE older' = older /\ reqs[s].image = None
    BY <2>1, NoneNotDrawn DEF Forget, TypeInv, TypeOK
  <2>2. QED BY <2>1
<1>4. TypeOK'
  BY <1>1, <1>2, <1>3, ForgetOrder DEF TypeInv, TypeOK, parents
<1>5. \A q \in Slots : LocalsOK(reqs'[q])
  BY <1>1 DEF TypeInv
<1>6. RowsOK' /\ DrawnOnce'
  BY <1>1 DEF TypeInv, RowsOK, DrawnOnce, TypeOK, Row
<1>7. QED BY <1>4, <1>5, <1>6 DEF TypeInv

\* DELETE FROM media, with a request that ends or goes on, or none.
LEMMA DeleteStep ==
  ASSUME TypeInv, NEW gone \in SUBSET media, DeleteImages(gone),
         \/ reqs' = reqs
         \/ \E s \in Slots, r \in Request :
              LocalsOK(r) /\ r.image = None /\ reqs[s].image = None /\ reqs' = [reqs EXCEPT ![s] = r],
         stored' \subseteq stored, UNCHANGED accounts, \A row \in media' : row.articleId \in stored',
         disturbed' \subseteq Evicting', abandoned' \in BOOLEAN
  PROVE  TypeInv'
<1>0. reqs \in [Slots -> Request] /\ media' = media \ gone
  BY DEF TypeInv, TypeOK, DeleteImages
<1>1. /\ reqs' \in [Slots -> Request]
      /\ \A q \in Slots : LocalsOK(reqs'[q]) /\ reqs'[q].image = reqs[q].image
  <2>1. CASE reqs' = reqs
    BY <1>0, <2>1 DEF TypeInv
  <2>2. CASE reqs' # reqs
    <3>1. PICK s \in Slots, r \in Request :
            LocalsOK(r) /\ r.image = None /\ reqs[s].image = None /\ reqs' = [reqs EXCEPT ![s] = r]
      BY <2>2
    <3>2. QED BY <1>0, <3>1 DEF TypeInv
  <2>3. QED BY <2>1, <2>2
<1> DEFINE ids == {row.id : row \in gone}
<1>2. {reqs'[q].image : q \in Slots} = {reqs[q].image : q \in Slots}
  BY <1>1
<1>3. {row.id : row \in media'} = {row.id : row \in media} \ ids
  BY <1>0 DEF TypeInv, RowsOK
<1>4. \A q \in Slots : reqs[q].image \notin ids
  BY DEF TypeInv, DrawnOnce
<1>5. Drawn' = Drawn \ ids
  <2>1. PICK rows, images :
          rows = {row.id : row \in media} /\ images = {reqs[q].image : q \in Slots}
    OBVIOUS
  <2> HIDE DEF ids
  <2>2. Drawn = rows \cup (images \ {None})
    BY <2>1 DEF Drawn
  <2>3. Drawn' = (rows \ ids) \cup (images \ {None})
    BY <1>2, <1>3, <2>1 DEF Drawn
  <2>4. images \cap ids = {}
    BY <1>4, <2>1
  <2>5. QED BY <2>2, <2>3, <2>4
<1>6. Forget(ids)
  BY DEF DeleteImages
<1>7. TypeOK'
  <2> HIDE DEF ids
  <2>1. /\ older' \subseteq Drawn' \X Drawn'
        /\ \A x, y \in Drawn' : x # y => (<<x, y>> \in older' <=> <<y, x>> \notin older')
        /\ \A x, y, z \in Drawn' :
             <<x, y>> \in older' /\ <<y, z>> \in older' => <<x, z>> \in older'
    BY <1>5, <1>6, ForgetOrder
  <2>2. QED BY <1>0, <1>1, <2>1 DEF TypeInv, TypeOK
<1>8. RowsOK'
  BY <1>0, FS_Subset DEF TypeInv, RowsOK
<1>9. DrawnOnce'
  BY <1>0, <1>1 DEF TypeInv, DrawnOnce
<1>10. QED BY <1>1, <1>7, <1>8, <1>9 DEF TypeInv

\* How an id is drawn.
LEMMA DrawStep ==
  ASSUME TypeInv, NEW s \in Slots, CheckShare(s), disturbed' \subseteq Evicting'
  PROVE  TypeInv'
<1>0. reqs \in [Slots -> Request] /\ UNCHANGED <<stored, accounts, media, abandoned>>
  BY DEF TypeInv, TypeOK, CheckShare, parents
<1>1. PICK x \in FreshImage :
        /\ older' = older \cup (Drawn \X {x})
        /\ reqs' = [reqs EXCEPT ![s].pc = "create", ![s].image = x]
  BY DEF CheckShare, StartCreate
<1>2. x \in Images /\ x \notin Drawn /\ x # None
  BY DEF FreshImage
<1>3. reqs[s].pc = "share" /\ reqs[s].image = None
  BY DEF CheckShare, TypeInv, LocalsOK
<1>4. /\ reqs' \in [Slots -> Request]
      /\ \A q \in Slots \ {s} : reqs'[q] = reqs[q]
      /\ reqs'[s].pc = "create" /\ reqs'[s].image = x
      /\ reqs'[s].actor = reqs[s].actor /\ reqs'[s].article = reqs[s].article
      /\ reqs'[s].size = reqs[s].size /\ reqs'[s].victim = reqs[s].victim
  BY <1>0, <1>1, <1>2 DEF Request, PC
<1>5. \A q \in Slots : LocalsOK(reqs'[q])
  BY <1>2, <1>3, <1>4 DEF TypeInv, LocalsOK
<1>6. \A q \in Slots : reqs[q].image # x
  BY <1>2 DEF Drawn
<1>7. Drawn' = Drawn \cup {x}
  BY <1>0, <1>2, <1>3, <1>4 DEF Drawn
<1>8. RowsOK' /\ DrawnOnce'
  <2>1. \A row \in media : row.id # x
    BY <1>2 DEF Drawn
  <2>2. QED BY <1>0, <1>4, <1>6, <2>1 DEF TypeInv, RowsOK, DrawnOnce
<1>9. TypeOK'
  <2>1. PICK D : D = Drawn
    OBVIOUS
  <2>2. /\ older \subseteq D \X D
        /\ \A y, z \in D : y # z => (<<y, z>> \in older <=> <<z, y>> \notin older)
        /\ \A y, z, w \in D : <<y, z>> \in older /\ <<z, w>> \in older => <<y, w>> \in older
    BY <2>1 DEF TypeInv, TypeOK
  <2>3. x \notin D /\ older' = older \cup (D \X {x})
    BY <1>1, <1>2, <2>1
  <2>4. /\ older' \subseteq (D \cup {x}) \X (D \cup {x})
        /\ \A y, z \in D \cup {x} : y # z => (<<y, z>> \in older' <=> <<z, y>> \notin older')
        /\ \A y, z, w \in D \cup {x} :
             <<y, z>> \in older' /\ <<z, w>> \in older' => <<y, w>> \in older'
    BY <2>2, <2>3
  <2>5. QED BY <1>0, <1>4, <1>7, <2>1, <2>4 DEF TypeInv, TypeOK
<1>10. QED BY <1>5, <1>8, <1>9 DEF TypeInv

\* INSERT INTO media: the id is the image's that was to be inserted.
LEMMA InsertStep ==
  ASSUME TypeInv, NEW s \in Slots, Create(s), disturbed' \subseteq Evicting'
  PROVE  TypeInv'
<1> DEFINE r == reqs[s]
           row == [id |-> r.image, articleId |-> r.article, uploadedByUserId |-> r.actor,
                   sizeBytes |-> r.size]
           done == [Idle EXCEPT !.pc = "quota"]
<1>0. reqs \in [Slots -> Request]
  BY DEF TypeInv, TypeOK
<1>1. /\ r.pc = "create" /\ r.article \in stored /\ r.actor \in accounts
      /\ media' = media \cup {row} /\ reqs' = [reqs EXCEPT ![s] = done]
      /\ UNCHANGED <<stored, accounts, older, abandoned>>
  BY DEF Create, References, parents
<1>2. /\ r.image \in Images /\ r.image # None /\ r.article \in ArticleIds
      /\ r.actor \in UserIds /\ r.size \in Sizes /\ r.size <= Cap
  BY <1>0, <1>1 DEF TypeInv, LocalsOK, Request
<1>3. done \in Request /\ LocalsOK(done) /\ done.image = None
  BY DEF Idle, Request, PC, LocalsOK
<1>4. PICK x, n : x = row /\ n = done
  OBVIOUS
<1>5. /\ x.id = r.image /\ x.articleId = r.article /\ x.uploadedByUserId = r.actor
      /\ x.sizeBytes = r.size /\ x \in Row
  BY <1>2, <1>4 DEF Row
<1>6. /\ media' = media \cup {x}
      /\ reqs' \in [Slots -> Request] /\ reqs'[s] = n
      /\ \A q \in Slots \ {s} : reqs'[q] = reqs[q]
      /\ n.image = None /\ LocalsOK(n)
  BY <1>0, <1>1, <1>3, <1>4
<1> HIDE DEF row, done
<1>7. Drawn' = Drawn
  BY <1>2, <1>5, <1>6 DEF Drawn
<1>8. TypeOK'
  BY <1>1, <1>5, <1>6, <1>7 DEF TypeInv, TypeOK
<1>9. \A q \in Slots : LocalsOK(reqs'[q])
  BY <1>6 DEF TypeInv
<1>10. RowsOK'
  <2>1. IsFiniteSet(media')
    BY <1>6, FS_AddElement DEF TypeInv, RowsOK
  <2>2. \A y \in media : y.id # x.id
    BY <1>5 DEF TypeInv, DrawnOnce
  <2>3. QED BY <1>2, <1>5, <1>6, <2>1, <2>2 DEF TypeInv, RowsOK
<1>11. DrawnOnce'
  <2>1. \A q \in Slots, y \in media' : reqs'[q].image # y.id
    <3> TAKE q \in Slots, y \in media'
    <3>1. CASE q = s
      BY <1>2, <1>5, <1>6, <3>1 DEF TypeInv, TypeOK, Row
    <3>2. CASE q # s
      BY <1>2, <1>5, <1>6, <3>2 DEF TypeInv, DrawnOnce
    <3>3. QED BY <3>1, <3>2
  <2>2. QED BY <1>6, <2>1 DEF TypeInv, DrawnOnce
<1>12. QED BY <1>8, <1>9, <1>10, <1>11 DEF TypeInv

\* The images that stay when the account u goes, and how: f keeps a row's id,
\* article and size.
Kept(u) == {row \in media : authorId[row.articleId] # u}

Disowns(f, u) ==
  /\ f \in [Kept(u) -> Row]
  /\ media' = {f[row] : row \in Kept(u)}
  /\ \A row \in Kept(u) :
       /\ f[row].id = row.id /\ f[row].articleId = row.articleId
       /\ f[row].sizeBytes = row.sizeBytes
       /\ f[row].uploadedByUserId =
            IF row.uploadedByUserId = u THEN None ELSE row.uploadedByUserId
       /\ row.uploadedByUserId # u => f[row] = row

\* DELETE FROM users, which cascades to articles and images and leaves some
\* images without an uploader.
LEMMA DisownRows ==
  ASSUME TypeInv, NEW u \in UserIds, AccountGone(u)
  PROVE  \E f : Disowns(f, u)
<1> DEFINE articles == {a \in ArticleIds : authorId[a] = u}
           gone == {row \in media : row.articleId \in articles}
           kept == Kept(u)
           Disown(row) == IF row.uploadedByUserId = u
                          THEN [row EXCEPT !.uploadedByUserId = None] ELSE row
           f == [row \in kept |-> Disown(row)]
<1>1. media \subseteq Row
  BY DEF TypeInv, TypeOK
<1>2. media \ gone = kept
  BY <1>1 DEF Row, Kept
<1>3. media' = {Disown(row) : row \in media \ gone}
  BY DEF AccountGone
<1>4. \A row \in Row : Disown(row) \in Row
  BY DEF Row
<1>5. f \in [kept -> Row]
  BY <1>1, <1>4 DEF Kept
<1>6. \A row \in kept : f[row] = Disown(row)
  OBVIOUS
<1>7. media' = {f[row] : row \in kept}
  <2> HIDE DEF Disown, gone, kept, f
  <2>1. QED BY <1>2, <1>3, <1>6
<1>8. ASSUME NEW row \in kept
      PROVE  /\ f[row].id = row.id /\ f[row].articleId = row.articleId
             /\ f[row].sizeBytes = row.sizeBytes
             /\ f[row].uploadedByUserId =
                  IF row.uploadedByUserId = u THEN None ELSE row.uploadedByUserId
             /\ row.uploadedByUserId # u => f[row] = row
  BY <1>1 DEF Row, Kept
<1> HIDE DEF f
<1>9. QED BY <1>5, <1>7, <1>8 DEF Disowns

\* The step as a whole.
LEMMA DisownStep ==
  ASSUME TypeInv, NEW u \in UserIds, AccountGone(u), disturbed' \subseteq Evicting'
  PROVE  TypeInv'
<1> DEFINE kept == {row \in media : authorId[row.articleId] # u}
           gone == {row \in media : authorId[row.articleId] = u}
           ids == {row.id : row \in gone}
<1>0. /\ media \subseteq Row /\ stored' = stored \ {a \in ArticleIds : authorId[a] = u}
      /\ accounts' = accounts \ {u} /\ UNCHANGED <<reqs, abandoned>>
      /\ Forget({row.id : row \in {x \in media :
                                     x.articleId \in {a \in ArticleIds : authorId[a] = u}}})
  BY DEF TypeInv, TypeOK, AccountGone
<1>1. PICK f : Disowns(f, u)
  BY DisownRows
<1>1a. f \in [kept -> Row] /\ media' = {f[row] : row \in kept}
  BY <1>1 DEF Disowns, Kept
<1>1b. \A row \in kept :
         /\ f[row].id = row.id /\ f[row].articleId = row.articleId
         /\ f[row].sizeBytes = row.sizeBytes
         /\ f[row].uploadedByUserId =
              IF row.uploadedByUserId = u THEN None ELSE row.uploadedByUserId
  BY <1>1 DEF Disowns, Kept
<1>2. \A y \in media' : \E row \in kept : y = f[row]
  BY <1>1a, <1>1b
<1>3. Forget(ids)
  <2>1. gone = {x \in media : x.articleId \in {a \in ArticleIds : authorId[a] = u}}
    BY <1>0 DEF Row
  <2>2. QED BY <1>0, <2>1
<1>4. Drawn' = Drawn \ ids
  <2>1. {y.id : y \in media'} = {row.id : row \in kept}
    BY <1>1a, <1>1b
  <2>2. {row.id : row \in kept} = {row.id : row \in media} \ ids
    BY <1>0 DEF TypeInv, RowsOK
  <2>3. {reqs[s].image : s \in Slots} \cap ids = {}
    BY DEF TypeInv, DrawnOnce
  <2> HIDE DEF kept, gone, ids
  <2>4. QED BY <1>0, <2>1, <2>2, <2>3 DEF Drawn
<1>5. TypeOK'
  <2>1. media' \subseteq Row
    BY <1>1a, <1>1b
  <2>2. ASSUME NEW y \in media'
        PROVE  y.articleId \in stored' /\ y.uploadedByUserId \in accounts' \cup {None}
    <3>1. PICK row \in kept : y = f[row]
      BY <1>2
    <3>2. row \in media /\ authorId[row.articleId] # u
      OBVIOUS
    <3>3. row.articleId \in stored /\ row.uploadedByUserId \in accounts \cup {None}
      BY <3>2 DEF TypeInv, TypeOK
    <3>4. QED BY <1>0, <1>1b, <3>1, <3>2, <3>3
  <2>3. /\ older' \subseteq Drawn' \X Drawn'
        /\ \A x, y \in Drawn' : x # y => (<<x, y>> \in older' <=> <<y, x>> \notin older')
        /\ \A x, y, z \in Drawn' :
             <<x, y>> \in older' /\ <<y, z>> \in older' => <<x, z>> \in older'
    <3> HIDE DEF ids
    <3>1. QED BY <1>3, <1>4, ForgetOrder
  <2>4. stored' \subseteq ArticleIds /\ accounts' \subseteq UserIds
          /\ reqs' \in [Slots -> Request] /\ abandoned' \in BOOLEAN
    BY <1>0 DEF TypeInv, TypeOK
  <2>5. QED BY <2>1, <2>2, <2>3, <2>4 DEF TypeOK
<1>6. RowsOK'
  <2>1. IsFiniteSet(kept)
    BY FS_Subset DEF TypeInv, RowsOK
  <2>2. f \in Surjection(kept, media')
    <3>1. f \in [kept -> media']
      BY <1>1a, <1>1b
    <3>2. \A y \in media' : \E row \in kept : f[row] = y
      BY <1>2
    <3> HIDE DEF kept
    <3>3. QED BY <3>1, <3>2 DEF Surjection
  <2>3. IsFiniteSet(media')
    BY <2>1, <2>2, FS_Surjection
  <2>4. \A row \in kept : row.sizeBytes <= Cap
    BY DEF TypeInv, RowsOK
  <2>5. \A x, y \in kept : x.id = y.id => x = y
    BY DEF TypeInv, RowsOK
  <2> HIDE DEF kept
  <2>6. QED BY <1>1a, <1>1b, <1>2, <2>3, <2>4, <2>5 DEF RowsOK
<1>7. DrawnOnce'
  <2>1. ASSUME NEW s \in Slots, NEW y \in media'  PROVE reqs[s].image # y.id
    BY <1>1a, <1>1b, <1>2 DEF TypeInv, DrawnOnce
  <2>2. QED BY <1>0, <2>1 DEF TypeInv, DrawnOnce
<1>8. QED BY <1>0, <1>5, <1>6, <1>7 DEF TypeInv

\* The guards' look at the article begins a handler.
LEMMA CallStep ==
  ASSUME TypeInv, Calls, disturbed' \subseteq Evicting'
  PROVE  TypeInv'
<1>1. PICK s \in Slots, u \in accounts, a \in ArticleIds :
        \/ \E size \in Sizes : UploadRead(s, u, a, size)
        \/ RemoveRead(s, u, a)
  BY DEF Calls
<1>2. u \in UserIds
  BY DEF TypeInv, TypeOK
<1>3. ASSUME NEW size \in Sizes, UploadRead(s, u, a, size)
      PROVE  TypeInv'
  <2>1. PICK r : r = [Idle EXCEPT !.pc = "replace", !.actor = u, !.article = a, !.size = size]
    OBVIOUS
  <2>2. r \in Request /\ LocalsOK(r) /\ r.image = None
    BY <1>2, <1>3, <2>1 DEF UploadRead, Idle, Request, PC, LocalsOK
  <2>3. reqs' = [reqs EXCEPT ![s] = r] /\ reqs[s].image = None
          /\ UNCHANGED <<parents, media, older, abandoned>>
    BY <1>3, <2>1, IdleOK DEF UploadRead, Start
  <2>4. QED BY <2>2, <2>3, RequestStep DEF TypeInv, TypeOK
<1>4. CASE RemoveRead(s, u, a)
  <2>1. PICK r : r = [Idle EXCEPT !.pc = "remove", !.article = a]
    OBVIOUS
  <2>2. r \in Request /\ LocalsOK(r) /\ r.image = None
    BY <2>1 DEF Idle, Request, PC, LocalsOK
  <2>3. reqs' = [reqs EXCEPT ![s] = r] /\ reqs[s].image = None
          /\ UNCHANGED <<parents, media, older, abandoned>>
    BY <1>4, <2>1, IdleOK DEF RemoveRead, Start
  <2>4. QED BY <2>2, <2>3, RequestStep DEF TypeInv, TypeOK
<1>5. QED BY <1>1, <1>3, <1>4

\* The requests that the statements of enforceQuota leave behind.
LEMMA QuotaStep ==
  ASSUME TypeInv, NEW s \in Slots, SumUp(s) \/ FindOldest(s), disturbed' \subseteq Evicting'
  PROVE  TypeInv'
<1>0. reqs \in [Slots -> Request] /\ media \subseteq Row /\ LocalsOK(reqs[s])
  BY DEF TypeInv, TypeOK
<1>1. CASE SumUp(s)
  <2>1. PICK total : total = Bytes(media)
    OBVIOUS
  <2>2. Sized(media)
    BY <1>0 DEF TypeInv, RowsOK, Sized, Row
  <2>3. total \in Nat
    BY <2>1, <2>2, BytesType
  <2>4. PICK r : r = IF OverCap(total) THEN [Idle EXCEPT !.pc = "oldest", !.total = total] ELSE Idle
    OBVIOUS
  <2>5. r \in Request /\ LocalsOK(r) /\ r.image = None
    BY <2>3, <2>4, IdleOK DEF OverCap, Idle, Request, PC, LocalsOK
  <2>6. reqs' = [reqs EXCEPT ![s] = r] /\ reqs[s].image = None
          /\ UNCHANGED <<parents, media, older>> /\ abandoned' = FALSE
    BY <1>0, <1>1, <2>1, <2>4 DEF SumUp, LocalsOK
  <2>7. QED BY <2>5, <2>6, RequestStep
<1>2. CASE FindOldest(s)
  <2>1. reqs[s].pc = "oldest" /\ reqs[s].image = None /\ reqs[s].total \in Nat
          /\ reqs[s].total > Cap /\ reqs[s] \in Request
          /\ UNCHANGED <<parents, media, older, abandoned>>
    BY <1>0, <1>2 DEF FindOldest, LocalsOK, Request
  <2>2. CASE media = {}
    <3>1. reqs' = [reqs EXCEPT ![s] = Idle]
      BY <1>2, <2>2 DEF FindOldest, Respond
    <3>2. QED BY <2>1, <3>1, IdleOK, RequestStep DEF TypeInv, TypeOK
  <2>3. CASE media # {}
    <3>1. PICK row \in media :
            reqs' = [reqs EXCEPT ![s] = [reqs[s] EXCEPT !.pc = "evict", !.victim = row.id,
                                                        !.total = @ - row.sizeBytes]]
      BY <1>2, <2>3 DEF FindOldest
    <3>2. row.id \in Images /\ row.sizeBytes \in Nat /\ row.sizeBytes <= Cap
      BY <1>0 DEF TypeInv, RowsOK, Row
    <3>3. reqs[s].total - row.sizeBytes \in Nat
      BY <2>1, <3>2
    <3>4. PICK q \in Request : q = reqs[s]
      BY <1>0
    <3>5. PICK r : r = [q EXCEPT !.pc = "evict", !.victim = row.id, !.total = @ - row.sizeBytes]
      OBVIOUS
    <3>6. r \in Request /\ r.pc = "evict" /\ r.image = q.image /\ r.victim = row.id
      BY <3>2, <3>3, <3>4, <3>5 DEF Request, PC
    <3>7. LocalsOK(r) /\ r.image = None
      BY <2>1, <3>2, <3>4, <3>6 DEF LocalsOK
    <3>8. reqs' = [reqs EXCEPT ![s] = r]
      BY <3>1, <3>4, <3>5
    <3>9. QED BY <2>1, <3>6, <3>7, <3>8, RequestStep DEF TypeInv, TypeOK
  <2>4. QED BY <2>2, <2>3
<1>3. QED BY <1>1, <1>2

\* Evict and the two other statements that delete images.
LEMMA DestroyStep ==
  ASSUME TypeInv, NEW s \in Slots, Replace(s) \/ Evict(s) \/ RemoveDestroy(s),
         disturbed' \subseteq Evicting'
  PROVE  TypeInv'
<1>0. reqs \in [Slots -> Request] /\ reqs[s] \in Request /\ LocalsOK(reqs[s])
        /\ abandoned \in BOOLEAN /\ \A row \in media : row.articleId \in stored
  BY DEF TypeInv, TypeOK
<1>1. PICK q \in Request : q = reqs[s]
  BY <1>0
<1>2. ASSUME NEW gone \in SUBSET media, DeleteImages(gone), NEW r \in Request, LocalsOK(r),
             r.image = None, q.image = None, reqs' = [reqs EXCEPT ![s] = r],
             UNCHANGED <<parents, abandoned>>
      PROVE  TypeInv'
  <2>1. UNCHANGED <<stored, accounts>> /\ media' \subseteq media
    BY <1>2 DEF parents, DeleteImages
  <2>2. QED BY <1>0, <1>1, <1>2, <2>1, DeleteStep
<1>3. CASE Replace(s)
  <2>1. PICK r : r = [q EXCEPT !.pc = "share"]
    OBVIOUS
  <2>2. r \in Request /\ LocalsOK(r) /\ r.image = None /\ q.image = None
    BY <1>0, <1>1, <1>3, <2>1 DEF Replace, Request, PC, LocalsOK
  <2>3. reqs' = [reqs EXCEPT ![s] = r]
    BY <1>0, <1>1, <1>3, <2>1 DEF Replace
  <2>4. QED BY <1>2, <1>3, <2>2, <2>3 DEF Replace, ImagesOf
<1>4. CASE Evict(s)
  <2>1. PICK r : r = IF OverCap(q.total) THEN [q EXCEPT !.pc = "oldest", !.victim = None] ELSE Idle
    OBVIOUS
  <2>2. q.pc = "evict" /\ q.total \in Nat
    BY <1>1, <1>4 DEF Evict, Request
  <2>3. r \in Request /\ LocalsOK(r) /\ r.image = None /\ q.image = None
    <3>1. CASE OverCap(q.total)
      BY <1>0, <1>1, <2>1, <2>2, <3>1 DEF OverCap, Request, PC, LocalsOK
    <3>2. CASE ~ OverCap(q.total)
      BY <1>0, <1>1, <2>1, <2>2, <3>2, IdleOK DEF LocalsOK
    <3>3. QED BY <3>1, <3>2
  <2>4. reqs' = [reqs EXCEPT ![s] = r]
    BY <1>1, <1>4, <2>1 DEF Evict
  <2>5. QED BY <1>2, <1>4, <2>3, <2>4 DEF Evict
<1>5. CASE RemoveDestroy(s)
  <2>1. q.image = None /\ reqs' = [reqs EXCEPT ![s] = Idle]
    BY <1>0, <1>1, <1>5 DEF RemoveDestroy, Respond, LocalsOK
  <2>2. QED BY <1>2, <1>5, <2>1, IdleOK DEF RemoveDestroy, ImagesOf
<1>6. QED BY <1>3, <1>4, <1>5

\* Every step of a handler.
LEMMA HandlerStep ==
  ASSUME TypeInv, Handlers, disturbed' \subseteq Evicting'
  PROVE  TypeInv'
<1>1. PICK s \in Slots :
        \/ Replace(s) \/ CheckShare(s) \/ OverShare(s) \/ Create(s) \/ CreateFails(s)
        \/ SumUp(s) \/ FindOldest(s) \/ Evict(s) \/ RemoveDestroy(s)
  BY DEF Handlers
<1>2. CASE OverShare(s) \/ CreateFails(s)
  <2>1. /\ reqs' = [reqs EXCEPT ![s] = Idle] /\ UNCHANGED <<parents, media, abandoned>>
        /\ (older' = older /\ reqs[s].image = None) \/ Forget({reqs[s].image})
    BY <1>2 DEF OverShare, CreateFails, Respond, TypeInv, LocalsOK
  <2>2. QED BY <2>1, IdleOK, RequestStep DEF TypeInv, TypeOK
<1>3. QED BY <1>1, <1>2, DestroyStep, DrawStep, InsertStep, QuotaStep

\* And of what happens to the handlers.
LEMMA EnvironmentStep ==
  ASSUME TypeInv, Environment, disturbed' \subseteq Evicting'
  PROVE  TypeInv'
<1>1. ASSUME NEW a \in ArticleIds, ArticleGone(a)
      PROVE  TypeInv'
  <2>1. /\ DeleteImages(ImagesOf(a)) /\ ImagesOf(a) \in SUBSET media
        /\ stored' = stored \ {a} /\ UNCHANGED <<accounts, reqs, abandoned>>
    BY <1>1 DEF ArticleGone, ImagesOf
  <2>2. \A row \in media' : row.articleId \in stored'
    BY <2>1 DEF DeleteImages, ImagesOf, TypeInv, TypeOK
  <2>3. QED BY <2>1, <2>2, DeleteStep DEF TypeInv, TypeOK
<1>2. ASSUME NEW s \in Slots, HandlerDies(s)
      PROVE  TypeInv'
  <2>1. /\ reqs' = [reqs EXCEPT ![s] = Idle] /\ UNCHANGED <<parents, media>>
        /\ Forget({reqs[s].image})
    BY <1>2 DEF HandlerDies, Respond
  <2>2. abandoned' \in BOOLEAN
    BY <1>2, Zenon DEF HandlerDies
  <2>3. QED BY <2>1, <2>2, IdleOK, RequestStep
<1>3. QED BY <1>1, <1>2, DisownStep DEF Environment

\* The empty table to begin with.
LEMMA TypeInit == Init => TypeInv
<1> SUFFICES ASSUME Init PROVE TypeInv
  OBVIOUS
<1>1. \A s \in Slots : reqs[s] = Idle
  BY DEF Init
<1>2. Drawn = {}
  BY <1>1, IdleOK DEF Init, Drawn
<1>3. TypeOK
  BY <1>2, IdleOK DEF Init, TypeOK
<1>4. RowsOK /\ DrawnOnce
  BY <1>1, IdleOK, FS_EmptySet DEF Init, RowsOK, DrawnOnce
<1>5. QED BY <1>1, <1>3, <1>4, IdleOK DEF TypeInv

\* The part of the invariant that every other proof builds on.
LEMMA TypeNext == TypeInv /\ [Next]_vars => TypeInv'
<1> SUFFICES ASSUME TypeInv, [Next]_vars PROVE TypeInv'
  OBVIOUS
<1>1. CASE Next
  <2>1. disturbed' \subseteq Evicting'
    BY <1>1 DEF Next, Observe
  <2>2. QED BY <1>1, <2>1, CallStep, HandlerStep, EnvironmentStep DEF Next
<1>2. CASE UNCHANGED vars
  <2>1. UNCHANGED <<stored, accounts, media, older, reqs, disturbed, abandoned>>
    BY <1>2 DEF vars, parents
  <2>2. Drawn' = Drawn /\ Evicting' = Evicting
    BY <2>1 DEF Drawn, Evicting
  <2>3. TypeOK'
    BY <2>1, <2>2 DEF TypeInv, TypeOK
  <2>4. \A s \in Slots : LocalsOK(reqs'[s])
    BY <2>1 DEF TypeInv
  <2>5. RowsOK' /\ DrawnOnce'
    BY <2>1 DEF TypeInv, RowsOK, DrawnOnce
  <2>6. QED BY <2>3, <2>4, <2>5 DEF TypeInv
<1>3. QED BY <1>1, <1>2

\* Types, foreign keys and the order of creation, whatever handlers, deletions and
\* deaths interleave (media.model.ts, migrations 000008 and 000014).
THEOREM MediaTyped == Spec => []TypeOK
<1>1. TypeInv => TypeOK
  BY DEF TypeInv
<1>2. QED BY <1>1, TypeInit, TypeNext, PTL DEF Spec


-----------------------------------------------------------------------------
(* The cap. *)

\* The sizes of the table's rows, and of any part of it, can be summed up.
LEMMA MediaSized ==
  ASSUME TypeInv
  PROVE  Sized(media) /\ \A row \in media : row.sizeBytes \in Nat \ {0}
BY DEF TypeInv, TypeOK, RowsOK, Row, Sized

\* After the step as before it.
LEMMA MediaSizedNext ==
  ASSUME TypeInv'
  PROVE  Sized(media') /\ \A row \in media' : row.sizeBytes \in Nat \ {0}
<1>1. IsFiniteSet(media') /\ media' \subseteq Row
  BY DEF TypeInv, TypeOK, RowsOK
<1>2. QED BY <1>1 DEF Row, Sized

\* No more bytes than before, whichever image is left out of account.
Shrinks ==
  /\ Bytes(media') <= Bytes(media)
  /\ \A v : Bytes({row \in media' : row.id # v}) <= Bytes({row \in media : row.id # v})

\* Deleting shrinks the table.
LEMMA DeletingShrinks ==
  ASSUME TypeInv, media' \subseteq media
  PROVE  Shrinks
<1>1. Bytes(media') <= Bytes(media)
  BY MediaSized, BytesMonotone
<1>2. ASSUME NEW v
      PROVE  Bytes({row \in media' : row.id # v}) <= Bytes({row \in media : row.id # v})
  <2>1. PICK S, T : S = {row \in media : row.id # v} /\ T = {row \in media' : row.id # v}
    OBVIOUS
  <2>2. S \in SUBSET media /\ T \in SUBSET S
    BY <2>1
  <2>3. Sized(S)
    BY <2>2, MediaSized, SubsetSized
  <2>4. QED BY <2>1, <2>2, <2>3, BytesMonotone
<1>3. QED BY <1>1, <1>2 DEF Shrinks

\* The images that stay when an account goes keep their bytes.
LEMMA DisownBytes ==
  ASSUME TypeInv, NEW u \in UserIds, NEW f, Disowns(f, u), NEW K \in SUBSET Kept(u)
  PROVE  Bytes({f[row] : row \in K}) = Bytes(K)
<1>1. K \in SUBSET media /\ Kept(u) \in SUBSET media
  BY DEF Kept
<1>2. Sized(K)
  BY <1>1, MediaSized, SubsetSized
<1>3. PICK g : g = [row \in K |-> f[row]]
  OBVIOUS
<1>4. \A x \in K : g[x] = f[x] /\ f[x].sizeBytes = x.sizeBytes /\ f[x].id = x.id
  BY <1>3 DEF Disowns
<1>5. \A x, y \in K : g[x] = g[y] => x = y
  BY <1>1, <1>4 DEF TypeInv, RowsOK
<1>6. DOMAIN g = K /\ \A x \in K : g[x].sizeBytes = x.sizeBytes
  BY <1>3, <1>4
<1>7. Bytes({g[x] : x \in K}) = Bytes(K)
  BY <1>2, <1>5, <1>6, BytesImage
<1>8. {g[x] : x \in K} = {f[x] : x \in K}
  BY <1>4
<1>9. QED BY <1>7, <1>8

\* So an account that goes shrinks the table, too.
LEMMA DisowningShrinks ==
  ASSUME TypeInv, NEW u \in UserIds, AccountGone(u)
  PROVE  Shrinks
<1>1. PICK f : Disowns(f, u)
  BY DisownRows
<1>2. /\ media' = {f[row] : row \in Kept(u)}
      /\ \A row \in Kept(u) : f[row].id = row.id
      /\ Kept(u) \in SUBSET media
  BY <1>1 DEF Disowns, Kept
<1>3. Bytes(media') <= Bytes(media)
  BY <1>1, <1>2, DisownBytes, MediaSized, BytesMonotone
<1>4. ASSUME NEW v
      PROVE  Bytes({row \in media' : row.id # v}) <= Bytes({row \in media : row.id # v})
  <2>1. PICK S, T, K : /\ S = {row \in media : row.id # v}
                       /\ T = {row \in media' : row.id # v}
                       /\ K = {row \in Kept(u) : row.id # v}
    OBVIOUS
  <2>2. S \in SUBSET media /\ K \in SUBSET S /\ K \in SUBSET Kept(u)
    BY <1>2, <2>1
  <2>3. T = {f[row] : row \in K}
    BY <1>2, <2>1
  <2>4. Bytes(T) = Bytes(K)
    BY <1>1, <2>2, <2>3, DisownBytes
  <2>5. Sized(S)
    BY <2>2, MediaSized, SubsetSized
  <2>6. Bytes(K) <= Bytes(S)
    BY <2>2, <2>5, BytesMonotone
  <2>7. QED BY <2>1, <2>4, <2>6
<1>5. QED BY <1>3, <1>4 DEF Shrinks

\* A step that does not make the table larger needs a look only at the handlers
\* it moves.
LEMMA CapFrame ==
  ASSUME TypeInv, TypeInv', CapInv, Shrinks,
         abandoned => abandoned',
         \A s \in Slots : \/ reqs'[s] = reqs[s]
                          \/ Covers(s) => Covers(s)' \/ abandoned' \/ Bytes(media') <= Cap
  PROVE  CapInv'
<1>1. Bytes(media) \in Nat /\ Bytes(media') \in Nat /\ Bytes(media') <= Bytes(media)
  BY MediaSized, MediaSizedNext, BytesType DEF Shrinks
<1> SUFFICES ASSUME Bytes(media') > Cap, ~ abandoned' PROVE \E s \in Slots : Covers(s)'
  BY DEF CapInv
<1>2. Cap \in Nat
  OBVIOUS
<1>3. Bytes(media) > Cap
  BY <1>1, <1>2
<1>4. PICK s \in Slots : Covers(s)
  BY <1>3 DEF CapInv
<1>5. CASE reqs'[s] = reqs[s]
  <2>1. reqs[s].total \in Nat
    BY DEF TypeInv, TypeOK, Request
  <2>2. PICK S, T : /\ S = {row \in media : row.id # reqs[s].victim}
                    /\ T = {row \in media' : row.id # reqs[s].victim}
    OBVIOUS
  <2>3. Bytes(T) <= Bytes(S)
    BY <2>2 DEF Shrinks
  <2>4. Bytes(T) \in Nat /\ Bytes(S) \in Nat
    <3>1. S \in SUBSET media /\ T \in SUBSET media' /\ Sized(media) /\ Sized(media')
      BY <2>2, MediaSized, MediaSizedNext
    <3>2. QED BY <3>1, SubsetSized, BytesType
  <2>5. CASE reqs[s].pc = "oldest" /\ Bytes(media) <= reqs[s].total
    <3>1. Bytes(media') <= reqs[s].total
      BY <1>1, <2>1, <2>5
    <3>2. QED BY <1>5, <2>5, <3>1 DEF Covers
  <2>6. CASE reqs[s].pc = "evict" /\ Bytes(S) <= reqs[s].total
    <3>1. Bytes(T) <= reqs[s].total
      BY <2>1, <2>3, <2>4, <2>6
    <3>2. QED BY <1>5, <2>2, <2>6, <3>1 DEF Covers
  <2>7. CASE reqs[s].pc = "quota"
    BY <1>5, <2>7 DEF Covers
  <2>8. QED BY <1>4, <2>2, <2>5, <2>6, <2>7 DEF Covers
<1>6. CASE reqs'[s] # reqs[s]
  BY <1>1, <1>2, <1>4, <1>6
<1>7. QED BY <1>5, <1>6

\* enforceQuota: the sum, what is taken off it, and the end.
LEMMA CapSumUp ==
  ASSUME TypeInv, NEW s \in Slots, SumUp(s)
  PROVE  CapInv'
<1>1. PICK total : total = Bytes(media)
  OBVIOUS
<1>2. total \in Nat
  BY <1>1, MediaSized, BytesType
<1>3. /\ media' = media
      /\ reqs'[s] = IF OverCap(total) THEN [Idle EXCEPT !.pc = "oldest", !.total = total]
                    ELSE Idle
  BY <1>1 DEF SumUp, TypeInv, TypeOK
<1>4. CASE OverCap(total)
  <2>1. reqs'[s].pc = "oldest" /\ reqs'[s].total = total
    BY <1>3, <1>4 DEF Idle
  <2>2. Bytes(media') <= reqs'[s].total
    BY <1>1, <1>2, <1>3, <2>1
  <2>3. QED BY <2>1, <2>2 DEF CapInv, Covers
<1>5. CASE ~ OverCap(total)
  BY <1>1, <1>2, <1>3, <1>5 DEF CapInv, OverCap
<1>6. QED BY <1>4, <1>5

\* What is taken off the count is the size of one row, and no other row has its id.
LEMMA CapFindOldest ==
  ASSUME TypeInv, TypeInv', CapInv, NEW s \in Slots, FindOldest(s)
  PROVE  CapInv'
<1>1. /\ reqs \in [Slots -> Request] /\ reqs[s].pc = "oldest" /\ reqs[s].total \in Nat
      /\ media' = media /\ abandoned' = abandoned /\ Cap \in Nat
  BY DEF TypeInv, TypeOK, Request, FindOldest
<1>2. CASE media = {}
  <2>1. Bytes(media') = 0
    BY <1>1, <1>2, BytesUnfold
  <2>2. QED BY <1>1, <2>1 DEF CapInv
<1>3. CASE media # {}
  <2>1. PICK row \in media :
          reqs' = [reqs EXCEPT ![s] = [reqs[s] EXCEPT !.pc = "evict", !.victim = row.id,
                                                      !.total = @ - row.sizeBytes]]
    BY <1>3 DEF FindOldest
  <2>2. /\ reqs'[s].pc = "evict" /\ reqs'[s].victim = row.id
        /\ reqs'[s].total = reqs[s].total - row.sizeBytes
    BY <1>1, <2>1 DEF Request
  <2>3. {x \in media : x.id # row.id} = media \ {row}
    BY DEF TypeInv, RowsOK
  <2>4. Sized(media) /\ Sized(media \ {row}) /\ row.sizeBytes \in Nat
    BY MediaSized, SubsetSized
  <2>5. PICK before, after : before = Bytes(media) /\ after = Bytes(media \ {row})
    OBVIOUS
  <2>6. before \in Nat /\ after \in Nat /\ before = row.sizeBytes + after
    BY <2>4, <2>5, BytesType, BytesRemove
  <2>7. Covers(s) => Covers(s)'
    <3> SUFFICES ASSUME Covers(s) PROVE Covers(s)'
      OBVIOUS
    <3>1. before <= reqs[s].total
      BY <1>1, <2>5 DEF Covers
    <3>2. after <= reqs'[s].total
      BY <1>1, <2>2, <2>4, <2>6, <3>1
    <3>3. Bytes({x \in media' : x.id # reqs'[s].victim}) = after
      BY <1>1, <2>2, <2>3, <2>5
    <3>4. QED BY <2>2, <3>2, <3>3 DEF Covers
  <2>8. \A q \in Slots : q = s \/ reqs'[q] = reqs[q]
    BY <1>1, <2>1
  <2>9. Shrinks
    BY <1>1, DeletingShrinks
  <2>10. abandoned => abandoned'
    BY <1>1
  <2>11. QED BY <2>7, <2>8, <2>9, <2>10, CapFrame
<1>4. QED BY <1>2, <1>3

\* The delete brings the table down to the count, or it was there already.
LEMMA CapEvict ==
  ASSUME TypeInv, TypeInv', CapInv, NEW s \in Slots, Evict(s)
  PROVE  CapInv'
<1>1. /\ reqs \in [Slots -> Request] /\ reqs[s].pc = "evict" /\ reqs[s].total \in Nat
      /\ media' = media \ {row \in media : row.id = reqs[s].victim}
      /\ abandoned' = abandoned /\ Cap \in Nat
      /\ reqs' = [reqs EXCEPT ![s] = IF OverCap(reqs[s].total)
                                     THEN [reqs[s] EXCEPT !.pc = "oldest", !.victim = None]
                                     ELSE Idle]
  BY DEF TypeInv, TypeOK, Request, Evict, DeleteImages
<1>2. media' = {row \in media : row.id # reqs[s].victim}
  BY <1>1
<1>3. Bytes(media') \in Nat
  BY MediaSizedNext, BytesType
<1>4. Covers(s) => Covers(s)' \/ Bytes(media') <= Cap
  <2> SUFFICES ASSUME Covers(s) PROVE Covers(s)' \/ Bytes(media') <= Cap
    OBVIOUS
  <2>1. Bytes(media') <= reqs[s].total
    BY <1>1, <1>2 DEF Covers
  <2>2. CASE OverCap(reqs[s].total)
    <3>1. reqs'[s].pc = "oldest" /\ reqs'[s].total = reqs[s].total
      BY <1>1, <2>2 DEF Request
    <3>2. QED BY <2>1, <3>1 DEF Covers
  <2>3. CASE ~ OverCap(reqs[s].total)
    BY <1>1, <1>3, <2>1, <2>3 DEF OverCap
  <2>4. QED BY <2>2, <2>3
<1>5. \A q \in Slots : q = s \/ reqs'[q] = reqs[q]
  BY <1>1
<1>6. Shrinks
  BY <1>1, DeletingShrinks
<1>7. abandoned => abandoned'
  BY <1>1
<1>8. QED BY <1>4, <1>5, <1>6, <1>7, CapFrame

\* Every other step: it moves no handler that covers, or leaves the handler that
\* died recorded.
LEMMA CapOther ==
  ASSUME TypeInv, TypeInv', CapInv, NEW s \in Slots, media' \subseteq media,
         abandoned => abandoned', \A q \in Slots \ {s} : reqs'[q] = reqs[q],
         reqs[s].pc \notin {"quota", "oldest", "evict"} \/ abandoned'
  PROVE  CapInv'
<1>1. Shrinks
  BY DeletingShrinks
<1>2. ~ Covers(s) \/ abandoned'
  BY DEF Covers
<1>3. QED BY <1>1, <1>2, CapFrame

\* Step by step.
LEMMA CapNext == TypeInv /\ TypeInv' /\ CapInv /\ [Next]_vars => CapInv'
<1> SUFFICES ASSUME TypeInv, TypeInv', CapInv, [Next]_vars PROVE CapInv'
  OBVIOUS
<1>0. reqs \in [Slots -> Request]
  BY DEF TypeInv, TypeOK
<1>1. CASE Calls
  <2>1. PICK s \in Slots, u \in accounts, a \in ArticleIds :
          \/ \E size \in Sizes : UploadRead(s, u, a, size)
          \/ RemoveRead(s, u, a)
    BY <1>1 DEF Calls
  <2>2. /\ reqs[s] = Idle /\ media' = media /\ abandoned' = abandoned
        /\ \A q \in Slots \ {s} : reqs'[q] = reqs[q]
    BY <1>0, <2>1 DEF UploadRead, RemoveRead, Start
  <2>3. reqs[s].pc = "idle"
    BY <2>2 DEF Idle
  <2>4. abandoned => abandoned'
    BY <2>2
  <2>5. QED BY <2>2, <2>3, <2>4, CapOther
<1>2. CASE Handlers
  <2>1. PICK s \in Slots :
          \/ Replace(s) \/ CheckShare(s) \/ OverShare(s) \/ Create(s) \/ CreateFails(s)
          \/ SumUp(s) \/ FindOldest(s) \/ Evict(s) \/ RemoveDestroy(s)
    BY <1>2 DEF Handlers
  <2>2. CASE Replace(s) \/ CheckShare(s) \/ OverShare(s) \/ CreateFails(s) \/ RemoveDestroy(s)
    <3>1. media' \subseteq media /\ abandoned' = abandoned
      BY <2>2 DEF Replace, CheckShare, OverShare, CreateFails, RemoveDestroy, DeleteImages
    <3>2. reqs[s].pc \notin {"quota", "oldest", "evict"}
      BY <2>2 DEF Replace, CheckShare, OverShare, CreateFails, RemoveDestroy
    <3>3. \A q \in Slots \ {s} : reqs'[q] = reqs[q]
      BY <1>0, <2>2
         DEF Replace, CheckShare, StartCreate, OverShare, CreateFails, RemoveDestroy, Respond
    <3>4. abandoned => abandoned'
      BY <3>1
    <3>5. QED BY <3>1, <3>2, <3>3, <3>4, CapOther
  <2>3. CASE Create(s)
    <3>1. reqs'[s].pc = "quota"
      BY <1>0, <2>3 DEF Create, Idle
    <3>2. QED BY <3>1 DEF CapInv, Covers
  <2>4. QED BY <2>1, <2>2, <2>3, CapSumUp, CapFindOldest, CapEvict
<1>3. CASE Environment
  <2>1. ASSUME NEW a \in ArticleIds, ArticleGone(a)
        PROVE  CapInv'
    <3>1. Shrinks
      BY <2>1, DeletingShrinks DEF ArticleGone, DeleteImages
    <3>2. reqs' = reqs /\ (abandoned => abandoned')
      BY <2>1 DEF ArticleGone
    <3>3. QED BY <3>1, <3>2, CapFrame
  <2>2. ASSUME NEW u \in UserIds, AccountGone(u)
        PROVE  CapInv'
    <3>1. Shrinks
      BY <2>2, DisowningShrinks
    <3>2. reqs' = reqs /\ (abandoned => abandoned')
      BY <2>2 DEF AccountGone
    <3>3. QED BY <3>1, <3>2, CapFrame
  <2>3. ASSUME NEW s \in Slots, HandlerDies(s)
        PROVE  CapInv'
    <3>1. media' = media /\ \A q \in Slots \ {s} : reqs'[q] = reqs[q]
      BY <1>0, <2>3 DEF HandlerDies, Respond
    <3>2. abandoned' = (abandoned \/ s \in Settling)
      BY <2>3 DEF HandlerDies
    <3>3. abandoned => abandoned'
      BY <3>2, Zenon
    <3>4. s \notin Settling => reqs[s].pc \notin {"quota", "oldest", "evict"}
      BY DEF Settling, Evicting
    <3>5. reqs[s].pc \notin {"quota", "oldest", "evict"} \/ abandoned'
      BY <3>2, <3>4, Zenon
    <3>6. QED BY <3>1, <3>3, <3>5, CapOther
  <2>4. QED BY <1>3, <2>1, <2>2, <2>3 DEF Environment
<1>4. CASE UNCHANGED vars
  <2>1. reqs' = reqs /\ media' = media /\ abandoned' = abandoned
    BY <1>4 DEF vars
  <2>2. QED BY <2>1 DEF CapInv, Covers
<1>5. QED BY <1>1, <1>2, <1>3, <1>4 DEF Next

\* The table is within the cap whenever no enforceQuota is under way and none has
\* died since the last sum: evictions that overlap each other, uploads and
\* deletions never end early (media.service.ts:144-155).
THEOREM CapHolds == Spec => []CapKept
<1>1. Init => CapInv
  BY BytesUnfold DEF Init, CapInv
<1>2. TypeInv /\ CapInv => CapKept
  BY DEF CapInv, Covers, CapKept, Settling, Evicting
<1>3. QED BY <1>1, <1>2, TypeInit, TypeNext, CapNext, PTL DEF Spec

-----------------------------------------------------------------------------
(* The images of an article. *)

Room(a) == Cardinality(ImagesOf(a)) + Cardinality(Replacing(a)) <= Cardinality(Slots)

\* What is counted is finite.
LEMMA RoomType ==
  ASSUME TypeInv, NEW a
  PROVE  /\ IsFiniteSet(ImagesOf(a)) /\ Cardinality(ImagesOf(a)) \in Nat
         /\ IsFiniteSet(Replacing(a)) /\ Cardinality(Replacing(a)) \in Nat
         /\ Cardinality(Replacing(a)) <= Cardinality(Slots) /\ Cardinality(Slots) \in Nat
<1>1. ImagesOf(a) \in SUBSET media /\ Replacing(a) \in SUBSET Slots /\ IsFiniteSet(media)
  BY DEF ImagesOf, Replacing, TypeInv, RowsOK
<1>2. QED BY <1>1, FS_Subset, FS_CardinalityType

\* Fewer of both leave room.
LEMMA RoomKept ==
  ASSUME TypeInv, NEW a, Room(a), NEW I, NEW R \in SUBSET Replacing(a), Cardinality(I) \in Nat,
         Cardinality(I) <= Cardinality(ImagesOf(a))
  PROVE  Cardinality(I) + Cardinality(R) <= Cardinality(Slots)
<1>1. Cardinality(R) \in Nat /\ Cardinality(R) <= Cardinality(Replacing(a))
  BY RoomType, FS_Subset, FS_CardinalityType
<1>2. PICK i, j, k, l, n \in Nat :
        /\ i = Cardinality(I) /\ j = Cardinality(ImagesOf(a)) /\ k = Cardinality(R)
        /\ l = Cardinality(Replacing(a)) /\ n = Cardinality(Slots)
  BY <1>1, RoomType
<1>3. i <= j /\ k <= l /\ j + l <= n
  BY <1>1, <1>2 DEF Room
<1>4. i + k <= n
  BY <1>3
<1>5. QED BY <1>2, <1>4

\* A step that only deletes, and moves no handler past the deletion of the article's
\* images.
LEMMA RoomDeleting ==
  ASSUME TypeInv, NEW a, Room(a), media' \subseteq media, Replacing(a)' \subseteq Replacing(a)
  PROVE  Room(a)'
<1>1. PICK I, R : I = ImagesOf(a)' /\ R = Replacing(a)'
  OBVIOUS
<1>2. I \in SUBSET ImagesOf(a) /\ R \in SUBSET Replacing(a)
  BY <1>1 DEF ImagesOf
<1>3. Cardinality(I) \in Nat /\ Cardinality(I) <= Cardinality(ImagesOf(a))
  BY <1>2, RoomType, FS_Subset, FS_CardinalityType
<1>4. Cardinality(I) + Cardinality(R) <= Cardinality(Slots)
  BY <1>2, <1>3, RoomKept
<1>5. QED BY <1>1, <1>4 DEF Room

\* The deletion before an upload: the article has no image left, and there are no
\* more handlers than slots.
LEMMA RoomReplace ==
  ASSUME TypeInv, NEW a, Room(a), NEW s \in Slots, Replace(s)
  PROVE  Room(a)'
<1>1. /\ reqs \in [Slots -> Request] /\ media' = media \ ImagesOf(reqs[s].article)
      /\ reqs' = [reqs EXCEPT ![s].pc = "share"]
  BY DEF TypeInv, TypeOK, Replace, DeleteImages
<1>2. CASE a = reqs[s].article
  <2>1. ImagesOf(a)' = {}
    BY <1>1, <1>2 DEF ImagesOf
  <2>2. PICK R : R = Replacing(a)'
    OBVIOUS
  <2>3. R \in SUBSET Slots
    BY <2>2 DEF Replacing
  <2>4. Cardinality({}) = 0 /\ Cardinality(R) \in Nat /\ Cardinality(R) <= Cardinality(Slots)
    BY <2>3, FS_EmptySet, FS_Subset, FS_CardinalityType
  <2>5. QED BY <2>1, <2>2, <2>4 DEF Room
<1>3. CASE a # reqs[s].article
  <2>1. reqs'[s].article = reqs[s].article /\ \A q \in Slots \ {s} : reqs'[q] = reqs[q]
    BY <1>1 DEF Request
  <2>2. Replacing(a)' \subseteq Replacing(a)
    BY <1>3, <2>1 DEF Replacing
  <2>3. QED BY <1>1, <2>2, RoomDeleting
<1>4. QED BY <1>2, <1>3

\* An insert takes the place its handler has had.
LEMMA RoomCreate ==
  ASSUME TypeInv, NEW a, Room(a), NEW s \in Slots, Create(s)
  PROVE  Room(a)'
<1>1. /\ reqs \in [Slots -> Request] /\ reqs[s].pc = "create"
      /\ reqs' = [reqs EXCEPT ![s] = [Idle EXCEPT !.pc = "quota"]]
  BY DEF TypeInv, TypeOK, Create
<1>2. PICK x : /\ x.articleId = reqs[s].article /\ media' = media \cup {x}
  BY DEF Create
<1>3. reqs'[s].pc = "quota" /\ \A q \in Slots \ {s} : reqs'[q] = reqs[q]
  BY <1>1 DEF Idle
<1>4. Replacing(a)' = Replacing(a) \ {s}
  BY <1>3 DEF Replacing
<1>5. CASE a = reqs[s].article
  <2>1. PICK I, R : I = ImagesOf(a) /\ R = Replacing(a)
    OBVIOUS
  <2>2. s \in R /\ ImagesOf(a)' = I \cup {x}
    BY <1>1, <1>2, <1>5, <2>1 DEF ImagesOf, Replacing
  <2>3. /\ IsFiniteSet(I) /\ Cardinality(I) \in Nat
        /\ IsFiniteSet(R) /\ Cardinality(R) \in Nat /\ Cardinality(Slots) \in Nat
    BY <2>1, RoomType
  <2>4. Cardinality(R \ {s}) = Cardinality(R) - 1
    BY <2>2, <2>3, FS_RemoveElement
  <2>5. Cardinality(I \cup {x}) \in {Cardinality(I), Cardinality(I) + 1}
    BY <2>3, FS_AddElement
  <2>6. Cardinality(I \cup {x}) + Cardinality(R \ {s}) <= Cardinality(Slots)
    <3>1. Cardinality(I) + Cardinality(R) <= Cardinality(Slots)
      BY <2>1 DEF Room
    <3>2. QED BY <2>3, <2>4, <2>5, <3>1
  <2>7. QED BY <1>4, <2>1, <2>2, <2>6 DEF Room
<1>6. CASE a # reqs[s].article
  <2>1. PICK I, R : I = ImagesOf(a) /\ R = Replacing(a) \ {s}
    OBVIOUS
  <2>2. ImagesOf(a)' = I
    BY <1>2, <1>6, <2>1 DEF ImagesOf
  <2>3. Cardinality(I) + Cardinality(R) <= Cardinality(Slots)
    BY <2>1, RoomType, RoomKept
  <2>4. QED BY <1>4, <2>1, <2>2, <2>3 DEF Room
<1>7. QED BY <1>5, <1>6

\* An account that goes leaves an article the images it had, or none.
LEMMA RoomDisowning ==
  ASSUME TypeInv, NEW a, Room(a), NEW u \in UserIds, AccountGone(u)
  PROVE  Room(a)'
<1>1. PICK f : Disowns(f, u)
  BY DisownRows
<1>2. /\ f \in [Kept(u) -> Row] /\ media' = {f[row] : row \in Kept(u)}
      /\ \A row \in Kept(u) : f[row].articleId = row.articleId
  BY <1>1 DEF Disowns
<1>3. PICK K, I : K = {row \in Kept(u) : row.articleId = a} /\ I = {f[row] : row \in K}
  OBVIOUS
<1>4. ImagesOf(a)' = I
  BY <1>2, <1>3 DEF ImagesOf
<1>5. K \in SUBSET ImagesOf(a)
  BY <1>3 DEF Kept, ImagesOf
<1>6. IsFiniteSet(K) /\ Cardinality(K) <= Cardinality(ImagesOf(a)) /\ Cardinality(K) \in Nat
        /\ Cardinality(ImagesOf(a)) \in Nat
  BY <1>5, RoomType, FS_Subset, FS_CardinalityType
<1>7. PICK g : g = [row \in K |-> f[row]]
  OBVIOUS
<1>8. g \in Surjection(K, I)
  <2>1. g \in [K -> I]
    BY <1>3, <1>7
  <2>2. \A y \in I : \E row \in K : g[row] = y
    BY <1>3, <1>7
  <2>3. QED BY <2>1, <2>2 DEF Surjection
<1>9. IsFiniteSet(I) /\ Cardinality(I) <= Cardinality(K)
  BY <1>6, <1>8, FS_Surjection
<1>10. Cardinality(I) \in Nat /\ Cardinality(I) <= Cardinality(ImagesOf(a))
  BY <1>6, <1>9, FS_CardinalityType
<1>11. Replacing(a)' = Replacing(a)
  BY DEF AccountGone, Replacing
<1>12. Cardinality(I) + Cardinality(Replacing(a)) <= Cardinality(Slots)
  BY <1>10, RoomKept
<1>13. QED BY <1>4, <1>11, <1>12 DEF Room

\* The steps of a handler that draw no id and insert nothing: no rows come to the
\* table, and the handler is not on the way to an insert, unless it has just deleted
\* what the article had.
LEMMA Leaves ==
  ASSUME TypeInv, NEW s \in Slots,
         \/ Replace(s) \/ OverShare(s) \/ CreateFails(s) \/ SumUp(s) \/ FindOldest(s)
         \/ Evict(s) \/ RemoveDestroy(s)
  PROVE  /\ media' \subseteq media /\ \A q \in Slots \ {s} : reqs'[q] = reqs[q]
         /\ reqs'[s].pc # "create" /\ (reqs'[s].pc = "share" => Replace(s))
<1>0. reqs \in [Slots -> Request]
  BY DEF TypeInv, TypeOK
<1>1. CASE Replace(s)
  BY <1>0, <1>1 DEF Replace, DeleteImages, Request
<1>2. CASE OverShare(s) \/ CreateFails(s) \/ RemoveDestroy(s)
  <2>1. /\ media' \subseteq media /\ reqs' = [reqs EXCEPT ![s] = Idle]
    BY <1>2 DEF OverShare, CreateFails, RemoveDestroy, Respond, DeleteImages
  <2>2. QED BY <1>0, <2>1 DEF Idle
<1>3. CASE SumUp(s)
  <2>1. /\ media' = media /\ \A q \in Slots \ {s} : reqs'[q] = reqs[q]
        /\ reqs'[s].pc \in {"oldest", "idle"}
    BY <1>0, <1>3 DEF SumUp, Idle
  <2>2. QED BY <2>1
<1>4. CASE FindOldest(s)
  <2>1. CASE media = {}
    BY <1>0, <1>4, <2>1 DEF FindOldest, Respond, Idle
  <2>2. CASE media # {}
    <3>1. PICK row \in media :
            reqs' = [reqs EXCEPT ![s] = [reqs[s] EXCEPT !.pc = "evict", !.victim = row.id,
                                                        !.total = @ - row.sizeBytes]]
      BY <1>4, <2>2 DEF FindOldest
    <3>2. reqs'[s].pc = "evict" /\ \A q \in Slots \ {s} : reqs'[q] = reqs[q]
      BY <1>0, <3>1 DEF Request
    <3>3. QED BY <1>4, <3>2 DEF FindOldest
  <2>3. QED BY <2>1, <2>2
<1>5. CASE Evict(s)
  <2>1. /\ media' \subseteq media /\ \A q \in Slots \ {s} : reqs'[q] = reqs[q]
        /\ reqs'[s].pc \in {"oldest", "idle"}
    BY <1>0, <1>5 DEF Evict, DeleteImages, Idle, Request
  <2>2. QED BY <2>1
<1>6. QED BY <1>1, <1>2, <1>3, <1>4, <1>5

\* Step by step.
LEMMA RoomNext ==
  ASSUME TypeInv, [Next]_vars, NEW a, Room(a)
  PROVE  Room(a)'
<1>0. reqs \in [Slots -> Request]
  BY DEF TypeInv, TypeOK
<1>1. ASSUME NEW s \in Slots, media' \subseteq media, \A q \in Slots \ {s} : reqs'[q] = reqs[q],
             reqs'[s].pc \notin {"share", "create"}
      PROVE  Room(a)'
  BY <1>1, RoomDeleting DEF Replacing
<1>2. CASE Calls
  <2>1. PICK s \in Slots, u \in accounts, b \in ArticleIds :
          \/ \E size \in Sizes : UploadRead(s, u, b, size)
          \/ RemoveRead(s, u, b)
    BY <1>2 DEF Calls
  <2>2. /\ media' = media /\ \A q \in Slots \ {s} : reqs'[q] = reqs[q]
        /\ reqs'[s].pc \in {"replace", "remove"}
    BY <1>0, <2>1 DEF UploadRead, RemoveRead, Start, Idle
  <2>3. QED BY <1>1, <2>2
<1>3. CASE Handlers
  <2>1. PICK s \in Slots :
          \/ Replace(s) \/ CheckShare(s) \/ OverShare(s) \/ Create(s) \/ CreateFails(s)
          \/ SumUp(s) \/ FindOldest(s) \/ Evict(s) \/ RemoveDestroy(s)
    BY <1>3 DEF Handlers
  <2>2. CASE CheckShare(s)
    <3>1. PICK x \in FreshImage : reqs' = [reqs EXCEPT ![s].pc = "create", ![s].image = x]
      BY <2>2 DEF CheckShare, StartCreate
    <3>2. /\ reqs'[s].article = reqs[s].article /\ reqs[s].pc = "share" /\ media' = media
          /\ \A q \in Slots \ {s} : reqs'[q] = reqs[q]
      BY <1>0, <2>2, <3>1 DEF CheckShare, Request
    <3>3. Replacing(a)' \subseteq Replacing(a)
      BY <3>2 DEF Replacing
    <3>4. QED BY <3>2, <3>3, RoomDeleting
  <2>3. CASE ~ CheckShare(s) /\ ~ Create(s) /\ ~ Replace(s)
    BY <1>1, <2>1, <2>3, Leaves
  <2>4. QED BY <2>1, <2>2, <2>3, RoomReplace, RoomCreate
<1>4. CASE Environment
  <2>1. ASSUME NEW b \in ArticleIds, ArticleGone(b)
        PROVE  Room(a)'
    <3>1. media' \subseteq media /\ Replacing(a)' = Replacing(a)
      BY <2>1 DEF ArticleGone, DeleteImages, Replacing
    <3>2. QED BY <3>1, RoomDeleting
  <2>2. ASSUME NEW s \in Slots, HandlerDies(s)
        PROVE  Room(a)'
    <3>1. media' = media /\ reqs' = [reqs EXCEPT ![s] = Idle]
      BY <2>2 DEF HandlerDies, Respond
    <3>2. reqs'[s].pc = "idle" /\ \A q \in Slots \ {s} : reqs'[q] = reqs[q]
      BY <1>0, <3>1 DEF Idle
    <3>3. QED BY <1>1, <3>1, <3>2
  <2>3. QED BY <1>4, <2>1, <2>2, RoomDisowning DEF Environment
<1>5. CASE UNCHANGED vars
  <2>1. media' = media /\ Replacing(a)' = Replacing(a)
    BY <1>5 DEF vars, Replacing
  <2>2. QED BY <2>1, RoomDeleting
<1>6. QED BY <1>2, <1>3, <1>4, <1>5 DEF Next

\* The images of an article are no more than the requests that can be in flight,
\* each upload counted from the deletion of what was there to the end of its
\* insert (media.service.ts:83-105).
THEOREM ImagesHold == Spec => []ImagesBounded
<1>1. Init => ImagesBounded
  <2> SUFFICES ASSUME Init, NEW a \in ArticleIds PROVE Room(a)
    BY DEF ImagesBounded, Room
  <2>1. ImagesOf(a) = {} /\ Cardinality({}) = 0
    BY FS_EmptySet DEF Init, ImagesOf
  <2>2. Cardinality(Replacing(a)) <= Cardinality(Slots) /\ Cardinality(Replacing(a)) \in Nat
    BY TypeInit, RoomType
  <2>3. QED BY <2>1, <2>2, FS_CardinalityType DEF Room
<1>2. TypeInv /\ ImagesBounded /\ [Next]_vars => ImagesBounded'
  BY RoomNext DEF ImagesBounded, Room
<1>3. QED BY <1>1, <1>2, TypeInit, TypeNext, PTL DEF Spec

-----------------------------------------------------------------------------
(* The share of an account. *)

\* The largest size is one of the sizes.
LEMMA MaxSize == Max(Sizes) \in Sizes /\ \A size \in Sizes : size <= Max(Sizes)
<1> DEFINE G == {T \in SUBSET Sizes : T = {} \/ \E x \in T : \A y \in T : x >= y}
<1>1. ASSUME NEW T \in SUBSET Sizes, \A U \in SUBSET T : U # T => U \in G
      PROVE  T \in G
  <2>1. CASE T = {}
    BY <2>1
  <2>2. CASE T # {}
    <3>1. PICK z \in T : TRUE
      BY <2>2
    <3>2. T \ {z} \in G
      <4> HIDE DEF G
      <4>1. T \ {z} \in SUBSET T /\ T \ {z} # T
        BY <3>1
      <4>2. QED BY <1>1, <4>1
    <3>3. CASE T \ {z} = {}
      <4>1. T = {z} /\ z \in Nat
        BY <3>1, <3>3
      <4>2. z >= z
        BY <4>1
      <4>3. QED BY <4>1, <4>2
    <3>4. CASE T \ {z} # {}
      <4>1. PICK x \in T \ {z} : \A y \in T \ {z} : x >= y
        BY <3>2, <3>4
      <4>2. x \in Nat /\ z \in Nat /\ \A y \in T : y \in Nat
        BY <3>1, <4>1
      <4>3. CASE x >= z
        BY <4>1, <4>3
      <4>4. CASE z > x
        <5>1. \A y \in T : z >= y
          BY <4>1, <4>2, <4>4
        <5>2. QED BY <3>1, <5>1
      <4>5. QED BY <4>2, <4>3, <4>4
    <3>5. QED BY <3>3, <3>4
  <2>3. QED BY <2>1, <2>2
<1>2. Sizes \in G
  <2> HIDE DEF G
  <2>1. \A T \in SUBSET Sizes : T \in G
    BY <1>1, SetInduction
  <2>2. QED BY <2>1
<1>3. PICK x \in Sizes : \A y \in Sizes : x >= y
  BY <1>2
<1>4. Max(Sizes) \in Sizes /\ \A y \in Sizes : Max(Sizes) >= y
  BY <1>3 DEF Max
<1>5. QED BY <1>4

\* Multiplying keeps the order.
LEMMA TimesMonotone ==
  ASSUME NEW p \in Nat, NEW q \in Nat, NEW m \in Nat, p <= q
  PROVE  p * m <= q * m /\ p * m \in Nat /\ q * m \in Nat
<1>1. PICK d \in Nat : q = p + d
  <2>1. q - p \in Nat /\ q = p + (q - p)
    OBVIOUS
  <2>2. QED BY <2>1
<1>2. q * m = p * m + d * m /\ d * m \in Nat /\ p * m \in Nat
  BY <1>1
<1>3. QED BY <1>2

\* What the bound is made of.
LEMMA LimitType ==
  /\ Max(Sizes) \in Nat /\ Cardinality(Slots) \in Nat \ {0} /\ Limit \in Nat
<1>1. Max(Sizes) \in Nat
  BY MaxSize
<1>2. Cardinality(Slots) \in Nat \ {0}
  BY FS_EmptySet, FS_CardinalityType
<1>3. PICK m \in Nat, k \in Nat : m = Max(Sizes) /\ k = Cardinality(Slots) - 1
  BY <1>1, <1>2
<1>4. k * m \in Nat
  OBVIOUS
<1>5. QED BY <1>1, <1>2, <1>3, <1>4 DEF Limit

\* Some of the images about to be inserted: no more than their handlers, and none
\* larger than the largest.
LEMMA PendingBytes ==
  ASSUME TypeInv, NEW u, NEW Q \in SUBSET Creating(u)
  PROVE  Sized(Inserts(Q, u)) /\ Bytes(Inserts(Q, u)) <= Cardinality(Q) * Max(Sizes)
<1>1. Q \in SUBSET Slots /\ IsFiniteSet(Q)
  BY FS_Subset DEF Creating
<1>2. PICK f : f = [q \in Q |-> Uploading(reqs[q], u)]
  OBVIOUS
<1>3. PICK P : P = Inserts(Q, u)
  OBVIOUS
<1>4. \A q \in Q : f[q] = Uploading(reqs[q], u)
  BY <1>2
<1>5. f \in Surjection(Q, P)
  <2>1. f \in [Q -> P]
    BY <1>2, <1>3 DEF Inserts
  <2>2. \A x \in P : \E q \in Q : f[q] = x
    BY <1>3, <1>4 DEF Inserts
  <2>3. QED BY <2>1, <2>2 DEF Surjection
<1>6. IsFiniteSet(P) /\ Cardinality(P) <= Cardinality(Q)
  BY <1>1, <1>5, FS_Surjection
<1>7. \A x \in P : x.sizeBytes \in Sizes
  BY <1>1, <1>3 DEF Inserts, Creating, Uploading, TypeInv, LocalsOK
<1>8. Sized(P)
  BY <1>6, <1>7 DEF Sized
<1>9. Bytes(P) <= Cardinality(P) * Max(Sizes)
  BY <1>7, <1>8, MaxSize, BytesBound
<1>10. Bytes(P) <= Cardinality(Q) * Max(Sizes)
  <2>1. PICK b, p, q, m \in Nat :
          b = Bytes(P) /\ p = Cardinality(P) /\ q = Cardinality(Q) /\ m = Max(Sizes)
    BY <1>1, <1>6, <1>8, BytesType, FS_CardinalityType, LimitType
  <2>2. b <= p * m /\ p <= q
    BY <1>6, <1>9, <2>1
  <2>3. p * m <= q * m /\ p * m \in Nat /\ q * m \in Nat
    BY <2>2, TimesMonotone
  <2>4. b <= q * m
    BY <2>2, <2>3
  <2>5. QED BY <2>1, <2>4
<1>11. QED BY <1>3, <1>8, <1>10

\* What an account has and is about to have.
LEMMA SharingSized ==
  ASSUME TypeInv, NEW u
  PROVE  Sized(Own(u)) /\ Sized(Pending(u)) /\ Sized(Own(u) \cup Pending(u))
<1>1. Own(u) \in SUBSET media
  BY DEF Own
<1>2. Sized(Own(u))
  BY <1>1, MediaSized, SubsetSized
<1>3. Sized(Pending(u))
  BY PendingBytes DEF Pending
<1>4. QED BY <1>2, <1>3, BytesUnion

\* Every step but two adds nothing.
LEMMA ShareFrame ==
  ASSUME TypeInv, NEW u, Bytes(Own(u) \cup Pending(u)) <= Limit,
         (Own(u) \cup Pending(u))' \subseteq Own(u) \cup Pending(u)
  PROVE  Bytes((Own(u) \cup Pending(u))') <= Limit
<1>1. PICK S, T : S = Own(u) \cup Pending(u) /\ T = (Own(u) \cup Pending(u))'
  OBVIOUS
<1>2. Sized(S) /\ T \in SUBSET S
  BY <1>1, SharingSized
<1>3. Bytes(S) \in Nat /\ Bytes(T) \in Nat /\ Bytes(T) <= Bytes(S)
  BY <1>2, SubsetSized, BytesType, BytesMonotone
<1>4. Bytes(S) <= Limit /\ Limit \in Nat
  BY <1>1, LimitType
<1>5. Bytes(T) <= Limit
  BY <1>3, <1>4
<1>6. QED BY <1>1, <1>5

\* A handler that goes somewhere else than to its insert, while the table does not
\* grow.
LEMMA ShareOther ==
  ASSUME TypeInv, NEW u, Bytes(Own(u) \cup Pending(u)) <= Limit,
         media' \subseteq media, NEW s \in Slots, \A q \in Slots \ {s} : reqs'[q] = reqs[q],
         reqs'[s].pc # "create" \/ reqs'[s].actor # u
  PROVE  Bytes((Own(u) \cup Pending(u))') <= Limit
<1>1. Own(u)' \subseteq Own(u)
  BY DEF Own
<1>2. Creating(u)' \subseteq Creating(u) \ {s}
  BY DEF Creating
<1>3. Pending(u)' \subseteq Pending(u)
  BY <1>2 DEF Pending, Inserts, Creating
<1>4. QED BY <1>1, <1>3, ShareFrame

\* The check of the share sees what the account has, not what other handlers are
\* about to insert for it.
LEMMA ShareCheck ==
  ASSUME TypeInv, TypeInv', NEW u \in UserIds \ Admins, NEW s \in Slots, CheckShare(s),
         reqs[s].actor = u
  PROVE  Bytes((Own(u) \cup Pending(u))') <= Limit
<1>1. /\ reqs \in [Slots -> Request] /\ reqs[s].pc = "share" /\ reqs[s].size \in Nat
      /\ media' = media
  BY DEF TypeInv, TypeOK, CheckShare, LocalsOK
<1>2. PICK x \in FreshImage : reqs' = [reqs EXCEPT ![s].pc = "create", ![s].image = x]
  BY DEF CheckShare, StartCreate
<1>3. /\ reqs'[s].size = reqs[s].size /\ \A q \in Slots \ {s} : reqs'[q] = reqs[q]
  BY <1>1, <1>2 DEF Request
<1>4. Bytes(Own(u)) + reqs[s].size <= Share
  <2>1. WithinShare(s)
    BY DEF CheckShare
  <2>2. QED BY <2>1 DEF WithinShare, Own
<1>5. PICK row, Q, P, O : /\ row = Uploading(reqs'[s], u)
                          /\ Q = Creating(u) \ {s}
                          /\ P = Inserts(Q, u)
                          /\ O = Own(u)
  OBVIOUS
<1>6. (Own(u) \cup Pending(u))' \subseteq (O \cup {row}) \cup P
  <2>1. Own(u)' = O
    BY <1>1, <1>5 DEF Own
  <2>2. Creating(u)' \subseteq Q \cup {s} /\ Q \in SUBSET (Slots \ {s})
    BY <1>3, <1>5 DEF Creating
  <2>3. Pending(u)' \subseteq P \cup {row}
    BY <1>3, <1>5, <2>2 DEF Pending, Inserts
  <2>4. QED BY <2>1, <2>3
<1>7. row.sizeBytes = reqs[s].size
  BY <1>3, <1>5 DEF Uploading
<1>8. /\ Sized(O \cup {row}) /\ Bytes(O \cup {row}) <= Bytes(O) + reqs[s].size
      /\ Bytes(O) \in Nat
  BY <1>1, <1>5, <1>7, SharingSized, BytesAdd, BytesType
<1>9. Sized(P) /\ Bytes(P) <= Cardinality(Q) * Max(Sizes)
  <2>1. Q \in SUBSET Creating(u)
    BY <1>5
  <2>2. Sized(Inserts(Q, u)) /\ Bytes(Inserts(Q, u)) <= Cardinality(Q) * Max(Sizes)
    BY <2>1, PendingBytes
  <2>3. QED BY <1>5, <2>2
<1>10. Cardinality(Q) \in Nat /\ Cardinality(Q) <= Cardinality(Slots) - 1
  <2>1. Q \in SUBSET (Slots \ {s})
    BY <1>5 DEF Creating
  <2>2. IsFiniteSet(Slots \ {s}) /\ Cardinality(Slots \ {s}) = Cardinality(Slots) - 1
    BY FS_RemoveElement
  <2>3. QED BY <2>1, <2>2, FS_Subset, FS_CardinalityType
<1>11. PICK S : S = (O \cup {row}) \cup P
  OBVIOUS
<1>12. Sized(S) /\ Bytes(S) <= Bytes(O \cup {row}) + Bytes(P)
  BY <1>8, <1>9, <1>11, BytesUnion
<1>13. Bytes(S) <= Limit
  <2>0. PICK b, r, p, c, m, n :
          /\ b = Bytes(S) /\ r = Bytes(O \cup {row}) /\ p = Bytes(P)
          /\ c = Cardinality(Q) /\ m = Max(Sizes) /\ n = Cardinality(Slots) - 1
    OBVIOUS
  <2>1. /\ b = Bytes(S) /\ r = Bytes(O \cup {row}) /\ p = Bytes(P)
        /\ c = Cardinality(Q) /\ m = Max(Sizes) /\ n = Cardinality(Slots) - 1
        /\ b \in Nat /\ r \in Nat /\ p \in Nat /\ c \in Nat /\ m \in Nat /\ n \in Nat
    BY <1>8, <1>9, <1>10, <1>12, <2>0, BytesType, LimitType
  <2>2. b <= r + p /\ p <= c * m /\ c <= n
    BY <1>9, <1>10, <1>12, <2>1
  <2>3. r <= Share
    BY <1>1, <1>4, <1>5, <1>8, <2>1
  <2>4. c * m <= n * m /\ c * m \in Nat /\ n * m \in Nat
    BY <2>1, <2>2, TimesMonotone
  <2>5. Share \in Nat /\ b <= r + p
    BY <2>2
  <2>6. b <= Share + n * m
    BY <2>1, <2>2, <2>3, <2>4, <2>5
  <2>7. QED BY <2>1, <2>6 DEF Limit
<1>14. PICK T : T = (Own(u) \cup Pending(u))'
  OBVIOUS
<1>15. T \in SUBSET S /\ Bytes(T) <= Bytes(S) /\ Bytes(T) \in Nat /\ Bytes(S) \in Nat
  BY <1>6, <1>11, <1>12, <1>14, SubsetSized, BytesMonotone, BytesType
<1>16. Bytes(T) <= Limit
  BY <1>13, <1>15, LimitType
<1>17. QED BY <1>14, <1>16

\* An insert takes out of what is about to come what it adds to what is there.
LEMMA ShareCreate ==
  ASSUME TypeInv, NEW u, Bytes(Own(u) \cup Pending(u)) <= Limit, NEW s \in Slots, Create(s)
  PROVE  Bytes((Own(u) \cup Pending(u))') <= Limit
<1>1. /\ reqs \in [Slots -> Request] /\ reqs[s].pc = "create"
      /\ reqs' = [reqs EXCEPT ![s] = [Idle EXCEPT !.pc = "quota"]]
      /\ media' = media \cup {Uploading(reqs[s], reqs[s].actor)}
  BY DEF TypeInv, TypeOK, Create, Uploading
<1>2. reqs'[s].pc = "quota" /\ \A q \in Slots \ {s} : reqs'[q] = reqs[q]
  BY <1>1 DEF Idle
<1>3. Pending(u)' \subseteq Pending(u)
  <2>1. Creating(u)' \subseteq Creating(u) \ {s} /\ Creating(u) \subseteq Slots
    BY <1>2 DEF Creating
  <2>2. QED BY <1>2, <2>1 DEF Pending, Inserts
<1>4. PICK x : x = Uploading(reqs[s], reqs[s].actor)
  OBVIOUS
<1>5. x.uploadedByUserId = reqs[s].actor /\ media' = media \cup {x}
  BY <1>1, <1>4 DEF Uploading
<1>6. reqs[s].actor = u => x \in Pending(u)
  BY <1>1, <1>4 DEF Pending, Inserts, Creating
<1>7. Own(u)' \subseteq Own(u) \cup Pending(u)
  BY <1>5, <1>6 DEF Own
<1>8. QED BY <1>3, <1>7, ShareFrame

\* An account that goes takes nothing over from another.
LEMMA ShareDisowning ==
  ASSUME TypeInv, NEW u \in UserIds, Bytes(Own(u) \cup Pending(u)) <= Limit,
         NEW w \in UserIds, AccountGone(w)
  PROVE  Bytes((Own(u) \cup Pending(u))') <= Limit
<1>1. PICK f : Disowns(f, w)
  BY DisownRows
<1>2. /\ media' = {f[row] : row \in Kept(w)}
      /\ \A row \in Kept(w) :
           /\ f[row].uploadedByUserId =
                IF row.uploadedByUserId = w THEN None ELSE row.uploadedByUserId
           /\ row.uploadedByUserId # w => f[row] = row
           /\ row \in media
  BY <1>1 DEF Disowns, Kept
<1>3. u # None
  OBVIOUS
<1>4. Own(u)' \subseteq Own(u)
  BY <1>2, <1>3 DEF Own
<1>5. Pending(u)' = Pending(u)
  BY DEF AccountGone, Pending, Inserts, Creating
<1>6. QED BY <1>4, <1>5, ShareFrame

\* Step by step.
LEMMA ShareNext ==
  ASSUME TypeInv, TypeInv', [Next]_vars, NEW u \in UserIds \ Admins,
         Bytes(Own(u) \cup Pending(u)) <= Limit
  PROVE  Bytes((Own(u) \cup Pending(u))') <= Limit
<1>0. reqs \in [Slots -> Request]
  BY DEF TypeInv, TypeOK
<1>1. CASE Calls
  <2>1. PICK s \in Slots, v \in accounts, a \in ArticleIds :
          \/ \E size \in Sizes : UploadRead(s, v, a, size)
          \/ RemoveRead(s, v, a)
    BY <1>1 DEF Calls
  <2>2. /\ media' = media /\ \A q \in Slots \ {s} : reqs'[q] = reqs[q]
        /\ reqs'[s].pc \in {"replace", "remove"}
    BY <1>0, <2>1 DEF UploadRead, RemoveRead, Start, Idle
  <2>3. QED BY <2>2, ShareOther
<1>2. CASE Handlers
  <2>1. PICK s \in Slots :
          \/ Replace(s) \/ CheckShare(s) \/ OverShare(s) \/ Create(s) \/ CreateFails(s)
          \/ SumUp(s) \/ FindOldest(s) \/ Evict(s) \/ RemoveDestroy(s)
    BY <1>2 DEF Handlers
  <2>2. CASE CheckShare(s)
    <3>1. CASE reqs[s].actor = u
      BY <2>2, <3>1, ShareCheck
    <3>2. CASE reqs[s].actor # u
      <4>1. PICK x \in FreshImage : reqs' = [reqs EXCEPT ![s].pc = "create", ![s].image = x]
        BY <2>2 DEF CheckShare, StartCreate
      <4>2. /\ media' = media /\ reqs'[s].actor = reqs[s].actor
            /\ \A q \in Slots \ {s} : reqs'[q] = reqs[q]
        BY <1>0, <2>2, <4>1 DEF CheckShare, Request
      <4>3. QED BY <3>2, <4>2, ShareOther
    <3>3. QED BY <3>1, <3>2
  <2>3. CASE Create(s)
    BY <2>3, ShareCreate
  <2>4. CASE ~ CheckShare(s) /\ ~ Create(s)
    BY <2>1, <2>4, Leaves, ShareOther
  <2>5. QED BY <2>2, <2>3, <2>4
<1>3. CASE Environment
  <2>1. ASSUME NEW b \in ArticleIds, ArticleGone(b)
        PROVE  Bytes((Own(u) \cup Pending(u))') <= Limit
    <3>1. Own(u)' \subseteq Own(u) /\ Pending(u)' = Pending(u)
      BY <2>1 DEF ArticleGone, DeleteImages, Own, Pending, Inserts, Creating
    <3>2. QED BY <3>1, ShareFrame
  <2>2. ASSUME NEW s \in Slots, HandlerDies(s)
        PROVE  Bytes((Own(u) \cup Pending(u))') <= Limit
    <3>1. media' = media /\ reqs' = [reqs EXCEPT ![s] = Idle]
      BY <2>2 DEF HandlerDies, Respond
    <3>2. reqs'[s].pc = "idle" /\ \A q \in Slots \ {s} : reqs'[q] = reqs[q]
      BY <1>0, <3>1 DEF Idle
    <3>3. QED BY <3>1, <3>2, ShareOther
  <2>3. QED BY <1>3, <2>1, <2>2, ShareDisowning DEF Environment
<1>4. CASE UNCHANGED vars
  <2>1. Own(u)' = Own(u) /\ Pending(u)' = Pending(u)
    BY <1>4 DEF vars, Own, Pending, Inserts, Creating
  <2>2. QED BY <2>1, ShareFrame
<1>5. QED BY <1>1, <1>2, <1>3, <1>4 DEF Next

\* What an account that is no administrator's has uploaded exceeds its share by no
\* more than one largest image for every other request in flight
\* (media.service.ts:88-105).
THEOREM ShareHolds == Spec => []ShareBounded
<1>1. Init => ShareInv
  <2> SUFFICES ASSUME Init, NEW u \in UserIds \ Admins PROVE Bytes(Own(u) \cup Pending(u)) <= Limit
    BY DEF ShareInv
  <2>1. Own(u) = {} /\ Pending(u) = {}
    BY DEF Init, Idle, Own, Pending, Inserts, Creating
  <2>2. Own(u) \cup Pending(u) = {}
    BY <2>1
  <2>3. Bytes({}) = 0 /\ 0 <= Limit
    BY BytesUnfold, LimitType
  <2>4. QED BY <2>2, <2>3
<1>2. TypeInv /\ TypeInv' /\ ShareInv /\ [Next]_vars => ShareInv'
  BY ShareNext DEF ShareInv, Limit
<1>3. TypeInv /\ ShareInv => ShareBounded
  <2> SUFFICES ASSUME TypeInv, ShareInv, NEW u \in UserIds \ Admins PROVE Bytes(Own(u)) <= Limit
    BY DEF ShareBounded, Own, Limit
  <2>1. PICK S : S = Own(u) \cup Pending(u)
    OBVIOUS
  <2>2. Sized(S) /\ Bytes(S) <= Limit /\ Own(u) \in SUBSET S
    BY <2>1, SharingSized DEF ShareInv
  <2>3. Bytes(Own(u)) <= Bytes(S) /\ Bytes(Own(u)) \in Nat /\ Bytes(S) \in Nat
    BY <2>2, BytesMonotone, SubsetSized, BytesType
  <2>4. QED BY <2>2, <2>3, LimitType
<1>4. QED BY <1>1, <1>2, <1>3, TypeInit, TypeNext, PTL DEF Spec

-----------------------------------------------------------------------------
(* What is evicted while the table is within the cap. *)

\* A part of the table with all its bytes is the table: no image is empty.
LEMMA NothingLost ==
  ASSUME TypeInv, NEW K \in SUBSET media, Bytes(media) <= Bytes(K)
  PROVE  K = media
<1> SUFFICES ASSUME NEW row \in media, row \notin K PROVE FALSE
  OBVIOUS
<1>1. PICK S : S = media \ {row}
  OBVIOUS
<1>2. S \in SUBSET media /\ K \in SUBSET S /\ row.sizeBytes \in Nat \ {0}
  BY <1>1, MediaSized
<1>3. Sized(media) /\ Sized(S) /\ Sized(K)
  BY <1>2, MediaSized, SubsetSized
<1>4. Bytes(media) = row.sizeBytes + Bytes(S) /\ Bytes(K) <= Bytes(S)
  BY <1>1, <1>2, <1>3, BytesRemove, BytesMonotone
<1>5. Bytes(media) \in Nat /\ Bytes(S) \in Nat /\ Bytes(K) \in Nat
  BY <1>3, BytesType
<1>6. QED BY <1>2, <1>4, <1>5

\* An image that is there after the step as before it, its uploader aside.
Stays(row) == \E y \in media' : y.id = row.id /\ y.sizeBytes = row.sizeBytes

\* A step that frees no bytes takes no image.
LEMMA BytesKeepRows ==
  ASSUME TypeInv, Next, Bytes(media) <= Bytes(media'), NEW row \in media
  PROVE  Stays(row)
<1>1. CASE media' \subseteq media
  <2>1. media' = media
    BY <1>1, NothingLost
  <2>2. QED BY <2>1 DEF Stays
<1>2. CASE media \subseteq media'
  BY <1>2 DEF Stays
<1>3. ASSUME NEW u \in UserIds, AccountGone(u)
      PROVE  Stays(row)
  <2>1. PICK f : Disowns(f, u)
    BY <1>3, DisownRows
  <2>2. /\ media' = {f[x] : x \in Kept(u)} /\ Kept(u) \in SUBSET media
        /\ \A x \in Kept(u) : f[x].id = x.id /\ f[x].sizeBytes = x.sizeBytes
    BY <2>1 DEF Disowns, Kept
  <2>3. Bytes(media') = Bytes(Kept(u))
    BY <2>1, <2>2, DisownBytes
  <2>4. Kept(u) = media
    BY <2>2, <2>3, NothingLost
  <2>5. f[row] \in media' /\ f[row].id = row.id /\ f[row].sizeBytes = row.sizeBytes
    BY <2>2, <2>4
  <2>6. QED BY <2>5 DEF Stays
<1>4. CASE Calls
  <2>1. media' = media
    BY <1>4 DEF Calls, UploadRead, RemoveRead
  <2>2. QED BY <1>1, <2>1
<1>5. CASE Handlers
  <2>1. PICK s \in Slots :
          \/ Replace(s) \/ CheckShare(s) \/ OverShare(s) \/ Create(s) \/ CreateFails(s)
          \/ SumUp(s) \/ FindOldest(s) \/ Evict(s) \/ RemoveDestroy(s)
    BY <1>5 DEF Handlers
  <2>2. CASE Create(s)
    <3>1. media \subseteq media'
      BY <2>2 DEF Create
    <3>2. QED BY <1>2, <3>1
  <2>3. CASE CheckShare(s)
    <3>1. media' = media
      BY <2>3 DEF CheckShare
    <3>2. QED BY <1>1, <3>1
  <2>4. QED BY <1>1, <2>1, <2>2, <2>3, Leaves
<1>6. CASE Environment
  <2>1. ASSUME NEW a \in ArticleIds, ArticleGone(a)
        PROVE  media' \subseteq media
    BY <2>1 DEF ArticleGone, DeleteImages
  <2>2. ASSUME NEW s \in Slots, HandlerDies(s)
        PROVE  media' = media
    BY <2>2 DEF HandlerDies
  <2>3. QED BY <1>1, <1>3, <1>6, <2>1, <2>2 DEF Environment
<1>7. QED BY <1>4, <1>5, <1>6 DEF Next

\* An evicting handler goes on by its own statements only.
LEMMA EvictingMoves ==
  ASSUME TypeInv, Next, NEW s \in Slots
  PROVE  \/ reqs'[s] = reqs[s]
         \/ SumUp(s) \/ FindOldest(s) \/ Evict(s)
         \/ reqs'[s].pc \notin {"oldest", "evict"}
<1>0. reqs \in [Slots -> Request]
  BY DEF TypeInv, TypeOK
<1>1. CASE Calls
  <2>1. PICK q \in Slots, u \in accounts, a \in ArticleIds :
          \/ \E size \in Sizes : UploadRead(q, u, a, size)
          \/ RemoveRead(q, u, a)
    BY <1>1 DEF Calls
  <2>2. /\ \A t \in Slots \ {q} : reqs'[t] = reqs[t]
        /\ reqs'[q].pc \in {"replace", "remove"}
    BY <1>0, <2>1 DEF UploadRead, RemoveRead, Start, Idle
  <2>3. QED BY <2>2
<1>2. CASE Handlers
  <2>1. PICK q \in Slots :
          \/ Replace(q) \/ CheckShare(q) \/ OverShare(q) \/ Create(q) \/ CreateFails(q)
          \/ SumUp(q) \/ FindOldest(q) \/ Evict(q) \/ RemoveDestroy(q)
    BY <1>2 DEF Handlers
  <2>2. CASE SumUp(q) \/ FindOldest(q) \/ Evict(q)
    <3>1. \A t \in Slots \ {q} : reqs'[t] = reqs[t]
      BY <2>2, Leaves
    <3>2. QED BY <2>2, <3>1
  <2>3. CASE ~ (SumUp(q) \/ FindOldest(q) \/ Evict(q))
    <3>1. /\ \A t \in Slots \ {q} : reqs'[t] = reqs[t]
          /\ reqs'[q].pc \in {"share", "create", "quota", "idle"}
      <4>1. CASE Replace(q)
        BY <1>0, <4>1 DEF Replace, Request
      <4>2. CASE CheckShare(q)
        <5>1. PICK x : reqs' = [reqs EXCEPT ![q].pc = "create", ![q].image = x]
          BY <4>2 DEF CheckShare, StartCreate
        <5>2. QED BY <1>0, <5>1 DEF Request
      <4>3. CASE OverShare(q) \/ CreateFails(q) \/ RemoveDestroy(q)
        BY <1>0, <4>3 DEF OverShare, CreateFails, RemoveDestroy, Respond, Idle
      <4>4. CASE Create(q)
        BY <1>0, <4>4 DEF Create, Idle
      <4>5. QED BY <2>1, <2>3, <4>1, <4>2, <4>3, <4>4
    <3>2. QED BY <3>1
  <2>4. QED BY <2>2, <2>3
<1>3. CASE Environment
  <2>1. ASSUME NEW q \in Slots, HandlerDies(q)
        PROVE  reqs'[s] = reqs[s] \/ reqs'[s].pc = "idle"
    BY <1>0, <2>1 DEF HandlerDies, Respond, Idle
  <2>2. QED BY <1>3, <2>1 DEF Environment, ArticleGone, AccountGone
<1>4. QED BY <1>1, <1>2, <1>3 DEF Next

\* While it waits, what others insert does not matter to it.
LEMMA UndisturbedFrame ==
  ASSUME TypeInv, TypeInv', Next, NEW s \in Slots, Undisturbed(s), reqs'[s] = reqs[s]
  PROVE  Undisturbed(s)'
<1> SUFFICES ASSUME s \in Evicting', s \notin disturbed'
             PROVE  /\ Bytes(media') > Cap
                    /\ reqs'[s].pc = "oldest" => reqs'[s].total <= Bytes(media')
                    /\ reqs'[s].pc = "evict" =>
                         \E row \in media' : /\ row.id = reqs'[s].victim
                                             /\ reqs'[s].total + row.sizeBytes <= Bytes(media')
  BY DEF Undisturbed
<1>1. s \in Evicting
  BY DEF Evicting
<1>2. s \notin disturbed /\ ~ (Bytes(media') < Bytes(media))
  BY <1>1 DEF Next, Observe
<1>3. PICK b, c : b = Bytes(media) /\ c = Bytes(media')
  OBVIOUS
<1>4. b \in Nat /\ c \in Nat /\ Cap \in Nat /\ reqs[s].total \in Nat
  BY <1>3, MediaSized, MediaSizedNext, BytesType DEF TypeInv, TypeOK, Request
<1>5. b <= c
  BY <1>2, <1>3, <1>4
<1>6. /\ b > Cap
      /\ reqs[s].pc = "oldest" => reqs[s].total <= b
      /\ reqs[s].pc = "evict" => \E row \in media : /\ row.id = reqs[s].victim
                                                    /\ reqs[s].total + row.sizeBytes <= b
  BY <1>1, <1>2, <1>3 DEF Undisturbed
<1>7. c > Cap /\ (reqs[s].pc = "oldest" => reqs[s].total <= c)
  BY <1>4, <1>5, <1>6
<1>8. ASSUME reqs[s].pc = "evict"
      PROVE  \E row \in media' : row.id = reqs[s].victim /\ reqs[s].total + row.sizeBytes <= c
  <2>1. PICK row \in media : row.id = reqs[s].victim /\ reqs[s].total + row.sizeBytes <= b
    BY <1>6, <1>8
  <2>2. PICK y \in media' : y.id = row.id /\ y.sizeBytes = row.sizeBytes
    BY <1>3, <1>5, BytesKeepRows DEF Stays
  <2>3. row.sizeBytes \in Nat
    BY MediaSized
  <2>4. reqs[s].total + y.sizeBytes <= c
    BY <1>4, <1>5, <2>1, <2>2, <2>3
  <2>5. QED BY <2>1, <2>2, <2>4
<1>9. QED BY <1>3, <1>7, <1>8

\* Its own statements take off the count what they take off the table.
LEMMA UndisturbedSumUp ==
  ASSUME TypeInv, NEW s \in Slots, SumUp(s)
  PROVE  Undisturbed(s)'
<1>1. PICK total : total = Bytes(media)
  OBVIOUS
<1>2. total \in Nat
  BY <1>1, MediaSized, BytesType
<1>3. /\ media' = media
      /\ reqs'[s] = IF OverCap(total) THEN [Idle EXCEPT !.pc = "oldest", !.total = total]
                    ELSE Idle
  BY <1>1 DEF SumUp, TypeInv, TypeOK
<1>4. CASE OverCap(total)
  <2>1. reqs'[s].pc = "oldest" /\ reqs'[s].total = total /\ total > Cap
    BY <1>3, <1>4 DEF Idle, OverCap
  <2>2. reqs'[s].total <= Bytes(media')
    BY <1>1, <1>2, <1>3, <2>1
  <2>3. QED BY <1>1, <1>3, <2>1, <2>2 DEF Undisturbed
<1>5. CASE ~ OverCap(total)
  <2>1. reqs'[s].pc = "idle"
    BY <1>3, <1>5 DEF Idle
  <2>2. s \notin Evicting'
    BY <2>1 DEF Evicting
  <2>3. QED BY <2>2 DEF Undisturbed
<1>6. QED BY <1>4, <1>5

\* The row it has found accounts for what it takes off.
LEMMA UndisturbedFindOldest ==
  ASSUME TypeInv, Observe, NEW s \in Slots, Undisturbed(s), FindOldest(s)
  PROVE  Undisturbed(s)'
<1>0. /\ reqs \in [Slots -> Request] /\ reqs[s].pc = "oldest" /\ reqs[s].total \in Nat
      /\ media' = media
  BY DEF TypeInv, TypeOK, Request, FindOldest
<1>1. CASE media = {}
  <2>1. reqs'[s].pc = "idle"
    BY <1>0, <1>1 DEF FindOldest, Respond, Idle
  <2>2. s \notin Evicting'
    BY <2>1 DEF Evicting
  <2>3. QED BY <2>2 DEF Undisturbed
<1>2. CASE media # {}
  <2>1. PICK row \in media :
          reqs' = [reqs EXCEPT ![s] = [reqs[s] EXCEPT !.pc = "evict", !.victim = row.id,
                                                      !.total = @ - row.sizeBytes]]
    BY <1>2 DEF FindOldest
  <2>2. /\ reqs'[s].pc = "evict" /\ reqs'[s].victim = row.id
        /\ reqs'[s].total = reqs[s].total - row.sizeBytes
    BY <1>0, <2>1 DEF Request
  <2>3. row.sizeBytes \in Nat /\ Bytes(media) \in Nat
    BY MediaSized, BytesType
  <2>4. s \in Evicting /\ s \in Evicting'
    BY <1>0, <2>2 DEF Evicting
  <2>5. s \notin disturbed' => s \notin disturbed
    BY <2>4 DEF Observe
  <2>6. s \notin disturbed => Bytes(media) > Cap /\ reqs[s].total <= Bytes(media)
    BY <1>0, <2>4 DEF Undisturbed
  <2>7. reqs'[s].total + row.sizeBytes = reqs[s].total
    BY <1>0, <2>2, <2>3
  <2>8. QED BY <1>0, <2>2, <2>5, <2>6, <2>7 DEF Undisturbed
<1>3. QED BY <1>1, <1>2

\* The delete takes off the table what has been taken off the count.
LEMMA UndisturbedEvict ==
  ASSUME TypeInv, Observe, NEW s \in Slots, Undisturbed(s), Evict(s)
  PROVE  Undisturbed(s)'
<1>1. /\ reqs \in [Slots -> Request] /\ reqs[s].pc = "evict" /\ reqs[s].total \in Nat
      /\ media' = media \ {row \in media : row.id = reqs[s].victim}
      /\ reqs' = [reqs EXCEPT ![s] = IF OverCap(reqs[s].total)
                                     THEN [reqs[s] EXCEPT !.pc = "oldest", !.victim = None]
                                     ELSE Idle]
  BY DEF TypeInv, TypeOK, Request, Evict, DeleteImages
<1>2. CASE OverCap(reqs[s].total)
  <2>1. reqs'[s].pc = "oldest" /\ reqs'[s].total = reqs[s].total /\ reqs[s].total > Cap
    BY <1>1, <1>2 DEF Request, OverCap
  <2>2. s \in Evicting /\ s \in Evicting'
    BY <1>1, <2>1 DEF Evicting
  <2>3. SUFFICES ASSUME s \notin disturbed'
                 PROVE  Bytes(media') > Cap /\ reqs'[s].total <= Bytes(media')
    BY <2>1 DEF Undisturbed
  <2>4. PICK row \in media : /\ row.id = reqs[s].victim
                            /\ reqs[s].total + row.sizeBytes <= Bytes(media)
    BY <1>1, <2>2, <2>3 DEF Undisturbed, Observe
  <2>5. media' = media \ {row}
    BY <1>1, <2>4 DEF TypeInv, RowsOK
  <2>6. Sized(media) /\ Sized(media \ {row}) /\ row.sizeBytes \in Nat
    BY MediaSized, SubsetSized
  <2>7. PICK b, c : b = Bytes(media) /\ c = Bytes(media \ {row})
    OBVIOUS
  <2>8. b \in Nat /\ c \in Nat /\ b = row.sizeBytes + c
    BY <2>6, <2>7, BytesType, BytesRemove
  <2>9. reqs[s].total <= c /\ c > Cap
    BY <1>1, <2>1, <2>4, <2>6, <2>7, <2>8
  <2>10. QED BY <2>1, <2>5, <2>7, <2>9
<1>3. CASE ~ OverCap(reqs[s].total)
  <2>1. reqs'[s].pc = "idle"
    BY <1>1, <1>3 DEF Idle
  <2>2. s \notin Evicting'
    BY <2>1 DEF Evicting
  <2>3. QED BY <2>2 DEF Undisturbed
<1>4. QED BY <1>2, <1>3

\* Step by step.
LEMMA UndisturbedNext ==
  ASSUME TypeInv, TypeInv', [Next]_vars, NEW s \in Slots, Undisturbed(s)
  PROVE  Undisturbed(s)'
<1>1. CASE Next
  <2>1. Observe
    BY <1>1 DEF Next
  <2>2. CASE reqs'[s].pc \notin {"oldest", "evict"}
    <3>1. s \notin Evicting'
      BY <2>2 DEF Evicting
    <3>2. QED BY <3>1 DEF Undisturbed
  <2>3. QED BY <1>1, <2>1, <2>2, EvictingMoves, UndisturbedFrame, UndisturbedSumUp,
               UndisturbedFindOldest, UndisturbedEvict
<1>2. CASE UNCHANGED vars
  <2>1. UNCHANGED <<media, reqs, disturbed>>
    BY <1>2 DEF vars
  <2>2. QED BY <2>1 DEF Undisturbed, Evicting
<1>3. QED BY <1>1, <1>2

\* Unless something else has freed bytes since its sum was taken, a handler evicts
\* no image once the table is within the cap, even when other uploads have come in
\* between (media.service.ts:143-154).
THEOREM EvictionNeeded == Spec => EvictsOnlyOverCap
<1> DEFINE Inv == \A s \in Slots : Undisturbed(s)
<1>1. Init => Inv
  <2> SUFFICES ASSUME Init PROVE Evicting = {}
    BY DEF Undisturbed
  <2>1. QED BY DEF Init, Idle, Evicting
<1>2. TypeInv /\ TypeInv' /\ Inv /\ [Next]_vars => Inv'
  BY UndisturbedNext
<1>3. Inv => [\A s \in Evicting : reqs[s].pc = "evict" /\ s \notin disturbed /\ reqs'[s] # reqs[s]
                                     /\ Bytes(media') < Bytes(media)
                => Bytes(media) > Cap]_vars
  BY DEF Undisturbed, Evicting
<1>4. QED BY <1>1, <1>2, <1>3, TypeInit, TypeNext, PTL DEF Spec, EvictsOnlyOverCap
=============================================================================
