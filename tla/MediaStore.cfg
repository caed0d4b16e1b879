\* Two requests over two articles, and images of two sizes: an author's share
\* is two thirds of the cap.
SPECIFICATION Spec
CONSTANTS
  a1 = a1
  a2 = a2
  author = author
  admin = admin
  s1 = s1
  s2 = s2
  i1 = i1
  i2 = i2
  i3 = i3
  i4 = i4
  None = None
  ArticleIds = {a1, a2}
  UserIds = {author, admin}
  Admins = {admin}
  authorId <- MCAuthorId
  Images = {i1, i2, i3, i4}
  Sizes = {1, 2}
  Cap = 3
  Share = 2
  Slots = {s1, s2}
SYMMETRY Interchangeable
INVARIANTS TypeOK CapKept ImagesBounded ShareBounded
PROPERTY EvictsOnlyOverCap
CHECK_DEADLOCK FALSE
