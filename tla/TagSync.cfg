\* Three updates of one article and two tags at a time.
SPECIFICATION Spec
CONSTANTS
  a1 = a1
  n1 = n1
  n2 = n2
  variant = variant
  blank = blank
  s1 = s1
  s2 = s2
  s3 = s3
  None = None
  ArticleIds = {a1}
  TagNames = {n1, n2}
  Spellings = {n1, variant, blank, n2}
  normalize <- MCNormalize
  Slots = {s1, s2, s3}
SYMMETRY Interchangeable
INVARIANTS TypeOK LinksIntact
PROPERTY TagsSettle
