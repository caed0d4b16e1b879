\* One reader of three articles with two tags, and editors at any time.
SPECIFICATION Spec
CONSTANTS
  a1 = a1
  a2 = a2
  a3 = a3
  t1 = t1
  t2 = t2
  None = None
  ArticleIds = {a1, a2, a3}
  TagIds = {t1, t2}
  Limits = {1, 2}
SYMMETRY Interchangeable
INVARIANTS TypeOK ImageWasShown
PROPERTIES RelatedSound QuietReadsExact
