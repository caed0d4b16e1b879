\* Two requests over one seeded article and one to be created.
SPECIFICATION Spec
CONSTANTS
  seeded = seeded
  a1 = a1
  author = author
  u1 = u1
  seedSlug = seedSlug
  g1 = g1
  s1 = s1
  s2 = s2
  None = None
  ArticleIds = {seeded, a1}
  UserIds = {author, u1}
  SeedUsers = {author, u1}
  SeedAdmins = {u1}
  Slugs = {seedSlug, g1}
  Slots = {s1, s2}
  SeedSlug <- MCSeedSlug
  SeedAuthor <- MCSeedAuthor
  Audited = {"article_deleted"}
SYMMETRY Interchangeable
INVARIANTS TypeOK SlugUnique PublicationAnnounced AnnouncedWasPublic ArticleDeletedTruthful
PROPERTY OnlyOwnerOrAdmin
CHECK_DEADLOCK FALSE
