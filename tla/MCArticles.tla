----------------------------- MODULE MCArticles -----------------------------
(***************************************************************************)
(* An instance of Articles for TLC: one seeded draft.                      *)
(***************************************************************************)
EXTENDS Articles, TLC

CONSTANTS seeded, author, seedSlug

MCSeedSlug == seeded :> seedSlug
MCSeedAuthor == seeded :> author

\* The other slugs and slots are interchangeable.
Interchangeable ==
  Permutations(Slugs \ {seedSlug}) \cup Permutations(ArticleIds \ {seeded})
    \cup Permutations(Slots)

=============================================================================
