---------------------------- MODULE MCPublicSite ----------------------------
(***************************************************************************)
(* An instance of PublicSite for TLC.                                      *)
(***************************************************************************)
EXTENDS PublicSite, TLC

Interchangeable == Permutations(ArticleIds) \cup Permutations(TagIds)

=============================================================================
