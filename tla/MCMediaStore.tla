---------------------------- MODULE MCMediaStore ----------------------------
(***************************************************************************)
(* An instance of MediaStore for TLC: all the articles are one author's.   *)
(***************************************************************************)
EXTENDS MediaStore, TLC

CONSTANT author

MCAuthorId == [a \in ArticleIds |-> author]

Interchangeable ==
  Permutations(Images) \cup Permutations(ArticleIds) \cup Permutations(Slots)

=============================================================================
