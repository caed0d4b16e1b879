----------------------------- MODULE MCTagSync ------------------------------
(***************************************************************************)
(* An instance of TagSync for TLC: two tags, one of which may be spelled   *)
(* in another way, and a blank.                                            *)
(***************************************************************************)
EXTENDS TagSync, TLC

CONSTANTS n1, variant, blank

MCNormalize == [name \in Spellings |-> CASE name = variant -> n1
                                         [] name = blank -> None
                                         [] OTHER -> name]

\* Updates are interchangeable.
Interchangeable == Permutations(Slots)

=============================================================================
