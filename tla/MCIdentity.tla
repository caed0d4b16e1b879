----------------------------- MODULE MCIdentity -----------------------------
(***************************************************************************)
(* Instances of Identity for TLC: one seeded administrator, the rest of    *)
(* the accounts to be signed up.                                           *)
(***************************************************************************)
EXTENDS Identity, TLC

CONSTANTS admin, adminEmail   \* the seeded account and its address

MCSeedEmail == admin :> adminEmail

\* Accounts not yet signed up, addresses nobody has, tokens and slots are
\* interchangeable.
Interchangeable ==
  Permutations(UserIds \ {admin}) \cup Permutations(Emails \ {adminEmail})
    \cup Permutations(TokenIds) \cup Permutations(Slots)

=============================================================================
