------------------------------ MODULE Accounts ------------------------------
(***************************************************************************)
(* What the content half of the backend may rely on about accounts: an     *)
(* abstract specification, which Identity implements and beside which      *)
(* Articles runs.  To the content half an account is a role that requests  *)
(* come with and a row that authorId refers to.                            *)
(***************************************************************************)
CONSTANTS UserIds,     \* users.id
          Seeded,      \* the accounts there are at the start
          SeedAdmins   \* those of them that are administrators

VARIABLE standing

Roles == {"editor", "admin"}

\* "absent" stands for an account that is not approved yet: no request comes
\* from it.  "gone" is deleted.
Standing == Roles \cup {"absent", "gone"}

\* There is a row, and requests may come.
InTable(u) == standing[u] \in Roles

Init ==
  standing = [u \in UserIds |-> CASE u \in SeedAdmins -> "admin"
                                  [] u \in Seeded \ SeedAdmins -> "editor"
                                  [] OTHER -> "absent"]

\* An account is approved, or its role changed.
Grant(u, role) ==
  /\ standing[u] \notin {role, "gone"}
  /\ standing' = [standing EXCEPT ![u] = role]

\* An account is deleted, for good, and may never have been approved.
Delete(u) ==
  /\ standing[u] # "gone"
  /\ standing' = [standing EXCEPT ![u] = "gone"]

Next ==
  \E u \in UserIds : (\E role \in Roles : Grant(u, role)) \/ Delete(u)

Spec == Init /\ [][Next]_standing

=============================================================================
