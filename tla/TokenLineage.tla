---------------------------- MODULE TokenLineage ----------------------------
(***************************************************************************)
(* What rotation of refresh tokens promises, without requests: a login     *)
(* opens a family, a refresh exchanges a token that is dead by then for a  *)
(* new one of the same account and family, revocation ends tokens of one   *)
(* family for good, and an account takes all its tokens with it.           *)
(*                                                                         *)
(* It does not promise that a token is exchanged once: two refreshes that  *)
(* race may both succeed (Identity, OneLiveUnlessForked).                  *)
(***************************************************************************)
CONSTANTS UserIds, TokenIds, None

VARIABLE token

NoRow(state) == [state |-> state, owner |-> None, family |-> None, parent |-> None]

Init == token = [t \in TokenIds |-> NoRow("unissued")]

Issue(t, u, f, p) ==
  /\ token[t].state = "unissued"
  /\ token' = [token EXCEPT ![t] = [state |-> "live", owner |-> u, family |-> f, parent |-> p]]

Open(t, u) == Issue(t, u, t, None)

Rotate(t, p) ==
  /\ token[p].state = "revoked"
  /\ Issue(t, token[p].owner, token[p].family, p)

Live(f) == {t \in TokenIds : token[t].state = "live" /\ token[t].family = f}

\* One token (rotation, logout) or a whole family (reuse).
Revoke(f) ==
  \E dead \in {{t} : t \in Live(f)} \cup {Live(f)} :
    token' = [t \in TokenIds |-> IF t \in dead THEN [token[t] EXCEPT !.state = "revoked"]
                                 ELSE token[t]]

Purge(u) ==
  token' = [t \in TokenIds |-> IF token[t].owner = u THEN NoRow("deleted") ELSE token[t]]

Next ==
  \/ \E t \in TokenIds : \/ \E u \in UserIds : Open(t, u)
                         \/ \E p \in TokenIds : Rotate(t, p)
  \/ \E f \in TokenIds : Revoke(f)
  \/ \E u \in UserIds : Purge(u)

Spec == Init /\ [][Next]_token

=============================================================================
