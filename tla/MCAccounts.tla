----------------------------- MODULE MCAccounts -----------------------------
(* Accounts on a small instance. *)
EXTENDS Accounts

CONSTANTS ann, bea, c1, c2

MCUsers == {ann, bea}
MCCounted == {ann}
MCClients == {c1, c2}

(* One client does everything, the other may share its queries. *)
MCWanted ==
  {<<c1, op, {ann}>> : op \in {"mistype", "me", "exists", "profile"}}
    \cup {<<c1, "names", {bea}>>, <<c1, "names", {ann, bea}>>}
    \cup {<<c2, op, {ann}>> : op \in {"login", "exists"}}
=============================================================================
