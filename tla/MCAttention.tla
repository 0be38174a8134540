----------------------------- MODULE MCAttention ------------------------------
(* Small instances of Attention: a permission and a clarification of one   *)
(* session, and a permission in each of two sessions.                      *)
EXTENDS Attention

CONSTANTS s1, s2, p1, p2, c1

OneSession == {s1}
TwoSessions == {s1, s2}
OnePerm == {p1}
TwoPerms == {p1, p2}
OneClar == {c1}

InOne == [i \in Perms \cup Clars |-> s1]
InTwo == [i \in Perms \cup Clars |-> IF i = p2 THEN s2 ELSE s1]

PermThenClar == <<p1, c1>>
PermThenPerm == <<p1, p2>>
=============================================================================
