----------------------------- MODULE MCRefCount -----------------------------
(* Small instances of RefCount for TLC: one session for each user.         *)
EXTENDS RefCount, TLC

CONSTANTS s1, s2, u1, u2

MCUserOf == s1 :> u1 @@ s2 :> u2
\* The two users with their sessions are alike.
Pairs == {[x \in {s1, s2, u1, u2} |-> CASE x = s1 -> s2 [] x = s2 -> s1 [] x = u1 -> u2 [] x = u2 -> u1]}
=============================================================================
