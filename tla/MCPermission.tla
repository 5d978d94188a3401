---------------------------- MODULE MCPermission ----------------------------
(* Requests of three parallel tool calls of a session: the third one needs     *)
(* both patterns, and its own rules deny the first.                            *)
EXTENDS Permission, TLC

CONSTANTS a1, a2, a3, s1, p1, p2

MCSessionOf == [a \in Asks |-> s1]
MCPatterns == (a1 :> {p1}) @@ (a2 :> {p2}) @@ (a3 :> {p1, p2})
MCRule == [a \in Asks |-> [p \in Pattern |->
             IF a = a3 /\ p = p1 THEN "deny" ELSE "ask"]]

Symmetry == Permutations(Replies)

=============================================================================
