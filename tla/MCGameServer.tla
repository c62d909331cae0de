---------------------------- MODULE MCGameServer ----------------------------
(* Two users; two tokens of alice's so that she can log in twice, one of    *)
(* bob's so that a session can authenticate as a second user.               *)
EXTENDS GameServer, TLC

CONSTANTS s1, s2, alice, bob, ta, ta2, tb

MCOwner == [t \in Token |-> IF t = tb THEN bob ELSE alice]
Symmetry == Permutations(Session) \cup Permutations(Token \ {tb})

(* Bounds on the jobs the clients cause. *)
OneTake == [take |-> 1, save |-> 0]
TakesAndSave == [take |-> 2, save |-> 1]
=============================================================================
