----------------------------- MODULE MCRegistry -----------------------------
(* Every sequence of registry calls by three sessions and two users. *)
EXTENDS Registry, TLC

Symmetry == Permutations(Session) \cup Permutations(User)
=============================================================================
