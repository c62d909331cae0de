---------------------------- MODULE MCLoginServer ----------------------------
EXTENDS LoginServer, TLC

Symmetry == Permutations(Session) \cup Permutations(User)
=============================================================================
