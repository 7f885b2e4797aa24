------------------------------ MODULE MCSession ------------------------------
EXTENDS SessionStore, TLC

Symmetry == Permutations(Agents) \cup Permutations(Roles)

=============================================================================
