----------------------------- MODULE MCWarMatch -----------------------------
EXTENDS WarMatch, TLC

Symmetry == Permutations(Pids) \cup Permutations(Servers)

=============================================================================
