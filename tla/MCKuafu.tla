------------------------------- MODULE MCKuafu -------------------------------
EXTENDS Kuafu, TLC

CONSTANTS hs, g1, g2

\* The servers that are not the role's home are alike, and so are connections.
Alike == Permutations(Servers \ {Home}) \cup Permutations(Conns)

=============================================================================
