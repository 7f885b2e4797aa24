------------------------------- MODULE MCRoute -------------------------------
EXTENDS Route, TLC

CONSTANTS s1, s2, s3

\* One server starts with more roles than a batch takes.
MCListed == [s \in Servers |-> IF s = s1 THEN {1, 2} ELSE {}]

MCListedOne == [s \in Servers |-> IF s = s1 THEN {1} ELSE {}]

\* The servers without roles at first are alike.
Others == Permutations(Servers \ {s1})

=============================================================================
