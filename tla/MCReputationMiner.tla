------------------------- MODULE MCReputationMiner --------------------------
EXTENDS ReputationMiner

\* Skill 2 is a child of 1 and 3 a child of 2; or 2 and 3 are both children of 1.
Chain    == <<0, 1, 2>>
Siblings == <<0, 1, 1>>

GainsAndLoss == {-2, 3}
OneUpOneDown == {-1, 1}
TwoThenOne == <<2, 1>>
FiveEntries == <<5>>

\* No two keys share a hash; neighbours in number are not neighbours in name.
ScatteredHash ==
    [k \in Keys \cup {NoKey} |-> IF k = NoKey THEN 0 ELSE 1 + ((7 * (3 * (k[1] - 1) + k[2])) % 15)]
=============================================================================
