--------------------------- MODULE MCMetaConnections ---------------------------
\* The copied connection and the symmetry for the configurations of
\* MetaConnections.
EXTENDS MetaConnections, TLC

CONSTANTS j1, j2, b1, b2, a1, a2, c1, c2, t1, t2

\* One channel of one account had been copied to a brand: accounts and channels
\* are told apart by it.
MCPromoted == {<<a1, c1>>}

Symmetric ==
    Permutations({j1, j2}) \cup Permutations({b1, b2}) \cup Permutations({t1, t2})
=============================================================================
