---------------------------- MODULE MCApprovals -----------------------------
\* Symmetry for the configurations of Approvals.
EXTENDS Approvals, TLC

Symmetry ==
    Permutations(Posts) \cup Permutations(Links) \cup Permutations(Threads)
=============================================================================
