----------------------------- MODULE MCRowLocks -----------------------------
(* Symmetry for RowLocks: no service tells one row of a table from another.  *)
EXTENDS RowLocks, TLC

Symmetry ==
    Permutations(Threads) \cup Permutations(Links) \cup Permutations(Images)
        \cup Permutations(Connections) \cup Permutations(Publications)
        \cup Permutations(Drafts) \cup Permutations(Schedulings)

=============================================================================
