------------------------------- MODULE MCPanel -------------------------------
(* Symmetry for Panel: brands of a workspace, and channels, are alike.       *)
EXTENDS Panel, TLC

Symmetry == Permutations(Names) \cup Permutations(Channels)

=============================================================================
