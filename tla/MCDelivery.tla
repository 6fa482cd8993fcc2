----------------------------- MODULE MCDelivery -----------------------------
\* Values for the constants of Delivery that a configuration file cannot write.
EXTENDS Delivery, TLC

Symmetry == Permutations(Publications) \cup Permutations(Workers)
=============================================================================
