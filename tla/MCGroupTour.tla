---------------------------- MODULE MCGroupTour ----------------------------
EXTENDS GroupTour, TLC
\* Requests are told apart by name only.
Symmetry == Permutations(Requests)
=============================================================================
