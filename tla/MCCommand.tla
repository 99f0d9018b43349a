---------------------------- MODULE MCCommand ------------------------------
(* Command for TLC: the symmetry the safety runs use.                      *)
EXTENDS Command, TLC

Symmetry == Permutations(PropertySets) \cup Permutations(Repliers)
=============================================================================
