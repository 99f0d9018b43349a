----------------------------- MODULE MCOtaTask -----------------------------
(* OtaTask for TLC: the symmetry the safety runs use.                      *)
EXTENDS OtaTask, TLC

Symmetry == Permutations(Devices) \cup Permutations(Handlers)
=============================================================================
