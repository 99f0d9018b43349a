-------------------------- MODULE MCDeviceIngress --------------------------
(* DeviceIngress for TLC: the symmetry the safety runs use.                *)
EXTENDS DeviceIngress, TLC

Symmetry == Permutations(Keys) \cup Permutations(Reports) \cup Permutations(Workers)
=============================================================================
