----------------------------- MODULE MCCatalog -----------------------------
(* Catalog for TLC: every device belongs to the product `home`. *)
EXTENDS Catalog, TLC

CONSTANT home

MCProductOf == [d \in Devices |-> home]
MCSymmetry == Permutations(Requests) \cup Permutations(Devices)
=============================================================================
