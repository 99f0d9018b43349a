----------------------------- MODULE MCBindings -----------------------------
(* Bindings for TLC: users, codes and requests are interchangeable.         *)
EXTENDS Bindings, TLC

MCSymmetry ==
    Permutations(Users) \cup Permutations(Codes) \cup Permutations(Requests)
=============================================================================
