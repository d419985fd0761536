---------------------------- MODULE MCTokenRotation ----------------------------
(* Instances of TokenRotation for TLC: clients and ids are interchangeable. *)
EXTENDS TokenRotation, TLC

Symmetry == Permutations(Client) \cup Permutations(Token)
=============================================================================
