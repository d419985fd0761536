-------------------------- MODULE MCPlaygroundStore --------------------------
(* Small instance of PlaygroundStore. Visitors are interchangeable, and so *)
(* are ids: the specification only compares them for equality.             *)
EXTENDS PlaygroundStore, TLC

Interchangeable == Permutations(Visitor) \cup Permutations(Id)
=============================================================================
