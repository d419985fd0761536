--------------------------- MODULE MCPlaygroundChat ---------------------------
(* An instance of PlaygroundChat. *)
EXTENDS PlaygroundChat, TLC

Symmetry == Permutations(Req) \cup Permutations(Visitor) \cup Permutations(Id)
===============================================================================
