---------------------------- MODULE MCPromptStore ----------------------------
(* An instance of PromptStore with interchangeable requests. *)
EXTENDS PromptStore, TLC

Symmetry == Permutations(Req)
==============================================================================
