--------------------------- MODULE MCThreadHistory ---------------------------
(* Small instance of ThreadHistory; its requests are interchangeable. *)
EXTENDS ThreadHistory, TLC

Interchangeable == Permutations(Request)
=============================================================================
