---------------------------- MODULE MCLoginLockout ----------------------------
(* Instance of LoginLockout for TLC: the clients are interchangeable. *)
EXTENDS LoginLockout, TLC

Symmetry == Permutations(Client)
=============================================================================
