---------------------------- MODULE MCRegistration ----------------------------
(***************************************************************************)
(* An instance of Registration: two invitations of one email.              *)
(***************************************************************************)
EXTENDS Registration, TLC

MCInvitation == 1 .. 2
MCEmailOf    == [i \in MCInvitation |-> CHOOSE e \in Email : TRUE]

Symmetry == Permutations(Req) \cup Permutations(Address)
===============================================================================
