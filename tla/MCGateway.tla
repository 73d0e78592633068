----------------------------- MODULE MCGateway -----------------------------
(* Gateway on small sets, for TLC.                                         *)
EXTENDS Gateway, TLC

\* Users and request slots are interchangeable.
Symmetry == Permutations(Users) \cup Permutations(Reqs)
=============================================================================
