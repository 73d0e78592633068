----------------------------- MODULE MCAccess -----------------------------
(* Access on small sets, for TLC.                                          *)
EXTENDS Access, TLC

\* Users and clients are interchangeable.
Symmetry == Permutations(Users) \cup Permutations(Clients)
=============================================================================
