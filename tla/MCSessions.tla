----------------------------- MODULE MCSessions -----------------------------
(* Sessions on small sets, for TLC.                                        *)
EXTENDS Sessions, TLC

\* Users and request slots are interchangeable.
Symmetry == Permutations(Users) \cup Permutations(Reqs)
=============================================================================
