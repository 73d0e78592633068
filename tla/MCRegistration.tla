----------------------------- MODULE MCRegistration -----------------------------
(* Registration on small sets, for TLC.                                        *)
EXTENDS Registration, TLC

Symmetry == Permutations(Reqs) \cup Permutations(Tokens) \cup Permutations(Emails)
=============================================================================
