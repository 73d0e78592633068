------------------------------ MODULE MCLockout ------------------------------
(* Lockout on small sets, for TLC.                                         *)
EXTENDS Lockout, TLC

Symmetry == Permutations(Reqs)
=============================================================================
