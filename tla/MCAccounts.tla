----------------------------- MODULE MCAccounts -----------------------------
(* Accounts on small sets, for TLC.                                        *)
EXTENDS Accounts, TLC

Symmetry == Permutations(Reqs) \cup Permutations(Tokens) \cup Permutations(Emails)
=============================================================================
