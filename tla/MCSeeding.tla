------------------------------ MODULE MCSeeding ------------------------------
(* Seeding with a small file, for TLC.                                     *)
EXTENDS Seeding, TLC

CONSTANTS food, health, cafe

\* As in the real file, a name may be a category and a subcategory.
MCData == << [category |-> food, subcategory |-> cafe],
             [category |-> health, subcategory |-> NoName],
             [category |-> food, subcategory |-> health] >>

Symmetry == Permutations(Runs)
=============================================================================
