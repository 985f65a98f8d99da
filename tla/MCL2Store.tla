------------------------------ MODULE MCL2Store ------------------------------
(* The store with two calls that may overlap, three L2 blocks of which the    *)
(* first has grown too old when the third comes, its withdrawals too, a node  *)
(* that is one behind, and a restart.  The transaction of the second block    *)
(* makes two withdrawals.                                                     *)
EXTENDS L2Store, TLC

SentInBlocks == <<1, 2, 1>>

(* The two calls do the same: only one of two states that differ in their     *)
(* names is looked at.                                                        *)
Symmetry == Permutations(Calls)
=============================================================================
