--------------------------- MODULE MCTableRegistry ---------------------------
(* Instances of TableRegistry for TLC.                                       *)
EXTENDS TableRegistryInvariants, TLC

(* The ids and the workers of one role are interchangeable. *)
SymInv == Permutations(Inv)
SymWorkersInv == Permutations(Workers) \cup Permutations(Inv)
=============================================================================
