-------------------------------- MODULE MCXfer --------------------------------
(* Instances of Xfer for TLC. *)
EXTENDS XferRefinement, TLC

CONSTANTS p1, p2, p3, g, h

(* Two priorities; with MaximumMatrix, the default of every DDD type, the    *)
(* greater one wins.                                                         *)
TwoPrios    == {1, 2}

(* A matrix as initddd.cc of UG has it in a comment: merging two priorities  *)
(* gives a third one that stands for both.                                   *)
GhostPrios  == {1, 2, 3}
GhostMatrix == PrioMergeDefine(MaximumMatrix, 1, 2, 3)

(* DDD merges in the order its sorts leave equal keys, see MergeAll. *)
ASSUME MatrixAssumption == IsMergeLattice

ProcSymmetry == Permutations(Proc)
==============================================================================
