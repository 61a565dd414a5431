------------------------------- MODULE MCCplMgr -------------------------------
(* Instances of CplMgr for TLC. *)
EXTENDS CplMgrRefinement, TLC

CONSTANTS h1, h2, q1, q2, c1, c2, c3

Symmetry == Permutations(Hdr) \cup Permutations(Proc) \cup Permutations(Cell)
==============================================================================
