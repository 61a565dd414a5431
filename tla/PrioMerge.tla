------------------------------ MODULE PrioMerge ------------------------------
(***************************************************************************)
(* Merging of two DDD priorities (ddd/mgr/prio.cc).  A DDD type owns a      *)
(* symmetric matrix of priorities that is stored as its lower triangle; a   *)
(* type without a matrix behaves as if the matrix held the default merge.   *)
(***************************************************************************)
EXTENDS Integers, FiniteSetsExt

CONSTANTS
    Prio,        \* the priorities an object can have, a part of 0 .. MAX_PRIO - 1
    PrioMatrix   \* PrioMatrix[r][c] for c <= r: TYPE_DESC::prioMatrix

ASSUME PrioAssumption ==
    /\ Prio \subseteq Nat
    /\ \A r, c \in Prio : c <= r => PrioMatrix[r][c] \in Prio

(* PM_GETDEFAULT for the two merge modes that exist. *)
MaximumMatrix == [r \in Prio |-> [c \in Prio |-> IF c <= r THEN r ELSE c]]
MinimumMatrix == [r \in Prio |-> [c \in Prio |-> IF c <= r THEN c ELSE r]]

(* The priority PriorityMerge stores in *pres. *)
MergedPrio(p1, p2) == IF p2 <= p1 THEN PrioMatrix[p1][p2] ELSE PrioMatrix[p2][p1]

(* PriorityMerge returns PRIO_FIRST.  The matrix may name a third priority, *)
(* and then the first argument counts as the winner too.                    *)
FirstWins(p1, p2) == MergedPrio(p1, p2) = p1 \/ MergedPrio(p1, p2) # p2

(* PrioMergeDefine: overwrite one entry of the lower triangle. *)
PrioMergeDefine(matrix, p1, p2, pres) ==
    IF p2 <= p1 THEN [matrix EXCEPT ![p1][p2] = pres]
                ELSE [matrix EXCEPT ![p2][p1] = pres]

(* The result of merging all members of a non-empty set one by one.  DDD    *)
(* merges in whatever order its sorts leave equal keys, so the result is    *)
(* well defined only if the order does not matter (IsMergeLattice).         *)
MergeAll(S) ==
    LET first == CHOOSE p \in S : TRUE
    IN  FoldSet(MergedPrio, first, S \ {first})

IsMergeLattice ==
    /\ \A p \in Prio : MergedPrio(p, p) = p
    /\ \A p, q, r \in Prio :
          MergedPrio(p, MergedPrio(q, r)) = MergedPrio(MergedPrio(p, q), r)
==============================================================================
