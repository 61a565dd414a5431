---------------------------- MODULE XferRefinement ----------------------------
(***************************************************************************)
(* The communication phases of Xfer implement the atomic transfer of        *)
(* XferAbstract.  The transfer takes effect when the first processor        *)
(* passes the barrier before the objects are sent: from this step on a      *)
(* processor that is late is described by the result it is going to compute.*)
(***************************************************************************)
EXTENDS Xfer

(* Somebody has passed the LC_Connect in which p still is. *)
PassedConnect(p) ==
    /\ pc[p] = "connect" /\ ~Exception(p)
    /\ \E q \in Proc : conn[q] > conn[p] \/ (conn[q] = conn[p] /\ pc[q] = "comm")

Transferred(p) == PassedConnect(p) \/ pc[p] \in {"comm", "connectCpl", "commCpl"}

(* Deletions count although they have been pruned: a pruned deletion means   *)
(* that the copy on its way replaces the local one.                          *)
Deleted(p) == delCmd[p] \cup IF pc[p] = "user" THEN {} ELSE pruned[p]

(* The copy p has before and without anything it receives.                   *)
KeptPrio(p, g) ==
    IF g \in Deleted(p) THEN NoPrio
    ELSE IF pc[p] = "connect" /\ setPrio[p][g] # NoPrio THEN setPrio[p][g] ELSE obj[p][g]
SentPrios(p, g) == {copyObj[q][g][p] : q \in Proc} \ {NoPrio}

AbsObj == [p \in Proc |-> [g \in Gid |->
    IF ~Transferred(p) \/ pc[p] \notin {"connect", "comm"} \/ SentPrios(p, g) = {}
      THEN IF PassedConnect(p) THEN KeptPrio(p, g) ELSE obj[p][g]
    ELSE IF KeptPrio(p, g) = NoPrio THEN MergeAll(SentPrios(p, g))
    ELSE MergedPrio(MergeAll(SentPrios(p, g)), KeptPrio(p, g))]]

AbsCopyObj == [p \in Proc |-> IF Transferred(p) THEN NoCopies ELSE copyObj[p]]
AbsSetPrio == [p \in Proc |-> IF Transferred(p) THEN NoSetPrio ELSE setPrio[p]]
AbsDelCmd  == [p \in Proc |-> IF Transferred(p) THEN {} ELSE Deleted(p)]

Abstract == INSTANCE XferAbstract WITH
    obj <- AbsObj, copyObj <- AbsCopyObj, setPrio <- AbsSetPrio, delCmd <- AbsDelCmd,
    done <- {p \in Proc : Transferred(p)}

(* XferEnd is atomic: with and without the pruning of deletions, whatever    *)
(* the order in which the processors go through its phases, every object     *)
(* ends up where the commands sent it, with the priority of rules XFER-C1 to *)
(* C3, P1 and M1, and an exception leaves all objects as they were.          *)
ImplementsAtomicTransfer == Abstract!Spec
==============================================================================
