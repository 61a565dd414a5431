----------------------------- MODULE ListParts -----------------------------
(***************************************************************************)
(* The element list of a grid level (gm/dlmgr.t): one doubly linked list   *)
(* in two parts, ghosts before masters.  SUCC runs through both parts,     *)
(* PRED stays within one.  A list is a record with the ends of the parts,  *)
(* the pointers, and the number of elements of each priority.  The code    *)
(* also treats parts in the middle; no priority leads to one.              *)
(***************************************************************************)
EXTENDS Integers, FiniteSets, SequencesExt

CONSTANTS Elem,   \* the elements of one level
          NULL

Prios == {"HGhost", "VGhost", "VHGhost", "Master"}

Prio2ListPart(prio) == IF prio = "Master" THEN 1 ELSE 0

EmptyList ==
    [first |-> [part \in 0 .. 1 |-> NULL], last |-> [part \in 0 .. 1 |-> NULL],
     succ  |-> [e \in Elem |-> NULL],      pred |-> [e \in Elem |-> NULL],
     count |-> [p \in Prios |-> 0]]

\* The n-th successor of x, NULL behind the end.
Nth(l, x) ==
    LET nth[n \in 0 .. Cardinality(Elem)] ==
            IF n = 0 THEN x ELSE IF nth[n - 1] = NULL THEN NULL ELSE l.succ[nth[n - 1]]
    IN  nth

\* x and its successors.
Chain(l, x) ==
    LET nth == Nth(l, x)
    IN  [n \in 1 .. Cardinality({k \in DOMAIN nth : nth[k] # NULL}) |-> nth[n - 1]]

\* The pointers after an assignment to the one of x, if x is an object.
Put(pointers, x, value) == IF x = NULL THEN pointers ELSE [pointers EXCEPT ![x] = value]

UnlinkGhost(l, e) ==
    LET isLast == l.last[0] = e IN
    [l EXCEPT
        !.succ = Put(@, l.pred[e], l.succ[e]),
        !.pred = IF isLast THEN @ ELSE Put(@, l.succ[e], l.pred[e]),
        !.first[0] = IF @ # e THEN @ ELSE IF isLast THEN NULL ELSE l.succ[e],
        !.last[0] = IF isLast THEN l.pred[e] ELSE @]

\* Mutant: the last ghost keeps its SUCC.
UnlinkMasterAlone(l, e) ==
    [l EXCEPT
        !.succ = Put(@, l.pred[e], l.succ[e]),
        !.pred = Put(@, l.succ[e], l.pred[e]),
        !.first[1] = IF l.pred[e] = NULL THEN l.succ[e] ELSE @,
        !.last[1] = IF l.succ[e] = NULL THEN l.pred[e] ELSE @]

UnlinkMaster(l, e) ==
    [l EXCEPT
        !.succ = Put(@, IF l.pred[e] = NULL THEN l.last[0] ELSE l.pred[e], l.succ[e]),
        !.pred = Put(@, l.succ[e], l.pred[e]),
        !.first[1] = IF l.pred[e] = NULL THEN l.succ[e] ELSE @,
        !.last[1] = IF l.succ[e] = NULL THEN l.pred[e] ELSE @]

GridUnlink(l, e, prio) ==
    LET rest == IF Prio2ListPart(prio) = 0 THEN UnlinkGhost(l, e) ELSE UnlinkMaster(l, e)
    IN  [rest EXCEPT !.succ[e] = NULL, !.pred[e] = NULL, !.count[prio] = @ - 1]

\* Ghosts go to the front of their part, masters to the end.
LinkGhost(l, e) ==
    LET head == l.first[0] IN
    [l EXCEPT
        !.succ[e] = IF head = NULL THEN l.first[1] ELSE head,
        !.pred = Put([@ EXCEPT ![e] = NULL], head, e),
        !.first[0] = e,
        !.last[0] = IF head = NULL THEN e ELSE @]

LinkMaster(l, e) ==
    LET tail == l.last[1] IN
    [l EXCEPT
        !.succ = Put([@ EXCEPT ![e] = NULL], IF tail = NULL THEN l.last[0] ELSE tail, e),
        !.pred[e] = tail,
        !.first[1] = IF tail = NULL THEN e ELSE @,
        !.last[1] = e]

GridLink(l, e, prio) ==
    LET linked == IF Prio2ListPart(prio) = 0 THEN LinkGhost(l, e) ELSE LinkMaster(l, e)
    IN  [linked EXCEPT !.count[prio] = @ + 1]

\* Link e behind a given element, whose priority is taken to be of the same part.
GridLinkX(l, e, prio, after) ==
    IF after = NULL THEN GridLink(l, e, prio)
    ELSE LET next == l.succ[after]
             part == Prio2ListPart(prio)
         IN  [l EXCEPT
                 !.succ = [@ EXCEPT ![e] = next, ![after] = e],
                 !.pred = [(IF next # NULL /\ l.pred[next] = after THEN Put(@, next, e) ELSE @)
                              EXCEPT ![e] = after],
                 !.last[part] = IF @ = after THEN e ELSE @,
                 !.count[prio] = @ + 1]
=============================================================================
