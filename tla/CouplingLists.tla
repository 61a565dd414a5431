---------------------------- MODULE CouplingLists ----------------------------
(***************************************************************************)
(* What the coupling manager promises: every object header has a coupling   *)
(* list, a partial function from the other processors to priorities.  This  *)
(* is how module Xfer uses it (variable cpl).                               *)
(***************************************************************************)
CONSTANTS Hdr, Proc, Prio, NoPrio

VARIABLES
    constructed,    \* the valid headers
    cpl             \* cpl[h][q]: priority of the copy on q, or NoPrio

vars == <<constructed, cpl>>

NoCouplings == [q \in Proc |-> NoPrio]

Init == constructed = {} /\ cpl = [h \in Hdr |-> NoCouplings]

Construct(h) ==
    /\ h \notin constructed
    /\ constructed' = constructed \cup {h} /\ UNCHANGED cpl

Destruct(h) ==
    /\ h \in constructed
    /\ constructed' = constructed \ {h}
    /\ cpl' = [cpl EXCEPT ![h] = NoCouplings]

Move(newhdr, oldhdr) ==
    /\ newhdr \notin constructed /\ oldhdr \in constructed
    /\ constructed' = (constructed \ {oldhdr}) \cup {newhdr}
    /\ cpl' = [cpl EXCEPT ![newhdr] = cpl[oldhdr], ![oldhdr] = NoCouplings]

Set(h, q, prio) ==
    /\ h \in constructed
    /\ cpl' = [cpl EXCEPT ![h][q] = prio] /\ UNCHANGED constructed

Delete(h, q) ==
    /\ h \in constructed
    /\ cpl' = [cpl EXCEPT ![h][q] = NoPrio] /\ UNCHANGED constructed

Next ==
    \/ \E h \in Hdr : Construct(h) \/ Destruct(h)
    \/ \E newhdr, oldhdr \in Hdr : Move(newhdr, oldhdr)
    \/ \E h \in Hdr, q \in Proc : Delete(h, q) \/ \E prio \in Prio : Set(h, q, prio)

Spec == Init /\ [][Next]_vars
==============================================================================
