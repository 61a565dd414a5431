--------------------------- MODULE CplMgrRefinement ---------------------------
(***************************************************************************)
(* The tables and records of CplMgr implement the coupling lists of         *)
(* CouplingLists.                                                           *)
(***************************************************************************)
EXTENDS CplMgr

CONSTANT NoPrio

ASSUME NoPrioAssumption == NoPrio \notin Prio

PrioAt(h, q) == IF To(h, q) = {} THEN NoPrio ELSE record[CHOOSE c \in To(h, q) : TRUE].prio

Constructed == {h \in Hdr : ~IsHdrInvalid(h)}
Couplings   == [h \in Hdr |-> [q \in Proc |-> PrioAt(h, q)]]

Lists == INSTANCE CouplingLists WITH constructed <- Constructed, cpl <- Couplings

(* Whatever moves in the tables, each operation changes the coupling list of *)
(* its own object only, and exactly as it should; a failing AddCoupling      *)
(* changes none.                                                             *)
ImplementsCouplingLists == Lists!Spec
==============================================================================
