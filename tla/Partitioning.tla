---------------------------- MODULE Partitioning ----------------------------
(***************************************************************************)
(* Where the elements of a distributed multigrid live: load balancing       *)
(* (dddif/lb.cc), the check and repair of the distribution before a         *)
(* refinement (dddif/partition.cc, AdaptMultiGrid in gm/refine.cc), and the *)
(* transfer that moves the elements together with one layer of ghosts       *)
(* (dddif/trans.cc, dddif/priority.cc).                                     *)
(*                                                                          *)
(* An element has one master copy; its home is the processor of that copy.  *)
(* Each copy has a field PARTITION, the destination in the next transfer.   *)
(* The copies decide with what they know: their own fields, those of the    *)
(* copies next to them on the same processor, and what comes over an        *)
(* interface.  The transfer proper is that of XferAbstract.                 *)
(*                                                                          *)
(* All processors take a step together.  Steps exchange over interfaces of  *)
(* one grid level, where each waits for its neighbours, and write copies of *)
(* their own processor only, so the order among processors has no effect.   *)
(* A pointer to a neighbour, father or son is there exactly if both copies  *)
(* are on the processor.                                                    *)
(***************************************************************************)
EXTENDS Integers, FiniteSets, FiniteSetsExt

CONSTANTS
    Proc,
    Elem,      \* the names of elements
    NoElem,
    NoDest,    \* PARTITION where there is no copy
    Meshes     \* the hierarchies to look at, see IsMesh

HGhost == 1  VGhost == 2  VHGhost == 3  Master == 5
NoPrio == 0
Prio   == {HGhost, VGhost, VHGhost, Master}

(* A hierarchy: father and class of the elements, who is next to whom, and   *)
(* which elements are marked COARSEN.  Irregular elements are not refined    *)
(* but copied: they have at most one son, of class YELLOW.                   *)
IsMesh(m) ==
    /\ m.elem \subseteq Elem /\ m.elem # {} /\ IsFiniteSet(m.elem)
    /\ m.father \in [m.elem -> m.elem \cup {NoElem}]
    /\ m.level \in [m.elem -> Nat]
    /\ m.class \in [m.elem -> {"RED", "GREEN", "YELLOW"}]
    /\ m.neighbor \subseteq SUBSET m.elem
    /\ m.coarsen \subseteq m.elem
    /\ m.again \in BOOLEAN      \* may be balanced when already distributed
    /\ \A e \in m.elem :
          IF m.level[e] = 0 THEN m.father[e] = NoElem /\ m.class[e] = "RED"
          ELSE m.father[e] # NoElem /\ m.level[m.father[e]] = m.level[e] - 1
    /\ \A e, f \in m.elem : e # f /\ m.father[e] = m.father[f] /\ m.father[e] # NoElem =>
          m.class[m.father[e]] = "RED" /\ m.class[e] = m.class[f]
    /\ \A e \in m.elem : m.father[e] # NoElem /\ m.class[m.father[e]] # "RED" =>
          m.class[e] = "YELLOW"
    /\ \A pair \in m.neighbor : Cardinality(pair) = 2 /\
          \A e, f \in pair : m.level[e] = m.level[f]
    /\ \A e \in m.coarsen, f \in m.elem : m.father[f] # e

ASSUME MeshAssumption == \A m \in Meshes : IsMesh(m)
ASSUME NameAssumption == NoElem \notin Elem /\ NoDest \notin Proc

VARIABLES
    mesh,
    prio,        \* prio[p][e]: priority of p's copy, or NoPrio
    partition,   \* partition[p][e]: field PARTITION of p's copy
    used,        \* used[p]: copies with flag USED
    pc,          \* what happens next
    level,       \* grid level of the present loop
    calls        \* calls of RestrictPartitioning since the check

vars == <<mesh, prio, partition, used, pc, level, calls>>

------------------------------------------------------------------------------
(* What a processor sees.                                                    *)

EFATHER(e) == mesh.father[e]
LEVEL(e)   == mesh.level[e]
TOPLEVEL   == Max({LEVEL(e) : e \in mesh.elem})
LEAFELEM(e) == \A s \in mesh.elem : EFATHER(s) # e

OnLevel(l)    == {e \in mesh.elem : LEVEL(e) = l}
Local(p)      == {e \in mesh.elem : prio[p][e] # NoPrio}
EMASTER(p, e) == prio[p][e] = Master
EGHOST(p, e)  == prio[p][e] \in {HGhost, VGhost, VHGhost}
Masters(p)    == {e \in mesh.elem : EMASTER(p, e)}
Home(e)       == CHOOSE p \in Proc : EMASTER(p, e)

GetAllSons(p, e) == {s \in Local(p) : EFATHER(s) = e}
GetSons(p, e)    == {s \in Masters(p) : EFATHER(s) = e}
NBELEM(p, e)     == {n \in Local(p) : {e, n} \in mesh.neighbor}

(* e, its father, and so on. *)
Line == LET line[e \in mesh.elem] ==
                IF EFATHER(e) = NoElem THEN {e} ELSE {e} \cup line[EFATHER(e)]
        IN  line

(* The loop up the fathers: the first element that is a ghost, is regular,   *)
(* or has no father.                                                         *)
Regular(p, e) ==
    CHOOSE a \in Line[e] :
        /\ ~EMASTER(p, a) \/ mesh.class[a] = "RED" \/ LEVEL(a) = 0
        /\ \A b \in Line[e] : LEVEL(b) > LEVEL(a) =>
              EMASTER(p, b) /\ mesh.class[b] # "RED" /\ LEVEL(b) > 0

(* To coarsen an element its father is needed as a master. *)
CoarsenNeeds(p, a) ==
    IF a \in mesh.coarsen /\ LEVEL(a) > 1 /\ ~EMASTER(p, EFATHER(a)) THEN {EFATHER(a)} ELSE {}

CheckPartitioning ==
    \E p \in Proc : \E e \in Masters(p) :
        /\ LEAFELEM(e) /\ LEVEL(e) > 0
        /\ LET a == Regular(p, e)
           IN  ~EMASTER(p, a) \/ CoarsenNeeds(p, a) # {}
------------------------------------------------------------------------------
Init ==
    /\ mesh \in Meshes
    /\ \E p0 \in Proc :
          /\ prio = [p \in Proc |-> [e \in Elem |->
                        IF p = p0 /\ e \in mesh.elem THEN Master ELSE NoPrio]]
          /\ partition = [p \in Proc |-> [e \in Elem |->
                        IF p = p0 /\ e \in mesh.elem THEN p0 ELSE NoDest]]
    /\ used = [p \in Proc |-> {}]
    /\ pc = "balance" /\ level = 0 /\ calls = 0

(* lbs: some strategy writes the destinations into the masters.  Those that   *)
(* treat levels or elements on their own (modes 4 to 6 and 8) do not care     *)
(* about fathers.  TransferGridToMaster brings everything back together.      *)
Balance ==
    /\ pc = "balance"
    /\ \E dest \in [mesh.elem -> Proc] :
          /\ \/ mesh.again
             \/ \E p \in Proc : Masters(p) = mesh.elem
             \/ \E p \in Proc : \A e \in mesh.elem : dest[e] = p
          /\ partition' = [p \in Proc |-> [e \in Elem |->
                IF e \in mesh.elem /\ EMASTER(p, e) THEN dest[e] ELSE partition[p][e]]]
    /\ pc' = "dests"
    /\ UNCHANGED <<mesh, prio, used, level, calls>>

(* AdaptMultiGrid up to the loop.  If the check fails, RestrictPartitioning   *)
(* resets the flags and starts on the finest level.                           *)
StartRestricting ==
    /\ used' = [p \in Proc |-> {}]
    /\ level' = TOPLEVEL
    /\ pc' = "flag"

AdaptMultiGrid ==
    /\ pc = "adapt"
    /\ \/ ~CheckPartitioning /\ pc' = "balance" /\ UNCHANGED <<used, level, calls>>
       \/ CheckPartitioning /\ StartRestricting /\ calls' = 1
    /\ UNCHANGED <<mesh, prio, partition>>
------------------------------------------------------------------------------
(* RestrictPartitioning, first loop: on each level from the finest down, the  *)
(* masters that are leaves or USED flag what they miss, then the flags of     *)
(* ghosts of this level go to their masters (Gather_, Scatter_                *)
(* ElementRestriction).                                                       *)
Flagged(p) ==
    UNION { LET a == Regular(p, e)
            IN  CoarsenNeeds(p, a) \cup (IF EMASTER(p, a) THEN {} ELSE {a})
          : e \in {e \in Masters(p) \cap OnLevel(level) :
                      level > 0 /\ (LEAFELEM(e) \/ e \in used[p])} }

SetRestrictionFlags ==
    /\ pc = "flag"
    /\ LET flags == [p \in Proc |-> used[p] \cup Flagged(p)]
       IN  used' = [p \in Proc |-> flags[p] \cup
                       {e \in Masters(p) \cap OnLevel(level) :
                           \E q \in Proc : EGHOST(q, e) /\ e \in flags[q]}]
    /\ IF level = 0 THEN pc' = "push" /\ level' = 0 ELSE level' = level - 1 /\ UNCHANGED pc
    /\ UNCHANGED <<mesh, prio, partition, calls>>

(* Second loop, from the coarsest level up: Scatter_RestrictedPartition       *)
(* writes what the master sends into the sons of a USED ghost, then every     *)
(* USED copy passes the flag, and its own PARTITION, to its sons.             *)
RestrictedPartition ==
    [p \in Proc |-> [s \in Elem |->
        IF /\ s \in Masters(p) /\ LEVEL(s) = level + 1
           /\ EGHOST(p, EFATHER(s)) /\ EFATHER(s) \in used[p]
        THEN partition[Home(EFATHER(s))][EFATHER(s)] ELSE partition[p][s]]]

PushedPartition(received) ==
    [p \in Proc |-> [s \in Elem |->
        IF /\ s \in Masters(p) /\ LEVEL(s) = level + 1
           /\ EFATHER(s) \in used[p]
        THEN received[p][EFATHER(s)] ELSE received[p][s]]]

\* Mutant: the flag stays with the father.
PassedFlagsNone(p) == {}
PassedFlags(p) == UNION {GetAllSons(p, e) : e \in used[p] \cap OnLevel(level)}

PushPartitions ==
    /\ pc = "push"
    /\ partition' = PushedPartition(RestrictedPartition)
    /\ used' = [p \in Proc |-> used[p] \cup PassedFlags(p)]
    /\ IF level = TOPLEVEL THEN pc' = "dests" /\ level' = 0
                           ELSE level' = level + 1 /\ UNCHANGED pc
    /\ UNCHANGED <<mesh, prio, calls>>
------------------------------------------------------------------------------
(* TransferGridFromLevel.  First the ghosts learn the destination of their    *)
(* master.                                                                    *)
UpdateGhostDests ==
    /\ pc = "dests"
    /\ partition' = [p \in Proc |-> [e \in Elem |->
          IF e \in mesh.elem /\ EGHOST(p, e) THEN partition[Home(e)][e] ELSE partition[p][e]]]
    /\ pc' = "xfer"
    /\ UNCHANGED <<mesh, prio, used, level, calls>>

(* A neighbour, or a son, of e's copy on p is going to be on d. *)
NbGoesTo(p, e, d)  == \E n \in NBELEM(p, e) : partition[p][n] = d
SonGoesTo(p, e, d) == \E s \in GetAllSons(p, e) : partition[p][s] = d

(* ComputeGhostCmds: the master tells the processor of each ghost whether a   *)
(* neighbour goes there; what it writes if the master itself does is not      *)
(* initialised, and not used.  There the ghost is deleted unless a son is     *)
(* going to be with it.                                                       *)
\* Mutant: the sons are not asked.
GhostCmdsNoSons(p) ==
    {e \in Local(p) : EGHOST(p, e) /\ partition[p][e] # p /\ ~NbGoesTo(Home(e), e, p)}
GhostCmds(p) ==
    {e \in Local(p) : /\ EGHOST(p, e) /\ partition[p][e] # p
                      /\ ~NbGoesTo(Home(e), e, p)
                      /\ ~SonGoesTo(p, e, p)}

(* XferGridWithOverlap: the priorities as which p sends its copy of e to d,   *)
(* as a master, next to one, or as the father of one ...                      *)
SentAs(p, e, d) ==
    {pr \in Prio :
        \/ /\ pr = Master
           /\ EMASTER(p, e) /\ partition[p][e] = d
        \/ /\ pr = HGhost
           /\ EMASTER(p, e) /\ partition[p][e] # d /\ NbGoesTo(p, e, d)
        \/ /\ pr = VGhost
           /\ \E s \in GetSons(p, e) : partition[p][s] = d
           /\ partition[p][e] # d \/ ~EMASTER(p, e)}

(* ... and what becomes of its own copy of a master that leaves.              *)
Leaving(p) == {e \in Masters(p) : partition[p][e] # p}
LeftAs(p, e) ==
    IF e \notin Leaving(p) THEN {}
    ELSE IF SonGoesTo(p, e, p) THEN {VGhost}
    ELSE IF NbGoesTo(p, e, p) THEN {HGhost} ELSE {}
Deleted(p) ==
    GhostCmds(p) \cup {e \in Leaving(p) : ~NbGoesTo(p, e, p) /\ ~SonGoesTo(p, e, p)}

(* The commands in the form of XferAbstract; copies to oneself are changes    *)
(* of priority (XFER-C4), equal commands are merged.                          *)
Merged(prios) == IF prios = {} THEN NoPrio ELSE Max(prios)
CopyObj == [p \in Proc |-> [e \in Elem |-> [d \in Proc |->
              IF d = p \/ e \notin Local(p) THEN NoPrio ELSE Merged(SentAs(p, e, d))]]]
SetPrio == [p \in Proc |-> [e \in Elem |->
              IF e \notin Local(p) THEN NoPrio ELSE Merged(SentAs(p, e, p) \cup LeftAs(p, e))]]
DelCmd  == [p \in Proc |-> Deleted(p)]

T == INSTANCE XferAbstract WITH
        Gid <- Elem, obj <- prio, copyObj <- CopyObj, setPrio <- SetPrio, delCmd <- DelCmd,
        PrioMatrix <- [r \in Prio |-> [c \in Prio |-> IF c <= r THEN r ELSE c]],
        mode <- [p \in Proc |-> "BUSY"], rounds <- [p \in Proc |-> 0], done <- {}

(* PARTITION is global data, a new copy has that of its sender. *)
TransferGrid ==
    /\ pc = "xfer"
    /\ LET result == [p \in Proc |-> [e \in Elem |-> T!Result(p, e)]]
       IN  /\ prio' = result
           /\ partition' = [p \in Proc |-> [e \in Elem |->
                  IF result[p][e] = NoPrio THEN NoDest
                  ELSE IF prio[p][e] # NoPrio THEN partition[p][e]
                  ELSE partition[CHOOSE q \in Proc : CopyObj[q][e][p] # NoPrio][e]]]
    /\ pc' = "prios"
    /\ UNCHANGED <<mesh, used, level, calls>>

(* SetGhostObjectPriorities in a transfer of its own (ConstructConsistent-    *)
(* MultiGrid), then back to lbs or to the loop of AdaptMultiGrid.             *)
GhostPrio(p, e) ==
    LET hghost == \E n \in NBELEM(p, e) : partition[p][n] = p
        vghost == \E s \in GetAllSons(p, e) : partition[p][s] = p
    IN  IF partition[p][e] = p \/ ~(hghost \/ vghost) THEN prio[p][e]
        ELSE IF ~vghost THEN HGhost ELSE IF hghost THEN VHGhost ELSE VGhost

(* The loop of AdaptMultiGrid.  Mutant: one call fewer. *)
RestrictAgainFewer == calls < TOPLEVEL - 1
RestrictAgain == calls < TOPLEVEL

SetGhostObjectPriorities ==
    /\ pc = "prios"
    /\ prio' = [p \in Proc |-> [e \in Elem |->
                   IF prio[p][e] = NoPrio THEN NoPrio ELSE GhostPrio(p, e)]]
    /\ IF calls > 0 /\ RestrictAgain THEN StartRestricting /\ calls' = calls + 1
       ELSE /\ pc' = IF calls = 0 THEN "adapt" ELSE "adapted"
            /\ UNCHANGED <<used, level, calls>>
    /\ UNCHANGED <<mesh, partition>>

(* The second check of AdaptMultiGrid is an assertion, see Restricted.        *)
(* The refinement is left out: the grid is balanced again as it is.  USED     *)
(* serves other functions as well and is always reset before use.             *)
Adapted ==
    /\ pc = "adapted"
    /\ pc' = "balance" /\ calls' = 0
    /\ used' = [p \in Proc |-> {}]
    /\ UNCHANGED <<mesh, prio, partition, level>>
------------------------------------------------------------------------------
Next == Balance \/ AdaptMultiGrid \/ SetRestrictionFlags \/ PushPartitions
            \/ UpdateGhostDests \/ TransferGrid \/ SetGhostObjectPriorities \/ Adapted

Spec == Init /\ [][Next]_vars
------------------------------------------------------------------------------
(* The assertion of AdaptMultiGrid: after as many calls of RestrictPartitioning *)
(* as there are levels, each leaf is together with its fathers up to the first *)
(* regular one, and an element to coarsen with its father.  A call brings sons *)
(* to where their fathers have been; fathers may leave in the same call.       *)
Restricted == pc = "adapted" => ~CheckPartitioning

(* Between transfers a processor has exactly the copies it needs, with the     *)
(* priorities that say what for: its masters, their neighbours and fathers.    *)
(* No copy is lost, none is left over, there is one master, and all copies     *)
(* know where it is, although each processor has decided with what it saw.     *)
NeededPrio(p, e) ==
    LET side  == \E n \in Masters(p) : {e, n} \in mesh.neighbor
        above == \E s \in Masters(p) : EFATHER(s) = e
    IN  IF EMASTER(p, e) THEN Master
        ELSE IF side /\ above THEN VHGhost
        ELSE IF above THEN VGhost
        ELSE IF side THEN HGhost ELSE NoPrio

OverlapRight ==
    pc \in {"balance", "adapt", "adapted"} =>
        \A e \in mesh.elem :
            /\ \E p \in Proc : \A q \in Proc : EMASTER(q, e) <=> q = p
            /\ \A p \in Proc : prio[p][e] = NeededPrio(p, e)
            /\ \A p \in Proc : e \in Local(p) => partition[p][e] = Home(e)

(* The repair brings together without taking apart: a leaf that has the path   *)
(* to its regular father on its processor, or a father it needs to be coarsened *)
(* into, is sent to the same processor as these.  Only so every call makes      *)
(* progress, whatever else moves in it.                                         *)
RepairKeepsTogether ==
    pc = "dests" /\ calls > 0 =>
        \A p \in Proc : \A e \in Masters(p) : LEAFELEM(e) =>
            LET a    == Regular(p, e)
                with == {b \in Line[e] : LEVEL(b) >= LEVEL(a)}
                          \cup (IF a \in mesh.coarsen THEN {EFATHER(a)} ELSE {})
            IN  EMASTER(p, a) /\ with \subseteq Masters(p) =>
                    \A b \in with : partition[p][b] = partition[p][e]
=============================================================================
