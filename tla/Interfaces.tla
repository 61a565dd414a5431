----------------------------- MODULE Interfaces ------------------------------
(* The interfaces of DDD (if/): for each processor and each neighbour the    *)
(* list of the objects both have a copy of, derived from the coupling lists  *)
(* alone.  Data are sent along these lists without any names: the i-th item  *)
(* of a message belongs to the i-th object of the receiver's list.  So both  *)
(* sides of a boundary must come to the same lists in the same order.        *)
(*                                                                           *)
(* This module has the copies of distributed objects, their coupling lists   *)
(* as CplMgr implements them, the standard interface (all couplings) and one *)
(* interface between priorities A and B, with its shortcuts to the addresses *)
(* of the objects.  The environments that change couplings extend it.        *)
EXTENDS Integers, Sequences, FiniteSets, SequencesExt

CONSTANTS
    Proc,     \* processors
    Obj,      \* local objects, the copies of distributed ones included
    Home,     \* Home[o]: the processor that holds o
    Attr,     \* Attr[o]: DDD_ATTR, the same for all copies of an object
    Prio,     \* priorities
    A, B,     \* the priorities of the two sides of the interface
    Explicit  \* processors with the option OPT_IF_CREATE_EXPLICIT

ASSUME InterfacesAssumption ==
    /\ Proc \subseteq Nat /\ Explicit \subseteq Proc /\ IsFiniteSet(Proc) /\ IsFiniteSet(Obj)
    /\ Home \in [Obj -> Proc] /\ Attr \in [Obj -> Nat]
    /\ Prio \subseteq Nat \ {0} /\ A \subseteq Prio /\ B \subseteq Prio

VARIABLES
    gid,      \* gid[o]: global id, NoGid if o has been deleted
    prio,     \* prio[o]: OBJ_PRIO
    cpl,      \* cpl[o]: the coupling list of o, from processors to priorities
    addr,     \* addr[o]: where o is in memory
    std,      \* std[p][q]: p's list for q in the standard interface
    heads,    \* heads[p][q]: the same in the interface between A and B
    table     \* table[p]: the tables of that interface
ifVars == <<addr, std, heads, table>>

NoGid == 0
NoCouplings == <<>> \* the function with an empty domain
Copies(p) == {o \in Obj : Home[o] = p /\ gid[o] # NoGid}
Copy(p, g) == {o \in Copies(p) : gid[o] = g}
Coupled(p, cpls) == {o \in Obj : Home[o] = p /\ cpls[o] # NoCouplings}

(* AddCoupling adapts the priority if the coupling is there already.         *)
AddCoupling(list, q, r) == [x \in DOMAIN list \cup {q} |-> IF x = q THEN r ELSE list[x]]

-------------------------------------------------------------------------------
(* Creation.  Coupling lists are arguments, for interfaces are made from     *)
(* those an operation has just changed.                                      *)

Neighbours(p, cpls) == UNION {DOMAIN cpls[o] : o \in Coupled(p, cpls)}

(* For the mutants: by the local priority first.                             *)
PrioBefore(o1, o2) == \/ prio[o1] > prio[o2]
                      \/ prio[o1] = prio[o2] /\ gid[o1] < gid[o2]

(* sort_IFCouplings, within one processor and one direction: by attribute,   *)
(* the greater first, then by global id.                                     *)
Before(o1, o2) == \/ Attr[o1] > Attr[o2]
                  \/ Attr[o1] = Attr[o2] /\ gid[o1] < gid[o2]

SortedSeqs(objs) == {seq \in SetToSeqs(objs) : \A i, j \in DOMAIN seq : i < j => ~Before(seq[j], seq[i])}
IFSorted(objs) == CHOOSE seq \in SortedSeqs(objs) : TRUE

IFCollectStdCouplings(p, cpls) ==
    [q \in Neighbours(p, cpls) |-> IFSorted({o \in Coupled(p, cpls) : q \in DOMAIN cpls[o]})]

(* For the mutants: an object of both sides is in both directions.           *)
DirOfObject(o, q, cpls) == {d \in {"AB", "BA"} :
    \/ d = "AB" /\ prio[o] \in A /\ cpls[o][q] \in B
    \/ d = "BA" /\ prio[o] \in B /\ cpls[o][q] \in A \cup B}

(* The directions of the coupling of o with q: from A to B if o has a        *)
(* priority of A and the copy at q one of B.                                 *)
Dir(o, q, cpls) == {d \in {"AB", "BA"} :
    \/ d = "AB" /\ prio[o] \in A /\ cpls[o][q] \in B
    \/ d = "BA" /\ prio[o] \in B /\ cpls[o][q] \in A}

Directions == {{"AB"}, {"BA"}, {"AB", "BA"}}
Opposite(d) == IF d = {"AB"} THEN {"BA"} ELSE IF d = {"BA"} THEN {"AB"} ELSE d

Members(p, q, cpls) ==
    {o \in Coupled(p, cpls) : q \in DOMAIN cpls[o] /\ Dir(o, q, cpls) # {}}

IFHeads(p, cpls) ==
    [q \in {x \in Neighbours(p, cpls) : Members(p, x, cpls) # {}} |->
       [d \in Directions |-> IFSorted({o \in Members(p, q, cpls) : Dir(o, q, cpls) = d})]]

(* The tables for items: their number, whether the table of couplings is     *)
(* allocated, and the shortcuts, which hold addresses of objects.            *)
NoTable == [nItems |-> 0, cpl |-> FALSE, objValid |-> FALSE, obj |-> <<>>]

ShortcutTable(objs) == [o \in objs |-> addr[o]]

IFCreateFromScratch(p, cpls, t) ==
    LET objs == UNION {Members(p, q, cpls) : q \in Neighbours(p, cpls)}
    IN IF objs = {} THEN [t EXCEPT !.nItems = 0, !.cpl = FALSE, !.obj = <<>>]
       ELSE [nItems |-> MapThenSumSet(LAMBDA q : Cardinality(Members(p, q, cpls)), Neighbours(p, cpls)),
             cpl |-> TRUE, objValid |-> TRUE, obj |-> ShortcutTable(objs)]

(* IFDeleteAll frees the tables and forgets the heads; the number of items   *)
(* and the mark of the shortcuts stay as they are.                           *)
IFDeleteAll(t) == [t EXCEPT !.cpl = FALSE, !.obj = <<>>]

IFRebuildAll(p, cpls) ==
    /\ std' = [std EXCEPT ![p] = IFCollectStdCouplings(p, cpls)]
    /\ heads' = [heads EXCEPT ![p] = IFHeads(p, cpls)]
    /\ table' = [table EXCEPT ![p] =
                   IF Coupled(p, cpls) # {} THEN IFCreateFromScratch(p, cpls, @) ELSE IFDeleteAll(@)]
    /\ UNCHANGED addr

IFAllFromScratch(p, cpls) ==
    IF p \in Explicit THEN UNCHANGED ifVars ELSE IFRebuildAll(p, cpls)

-------------------------------------------------------------------------------
(* Use.                                                                      *)

IFRefreshAll(p) == IFRebuildAll(p, cpl) /\ UNCHANGED <<gid, prio, cpl>>

MoveUnmarked(o) == \* for the mutants
    addr' = [addr EXCEPT ![o] = 1 - @] /\ UNCHANGED <<gid, prio, cpl, std, heads, table>>

(* DDD_HdrConstructorMove: a new address; the couplings follow, and the      *)
(* shortcuts are marked.                                                     *)
HdrConstructorMove(o) ==
    /\ addr' = [addr EXCEPT ![o] = 1 - @]
    /\ table' = [table EXCEPT ![Home[o]].objValid = @ /\ cpl[o] = NoCouplings]
    /\ UNCHANGED <<gid, prio, cpl, std, heads>>

(* Every communication over the interface, and the local execution of a      *)
(* handler on its objects, starts with IFCheckShortcuts.  Without a table it *)
(* would read through a null pointer: that is the end of the processor.      *)
IFComputeShortcutTable(t) ==
    [t EXCEPT !.objValid = TRUE, !.obj = ShortcutTable(DOMAIN @)]

IFExecLocal(p) ==
    /\ table[p].objValid \/ table[p].nItems = 0 \/ table[p].cpl
    /\ table' = [table EXCEPT ![p] = IF @.objValid THEN @ ELSE IFComputeShortcutTable(@)]
    /\ UNCHANGED <<gid, prio, cpl, addr, std, heads>>

IFInit ==
    /\ addr = [o \in Obj |-> 0]
    /\ std = [p \in Proc |-> IFCollectStdCouplings(p, cpl)]
    /\ heads = [p \in Proc |-> IFHeads(p, cpl)]
    /\ table = [p \in Proc |-> IFCreateFromScratch(p, cpl, NoTable)]

-------------------------------------------------------------------------------
(* Properties.                                                               *)

GidsOf(seq) == [i \in DOMAIN seq |-> gid[seq[i]]]
StdOf(p, q) == IF q \in DOMAIN std[p] THEN std[p][q] ELSE <<>>
HeadOf(p, q, d) == IF q \in DOMAIN heads[p] THEN heads[p][q][d] ELSE <<>>

(* Position by position, both sides of a boundary have copies of the same    *)
(* objects: what p sends from A to B the other takes as coming from B to A.  *)
SidesMatch(p, q) ==
    /\ GidsOf(StdOf(p, q)) = GidsOf(StdOf(q, p))
    /\ \A d \in Directions : GidsOf(HeadOf(p, q, d)) = GidsOf(HeadOf(q, p, Opposite(d)))

(* An interface that marks its shortcuts as valid has the present addresses  *)
(* of its objects, wherever they have moved since it was made                *)
(* (IFInvalidateShortcuts).                                                  *)
ShortcutsCurrent ==
    \A p \in Proc : table[p].objValid =>
        \A o \in DOMAIN table[p].obj : table[p].obj[o] = addr[o]
===============================================================================
