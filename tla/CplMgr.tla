-------------------------------- MODULE CplMgr --------------------------------
(***************************************************************************)
(* The coupling manager of one processor (ddd/mgr/cplmgr.cc) with the parts *)
(* of the object manager (ddd/mgr/objmgr.cc) that share its tables, in the  *)
(* variant without WithFullObjectTable.                                     *)
(*                                                                         *)
(* Only headers that have couplings are registered: the first nCpls slots of*)
(* objTable, cplTable and nCplTable belong to them, and OBJ_INDEX of the    *)
(* header is the slot.  A slot that becomes free is filled with the last    *)
(* one.  Coupling records come from segments with a freelist, or from the   *)
(* allocator, as the option OPT_CPLMGR_USE_FREELIST says at the time.       *)
(*                                                                         *)
(* A coupling list is the set of its records: its order is visible only in  *)
(* DDD_InfoProcPrio, which returns any processor with a priority.           *)
(***************************************************************************)
EXTENDS Integers, FiniteSets

CONSTANTS
    Hdr,         \* memory for object headers
    NoHdr,       \* null entries of objTable
    Proc,        \* the other processors
    Prio,        \* priorities
    Cell,        \* memory for COUPLING records
    CplStart,    \* MAX_CPL_START: first size of the tables
    IntMax,      \* INT_MAX
    MaxCoupled,  \* bound on the objects with couplings
    NoMem        \* the allocation of a record may fail

ASSUME CplMgrAssumption ==
    /\ NoHdr \notin Hdr
    /\ CplStart \in Nat \ {0} /\ IntMax \in Nat /\ MaxCoupled \in Nat
    /\ MaxCoupled < IntMax - 1
    /\ IsFiniteSet(Cell) /\ Proc # {} /\ Prio # {}
    /\ NoMem \in BOOLEAN

VARIABLES
    index,       \* OBJ_INDEX of each header
    objTable,    \* the registered headers
    cplTable,    \* the couplings of the header in each slot
    nCplTable,   \* their number
    tabSize,     \* size of cplTable and nCplTable
    objTabSize,  \* size of objTable
    nObjs,       \* number of registered headers
    nCpls,       \* number of headers with couplings
    nCplItems,   \* number of coupling records in use
    record,      \* contents of the memory for coupling records
    segments,    \* cells handed out from segments so far
    memlist,     \* the freelist
    useFreelist  \* OPT_CPLMGR_USE_FREELIST

tables == <<objTable, cplTable, nCplTable, tabSize, objTabSize, nObjs, nCpls>>
memory == <<nCplItems, segments, memlist>>
vars == <<index, tables, memory, record, useFreelist>>

Local   == IntMax       \* MarkHdrLocal
Invalid == IntMax - 1   \* MarkHdrInvalid

Record == [obj : Hdr \cup {NoHdr}, proc : Proc, prio : Prio, fromFreelist : BOOLEAN]

IsHdrInvalid(h) == index[h] = Invalid
ObjHasCpl(h)    == index[h] < nCpls
ObjCplList(h)   == IF ObjHasCpl(h) THEN cplTable[index[h]] ELSE {}
To(h, q)        == {c \in ObjCplList(h) : record[c].proc = q}

------------------------------------------------------------------------------
(* Memory of the coupling records *)

InUse == UNION {cplTable[i] : i \in 0 .. nCpls - 1}

(* NewCoupling, in the mode that is set now: from the freelist, else from a  *)
(* segment; or from the allocator.                                           *)
NewCoupling(c, h, q, prio) ==
    /\ IF useFreelist
         THEN \/ c \in memlist /\ memlist' = memlist \ {c} /\ UNCHANGED segments
              \/ /\ memlist = {} /\ c \notin segments \cup InUse
                 /\ segments' = segments \cup {c} /\ UNCHANGED memlist
         ELSE c \notin segments \cup InUse /\ UNCHANGED <<segments, memlist>>
    /\ record' = [record EXCEPT ![c] =
                    [obj |-> h, proc |-> q, prio |-> prio, fromFreelist |-> useFreelist]]
    /\ nCplItems' = nCplItems + 1

(* DisposeCoupling of all records in C, each the way it was allocated.       *)
(* (Mutant: all to the freelist.)                                            *)
DisposeToFreelist(C) ==
    memlist' = memlist \cup C /\ nCplItems' = nCplItems - Cardinality(C) /\ UNCHANGED segments
DisposeCouplings(C) ==
    /\ memlist' = memlist \cup {c \in C : record[c].fromFreelist}
    /\ nCplItems' = nCplItems - Cardinality(C)
    /\ UNCHANGED segments

------------------------------------------------------------------------------
(* Slots *)

(* The slot of h, and its number of couplings; a header without couplings    *)
(* gets the first free slot.  (Mutant: with the counter left there.)         *)
Slots   == 0 .. MaxCoupled - 1
Slot(h) == IF ObjHasCpl(h) THEN index[h] ELSE nCpls
StaleNCpl(h) == nCplTable[Slot(h)]
ObjNCpl(h)   == IF ObjHasCpl(h) THEN nCplTable[index[h]] ELSE 0

(* IncreaseCplTabSize, ddd_EnsureObjTabSize: double the tables if no slot is *)
(* free.                                                                     *)
EnsureSlot(h) ==
    /\ tabSize' = IF ObjHasCpl(h) \/ nCpls < tabSize THEN tabSize ELSE 2 * tabSize
    /\ objTabSize' = IF objTabSize >= tabSize' THEN objTabSize ELSE tabSize'

(* AddCoupling registers h, if it is not, and adds the couplings C. *)
Register(h, C) ==
    /\ ObjHasCpl(h) \/ nCpls < MaxCoupled
    /\ EnsureSlot(h)
    /\ index'     = [index EXCEPT ![h] = Slot(h)]
    /\ objTable'  = [objTable EXCEPT ![Slot(h)] = h]
    /\ cplTable'  = [cplTable EXCEPT ![Slot(h)] = ObjCplList(h) \cup C]
    /\ nCplTable' = [nCplTable EXCEPT ![Slot(h)] = ObjNCpl(h) + Cardinality(C)]
    /\ nObjs' = IF ObjHasCpl(h) THEN nObjs ELSE nObjs + 1
    /\ nCpls' = IF ObjHasCpl(h) THEN nCpls ELSE nCpls + 1

(* The slot of h becomes free: the last one moves there, and only then h     *)
(* gets its mark, because it may be the last one itself.  (Mutant: the mark  *)
(* comes first.)                                                             *)
MarkedAndMoved(h, mark) == [index EXCEPT ![h] = mark, ![objTable[nCpls - 1]] = index[h]]
MovedAndMarked(h, mark) == [index EXCEPT ![objTable[nCpls - 1]] = index[h], ![h] = mark]
MoveLast(table, h) == [table EXCEPT ![index[h]] = table[nCpls - 1]]
Unregister(h, mark) ==
    /\ index'     = MovedAndMarked(h, mark)
    /\ objTable'  = MoveLast(objTable, h)
    /\ cplTable'  = MoveLast(cplTable, h)
    /\ nCplTable' = MoveLast(nCplTable, h)
    /\ nCpls' = nCpls - 1 /\ nObjs' = nObjs - 1
    /\ UNCHANGED <<tabSize, objTabSize>>

------------------------------------------------------------------------------
(* Operations *)

(* The callers pass headers that have been constructed, and another          *)
(* processor (asserted).  A coupling that is there gets the new priority.    *)
AddCoupling(h, q, prio) ==
    /\ ~IsHdrInvalid(h) /\ To(h, q) = {}
    /\ \E c \in Cell : NewCoupling(c, h, q, prio) /\ Register(h, {c})
    /\ UNCHANGED useFreelist

(* NewCoupling throws std::bad_alloc, after the header has been registered.  *)
AddCouplingFails(h, q) ==
    /\ NoMem
    /\ ~IsHdrInvalid(h) /\ To(h, q) = {}
    /\ Register(h, {})
    /\ UNCHANGED <<memory, record, useFreelist>>

(* ModCoupling, and AddCoupling for a coupling that is there.  (ModCoupling  *)
(* for any other changes nothing: it warns, or throws.)                      *)
ModCoupling(h, q, prio) ==
    /\ ~IsHdrInvalid(h)
    /\ \E c \in To(h, q) : record' = [record EXCEPT ![c].prio = prio]
    /\ UNCHANGED <<index, tables, memory, useFreelist>>

(* The slot is given up with the last coupling.  (In the slot behind the     *)
(* used ones nothing is read any more.)                                      *)
RemoveFromList(h, c) ==
    /\ cplTable' = [cplTable EXCEPT ![index[h]] = @ \ {c}]
    /\ nCplTable' = [nCplTable EXCEPT ![index[h]] = @ - 1]
    /\ UNCHANGED <<index, objTable, tabSize, objTabSize, nObjs, nCpls>>
DelCoupling(h, q) ==
    /\ ~IsHdrInvalid(h)
    /\ \E c \in To(h, q) :
          /\ DisposeCouplings({c})
          /\ IF ObjNCpl(h) = 1 THEN Unregister(h, Local) ELSE RemoveFromList(h, c)
    /\ UNCHANGED <<record, useFreelist>>

(* HdrConstructor, HdrConstructorCopy: a header without couplings. *)
HdrConstructor(h) ==
    /\ IsHdrInvalid(h)
    /\ index' = [index EXCEPT ![h] = Local]
    /\ UNCHANGED <<tables, memory, record, useFreelist>>

(* The destructor of an invalid header does nothing. *)
HdrDestructor(h) ==
    /\ ~IsHdrInvalid(h)
    /\ IF ObjHasCpl(h)
         THEN Unregister(h, Invalid) /\ DisposeCouplings(ObjCplList(h))
         ELSE index' = [index EXCEPT ![h] = Invalid] /\ UNCHANGED <<tables, memory>>
    /\ UNCHANGED <<record, useFreelist>>

(* newhdr is memory without a header.  The couplings point to their object.  *)
(* (Mutant: they still point to the old one.)                                *)
RecordUnchanged(newhdr, oldhdr) == record
RecordMoved(newhdr, oldhdr) ==
    [c \in Cell |-> IF c \in ObjCplList(oldhdr) THEN [record[c] EXCEPT !.obj = newhdr] ELSE record[c]]
HdrConstructorMove(newhdr, oldhdr) ==
    /\ IsHdrInvalid(newhdr) /\ ~IsHdrInvalid(oldhdr)
    /\ index' = [index EXCEPT ![newhdr] = index[oldhdr], ![oldhdr] = Invalid]
    /\ objTable' = IF ObjHasCpl(oldhdr) THEN [objTable EXCEPT ![index[oldhdr]] = newhdr]
                   ELSE objTable
    /\ record' = RecordMoved(newhdr, oldhdr)
    /\ UNCHANGED <<cplTable, nCplTable, tabSize, objTabSize, nObjs, nCpls, memory, useFreelist>>

(* DDD_SetOption, at any time. *)
SetOption ==
    /\ useFreelist' = ~useFreelist
    /\ UNCHANGED <<index, tables, memory, record>>

------------------------------------------------------------------------------
Init ==
    /\ index = [h \in Hdr |-> Invalid]
    /\ objTable = [i \in Slots |-> NoHdr]
    /\ cplTable = [i \in Slots |-> {}] /\ nCplTable = [i \in Slots |-> 0]
    /\ tabSize = CplStart /\ objTabSize = CplStart
    /\ nObjs = 0 /\ nCpls = 0 /\ nCplItems = 0
    /\ record = [c \in Cell |-> [obj |-> NoHdr, proc |-> CHOOSE q \in Proc : TRUE,
                                 prio |-> CHOOSE r \in Prio : TRUE, fromFreelist |-> FALSE]]
    /\ segments = {} /\ memlist = {}
    /\ useFreelist \in BOOLEAN

Next ==
    \/ \E h \in Hdr, q \in Proc, prio \in Prio : AddCoupling(h, q, prio) \/ ModCoupling(h, q, prio)
    \/ \E h \in Hdr, q \in Proc : AddCouplingFails(h, q) \/ DelCoupling(h, q)
    \/ \E h \in Hdr : HdrConstructor(h) \/ HdrDestructor(h)
    \/ \E newhdr, oldhdr \in Hdr : HdrConstructorMove(newhdr, oldhdr)
    \/ SetOption

Spec == Init /\ [][Next]_vars

------------------------------------------------------------------------------
(* Properties *)

(* Every variable has its type. *)
TypeOK ==
    /\ index \in [Hdr -> 0 .. IntMax]
    /\ objTable \in [Slots -> Hdr \cup {NoHdr}]
    /\ cplTable \in [Slots -> SUBSET Cell] /\ nCplTable \in [Slots -> Nat]
    /\ tabSize \in Nat /\ objTabSize \in Nat
    /\ nObjs \in Nat /\ nCpls \in 0 .. MaxCoupled /\ nCplItems \in Nat
    /\ record \in [Cell -> Record]
    /\ segments \subseteq Cell /\ memlist \subseteq segments
    /\ useFreelist \in BOOLEAN

(* Slots and headers refer to each other: what ObjHasCpl and every table     *)
(* access by OBJ_INDEX rely on, after any number of moves of the last slot.  *)
SlotsConsistent ==
    /\ \A i \in 0 .. nCpls - 1 : objTable[i] \in Hdr /\ index[objTable[i]] = i
    /\ \A h \in Hdr : IF index[h] \in {Local, Invalid} THEN ~ObjHasCpl(h)
                       ELSE ObjHasCpl(h) /\ objTable[index[h]] = h

(* The registered headers are those with couplings (asserted in DelCoupling, *)
(* HdrDestructor, HdrConstructorCopy), and their slots exist in all tables   *)
(* (asserted in AddCoupling).                                                *)
TablesFit == nObjs = nCpls /\ nCpls <= tabSize /\ tabSize <= objTabSize

(* A record is in one list only, and not in the freelist; its back pointer   *)
(* is the header that owns the list (DDD_ConsCheck reads the gid through     *)
(* either of them); a list has at most one record for a processor.           *)
ListsConsistent ==
    /\ \A i, j \in 0 .. nCpls - 1 : i # j => cplTable[i] \cap cplTable[j] = {}
    /\ \A i \in 0 .. nCpls - 1 : \A c \in cplTable[i] :
          /\ c \notin memlist
          /\ record[c].fromFreelist <=> c \in segments
          /\ record[c].obj = objTable[i]
          /\ \A d \in cplTable[i] : record[d].proc = record[c].proc => d = c

(* The counters of the couplings are right: IFCreate allocates an array of   *)
(* nCplItems entries and asserts that it meets as many couplings in the      *)
(* lists; nCplTable[i] decides when the slot is given up.                    *)
CountsConsistent ==
    /\ \A i \in 0 .. nCpls - 1 : nCplTable[i] = Cardinality(cplTable[i])
    /\ nCplItems = Cardinality(InUse)

(* No memory of segments is lost: it is in use or in the freelist. *)
NoLeak == segments = memlist \cup {c \in InUse : record[c].fromFreelist}

(* DelCoupling: "we will not register objects without coupling". *)
NoEmptySlot == \A i \in 0 .. nCpls - 1 : cplTable[i] # {}
==============================================================================
