---------------------------- MODULE CplMgr_proofs ----------------------------
(***************************************************************************)
(* Proofs about CplMgr, for any number of headers, processors and coupling  *)
(* records.  The invariant comes in three layers that build on each other:  *)
(* the slots, the lists in the slots, and the counters of the lists.        *)
(* Its last part shows that CplMgr implements CouplingLists.                *)
(***************************************************************************)
EXTENDS CplMgrRefinement, FiniteSetTheorems, TLAPS

SlotType ==
    /\ index \in [Hdr -> 0 .. IntMax]
    /\ objTable \in [Slots -> Hdr \cup {NoHdr}]
    /\ tabSize \in Nat \ {0} /\ objTabSize \in Nat
    /\ nObjs \in Nat /\ nCpls \in 0 .. MaxCoupled
SlotInv == SlotType /\ SlotsConsistent /\ TablesFit

ListType ==
    /\ cplTable \in [Slots -> SUBSET Cell]
    /\ record \in [Cell -> Record]
    /\ segments \subseteq Cell /\ memlist \subseteq segments
    /\ useFreelist \in BOOLEAN
ListInv == ListType /\ ListsConsistent /\ NoLeak

CountInv == nCplTable \in [Slots -> Nat] /\ nCplItems \in Nat /\ CountsConsistent

Inv == SlotInv /\ ListInv /\ CountInv

------------------------------------------------------------------------------
(* The slots. *)

LEMMA Constants ==
  /\ CplStart \in Nat \ {0} /\ IntMax \in Nat /\ MaxCoupled \in Nat
  /\ Local = IntMax /\ Local \in Nat /\ Invalid \in Nat /\ Invalid < Local /\ MaxCoupled < Invalid
  /\ NoHdr \notin Hdr
BY CplMgrAssumption DEF Local, Invalid

(* A header has couplings if and only if it has a slot. *)
LEMMA SlotOf ==
  ASSUME SlotInv, NEW h \in Hdr
  PROVE  /\ ObjHasCpl(h) => index[h] \in 0 .. nCpls - 1 /\ index[h] \in Slots /\ objTable[index[h]] = h
         /\ ~ObjHasCpl(h) => index[h] \in {Local, Invalid}
BY Constants DEF SlotInv, SlotType, SlotsConsistent, ObjHasCpl, Slots

LEMMA RegisterSlots ==
  ASSUME SlotInv, NEW h \in Hdr, NEW C, ~IsHdrInvalid(h), Register(h, C)
  PROVE  SlotInv'
<1>1. CASE ObjHasCpl(h)
  <2>1. index' = index /\ objTable' = objTable
    BY <1>1, SlotOf DEF SlotInv, SlotType, Register, Slot
  <2>2. UNCHANGED <<tabSize, nObjs, nCpls>> /\ objTabSize' = objTabSize
    BY <1>1 DEF SlotInv, SlotType, TablesFit, Register, EnsureSlot
  <2> QED  BY <2>1, <2>2 DEF SlotInv, SlotType, SlotsConsistent, TablesFit, ObjHasCpl
<1>2. CASE ~ObjHasCpl(h)
  <2>1. /\ index' = [index EXCEPT ![h] = nCpls]
        /\ objTable' = [objTable EXCEPT ![nCpls] = h]
        /\ nObjs' = nObjs + 1 /\ nCpls' = nCpls + 1
        /\ nCpls < MaxCoupled
    BY <1>2 DEF Register, Slot
  <2>2. tabSize' \in Nat \ {0} /\ objTabSize' \in Nat /\ TablesFit'
    BY <1>2, <2>1, Constants DEF SlotInv, SlotType, TablesFit, Register, EnsureSlot
  <2>3. SlotType'
    BY <2>1, <2>2, Constants DEF SlotInv, SlotType, Slots
  <2>4. SlotsConsistent'
    <3>1. \A i \in 0 .. nCpls' - 1 : objTable'[i] \in Hdr /\ index'[objTable'[i]] = i
      BY <1>2, <2>1, Constants DEF SlotInv, SlotType, SlotsConsistent, ObjHasCpl, Slots
    <3>2. ASSUME NEW x \in Hdr
          PROVE  IF index'[x] \in {Local, Invalid} THEN ~(index'[x] < nCpls')
                 ELSE index'[x] < nCpls' /\ objTable'[index'[x]] = x
      BY <1>2, <2>1, SlotOf, Constants DEF SlotInv, SlotType, SlotsConsistent, ObjHasCpl, Slots
    <3> QED  BY <3>1, <3>2 DEF SlotsConsistent, ObjHasCpl, Local, Invalid
  <2> QED  BY <2>2, <2>3, <2>4 DEF SlotInv
<1> QED  BY <1>1, <1>2

LEMMA UnregisterSlots ==
  ASSUME SlotInv, NEW h \in Hdr, ObjHasCpl(h), NEW mark \in {Local, Invalid}, Unregister(h, mark)
  PROVE  SlotInv'
<1> DEFINE last == nCpls - 1
           k == objTable[last]
<1>1. /\ nCpls \in Nat /\ last \in 0 .. nCpls - 1 /\ last \in Slots
      /\ k \in Hdr /\ index[k] = last
      /\ index[h] \in 0 .. last /\ index[h] \in Slots /\ objTable[index[h]] = h
  BY SlotOf, Constants DEF SlotInv, SlotType, SlotsConsistent, Slots
<1>2. /\ index' = [index EXCEPT ![k] = index[h], ![h] = mark]
      /\ objTable' = [objTable EXCEPT ![index[h]] = k]
      /\ nCpls' = last /\ nObjs' = nObjs - 1
      /\ UNCHANGED <<tabSize, objTabSize>>
  BY DEF Unregister, MovedAndMarked, MoveLast
<1>3. SlotType' /\ TablesFit'
  BY <1>1, <1>2, Constants DEF SlotInv, SlotType, TablesFit
<1>4. ASSUME NEW i \in 0 .. last - 1
      PROVE  objTable'[i] \in Hdr /\ index'[objTable'[i]] = i
  <2>1. i \in Slots /\ objTable[i] \in Hdr /\ index[objTable[i]] = i
    BY <1>1, <1>4, Constants DEF SlotInv, SlotType, SlotsConsistent, Slots
  <2>2. CASE i = index[h]
    BY <1>1, <1>2, <1>4, <2>1, <2>2 DEF SlotInv, SlotType
  <2>3. CASE i # index[h]
    BY <1>1, <1>2, <1>4, <2>1, <2>3 DEF SlotInv, SlotType
  <2> QED  BY <2>2, <2>3
<1>5. ASSUME NEW x \in Hdr
      PROVE  IF index'[x] \in {Local, Invalid} THEN ~(index'[x] < nCpls')
             ELSE index'[x] < nCpls' /\ objTable'[index'[x]] = x
  <2>1. CASE x = h
    BY <1>1, <1>2, <2>1, Constants DEF SlotInv, SlotType
  <2>2. CASE x # h /\ x = k
    BY <1>1, <1>2, <2>2, Constants DEF SlotInv, SlotType
  <2>3. CASE x # h /\ x # k
    BY <1>1, <1>2, <2>3, SlotOf, Constants DEF SlotInv, SlotType, ObjHasCpl
  <2> QED  BY <2>1, <2>2, <2>3
<1>6. SlotsConsistent'
  BY <1>2, <1>4, <1>5 DEF SlotsConsistent, ObjHasCpl, Local, Invalid
<1> QED  BY <1>3, <1>6 DEF SlotInv

LEMMA MoveSlots ==
  ASSUME SlotInv, NEW new \in Hdr, NEW old \in Hdr, HdrConstructorMove(new, old)
  PROVE  SlotInv'
<1>1. /\ index[new] = Invalid /\ index[old] # Invalid /\ new # old
      /\ index' = [index EXCEPT ![new] = index[old], ![old] = Invalid]
      /\ objTable' = IF ObjHasCpl(old) THEN [objTable EXCEPT ![index[old]] = new] ELSE objTable
      /\ UNCHANGED <<tabSize, objTabSize, nObjs, nCpls>>
  BY DEF HdrConstructorMove, IsHdrInvalid
<1>2. SlotType' /\ TablesFit'
  BY <1>1, Constants, SlotOf DEF SlotInv, SlotType, TablesFit
<1>3. ASSUME NEW i \in 0 .. nCpls - 1
      PROVE  objTable'[i] \in Hdr /\ index'[objTable'[i]] = i
  <2>1. i \in Slots /\ objTable[i] \in Hdr /\ index[objTable[i]] = i /\ objTable[i] # new
    BY <1>1, <1>3, Constants DEF SlotInv, SlotType, SlotsConsistent, Slots
  <2> QED  BY <1>1, <2>1, SlotOf DEF SlotInv, SlotType, ObjHasCpl
<1>4. ASSUME NEW x \in Hdr
      PROVE  IF index'[x] \in {Local, Invalid} THEN ~(index'[x] < nCpls)
             ELSE index'[x] < nCpls /\ objTable'[index'[x]] = x
  <2>1. CASE x = old
    BY <1>1, <2>1, Constants DEF SlotInv, SlotType
  <2>2. CASE x = new
    BY <1>1, <2>2, SlotOf, Constants DEF SlotInv, SlotType, ObjHasCpl
  <2>3. CASE x # old /\ x # new
    BY <1>1, <2>3, SlotOf, Constants DEF SlotInv, SlotType, ObjHasCpl
  <2> QED  BY <2>1, <2>2, <2>3
<1>5. SlotsConsistent'
  <2>1. \A i \in 0 .. nCpls' - 1 : objTable'[i] \in Hdr /\ index'[objTable'[i]] = i
    BY <1>1, <1>3
  <2>2. \A x \in Hdr : IF index'[x] \in {Local, Invalid} THEN ~(index'[x] < nCpls')
                        ELSE index'[x] < nCpls' /\ objTable'[index'[x]] = x
    BY <1>1, <1>4
  <2> QED  BY <2>1, <2>2 DEF SlotsConsistent, ObjHasCpl, Local, Invalid
<1> QED  BY <1>2, <1>5 DEF SlotInv

(* Operations on a header without couplings, and those that leave the slots. *)
LEMMA MarkSlots ==
  ASSUME SlotInv, NEW h \in Hdr, ~ObjHasCpl(h), NEW mark \in {Local, Invalid},
         index' = [index EXCEPT ![h] = mark],
         UNCHANGED <<objTable, tabSize, objTabSize, nObjs, nCpls>>
  PROVE  SlotInv'
<1>1. SlotType' /\ TablesFit'
  BY Constants DEF SlotInv, SlotType, TablesFit
<1>2. ASSUME NEW i \in 0 .. nCpls - 1
      PROVE  objTable[i] \in Hdr /\ index'[objTable[i]] = i
  BY <1>2, Constants DEF SlotInv, SlotType, SlotsConsistent, ObjHasCpl
<1>3. ASSUME NEW x \in Hdr
      PROVE  IF index'[x] \in {Local, Invalid} THEN ~(index'[x] < nCpls)
             ELSE index'[x] < nCpls /\ objTable[index'[x]] = x
  BY SlotOf, Constants DEF SlotInv, SlotType, ObjHasCpl
<1> QED  BY <1>1, <1>2, <1>3 DEF SlotInv, SlotsConsistent, ObjHasCpl, Local, Invalid

LEMMA KeepSlots ==
  ASSUME SlotInv, UNCHANGED <<index, objTable, tabSize, objTabSize, nObjs, nCpls>>
  PROVE  SlotInv'
BY DEF SlotInv, SlotType, SlotsConsistent, TablesFit, ObjHasCpl

(* What happens to the slots does not depend on the couplings. *)
LEMMA SlotStep == ASSUME SlotInv, [Next]_vars PROVE SlotInv'
<1> USE DEF tables, memory
<1>1. CASE UNCHANGED vars
  BY <1>1, KeepSlots DEF vars
<1>2. ASSUME NEW h \in Hdr, NEW q \in Proc, NEW prio \in Prio, AddCoupling(h, q, prio)
      PROVE  SlotInv'
  BY <1>2, RegisterSlots DEF AddCoupling
<1>3. ASSUME NEW h \in Hdr, NEW q \in Proc, AddCouplingFails(h, q)
      PROVE  SlotInv'
  BY <1>3, RegisterSlots DEF AddCouplingFails
<1>4. ASSUME NEW h \in Hdr, NEW q \in Proc, NEW prio \in Prio, ModCoupling(h, q, prio)
      PROVE  SlotInv'
  BY <1>4, KeepSlots DEF ModCoupling
<1>5. ASSUME NEW h \in Hdr, NEW q \in Proc, DelCoupling(h, q)
      PROVE  SlotInv'
  <2>1. ObjHasCpl(h)
    BY <1>5 DEF DelCoupling, To, ObjCplList
  <2>2. CASE Unregister(h, Local)
    BY <2>1, <2>2, UnregisterSlots
  <2>3. CASE \E c : RemoveFromList(h, c)
    BY <2>3, KeepSlots DEF RemoveFromList
  <2> QED  BY <1>5, <2>2, <2>3 DEF DelCoupling
<1>6. ASSUME NEW h \in Hdr, HdrConstructor(h)
      PROVE  SlotInv'
  <2>1. ~ObjHasCpl(h)
    BY <1>6, SlotOf, Constants DEF HdrConstructor, IsHdrInvalid, SlotInv, SlotType, ObjHasCpl
  <2> QED  BY <1>6, <2>1, MarkSlots DEF HdrConstructor
<1>7. ASSUME NEW h \in Hdr, HdrDestructor(h)
      PROVE  SlotInv'
  <2>1. CASE ObjHasCpl(h)
    BY <1>7, <2>1, UnregisterSlots DEF HdrDestructor
  <2>2. CASE ~ObjHasCpl(h)
    BY <1>7, <2>2, MarkSlots DEF HdrDestructor
  <2> QED  BY <2>1, <2>2
<1>8. ASSUME NEW new \in Hdr, NEW old \in Hdr, HdrConstructorMove(new, old)
      PROVE  SlotInv'
  BY <1>8, MoveSlots
<1>9. CASE SetOption
  BY <1>9, KeepSlots DEF SetOption
<1> QED  BY <1>1, <1>2, <1>3, <1>4, <1>5, <1>6, <1>7, <1>8, <1>9 DEF Next

------------------------------------------------------------------------------
(* The lists. *)

LEMMA UsedCell == \A c : c \in InUse <=> \E i \in 0 .. nCpls - 1 : c \in cplTable[i]
BY DEF InUse

LEMMA UsedSlots == ASSUME SlotType PROVE \A i \in 0 .. nCpls - 1 : i \in Slots
BY Constants DEF SlotType, Slots

(* Where a new coupling goes. *)
LEMMA RegisteredLists ==
  ASSUME SlotInv, ListType, NEW h \in Hdr, NEW C \in SUBSET Cell, Register(h, C)
  PROVE  /\ cplTable' \in [Slots -> SUBSET Cell]
         /\ Slot(h) \in 0 .. nCpls' - 1 /\ Slot(h) \in Slots
         /\ cplTable'[Slot(h)] = ObjCplList(h) \cup C /\ objTable'[Slot(h)] = h
         /\ \A i \in 0 .. nCpls' - 1 : i # Slot(h) =>
               /\ i \in 0 .. nCpls - 1
               /\ cplTable'[i] = cplTable[i] /\ objTable'[i] = objTable[i]
         /\ \A c : c \in InUse' <=> c \in InUse \cup C
<1>1. Slot(h) \in 0 .. nCpls' - 1 /\ Slot(h) \in Slots /\ nCpls \in Nat /\ nCpls' \in Nat
  BY SlotOf, Constants DEF SlotInv, SlotType, Register, Slot, Slots
<1>2. ObjCplList(h) \cup C \in SUBSET Cell
  BY <1>1, SlotOf DEF ListType, ObjCplList
<1>3. /\ cplTable' = [cplTable EXCEPT ![Slot(h)] = ObjCplList(h) \cup C]
      /\ objTable' = [objTable EXCEPT ![Slot(h)] = h]
  BY DEF Register
<1>4. ASSUME NEW i \in 0 .. nCpls' - 1, i # Slot(h)
      PROVE  /\ i \in 0 .. nCpls - 1
             /\ cplTable'[i] = cplTable[i] /\ objTable'[i] = objTable[i]
  <2>1. i \in 0 .. nCpls - 1
    BY <1>1, <1>4, SlotOf DEF Register, Slot
  <2>2. i \in Slots
    BY <2>1, UsedSlots DEF SlotInv
  <2> QED  BY <1>3, <1>4, <2>1, <2>2 DEF SlotInv, SlotType, ListType
<1>5. cplTable'[Slot(h)] = ObjCplList(h) \cup C /\ objTable'[Slot(h)] = h
  BY <1>1, <1>3 DEF SlotInv, SlotType, ListType
<1>6. ASSUME NEW c PROVE c \in InUse' <=> c \in InUse \cup C
  <2>1. c \in InUse' <=> \E i \in 0 .. nCpls' - 1 : c \in cplTable'[i]
    BY DEF InUse
  <2>2. ASSUME NEW i \in 0 .. nCpls' - 1, c \in cplTable'[i] PROVE c \in InUse \cup C
    BY <1>4, <1>5, <2>2, UsedCell, SlotOf DEF ObjCplList
  <2>3. ASSUME NEW i \in 0 .. nCpls - 1, c \in cplTable[i] PROVE c \in InUse'
    <3>1. i \in 0 .. nCpls' - 1
      BY <1>1 DEF Register
    <3>2. CASE i = Slot(h)
      <4>1. ObjHasCpl(h)
        BY <1>1, <3>2 DEF Slot
      <4> QED  BY <1>1, <1>5, <2>1, <2>3, <3>2, <4>1 DEF ObjCplList, Slot
    <3>3. CASE i # Slot(h)
      BY <1>4, <2>1, <2>3, <3>1, <3>3
    <3> QED  BY <3>2, <3>3
  <2>4. c \in C => c \in InUse'
    BY <1>1, <1>5, <2>1
  <2> QED  BY <2>2, <2>3, <2>4, <2>1, UsedCell
<1> QED  BY <1>1, <1>2, <1>3, <1>4, <1>5, <1>6 DEF ListType

(* What is left when a slot is given up. *)
LEMMA UnregisteredLists ==
  ASSUME SlotInv, ListType, ListsConsistent, NEW h \in Hdr, ObjHasCpl(h), NEW mark, Unregister(h, mark)
  PROVE  /\ cplTable' \in [Slots -> SUBSET Cell]
         /\ \A i \in 0 .. nCpls' - 1 : \E j \in 0 .. nCpls - 1 :
               /\ j # index[h] /\ (i = index[h] => j = nCpls - 1) /\ (i # index[h] => j = i)
               /\ cplTable'[i] = cplTable[j] /\ objTable'[i] = objTable[j]
         /\ \A c : c \in InUse' <=> c \in InUse \ ObjCplList(h)
<1> DEFINE last == nCpls - 1
<1>1. /\ nCpls \in Nat /\ last \in 0 .. nCpls - 1 /\ last \in Slots
      /\ index[h] \in 0 .. last /\ index[h] \in Slots
  BY SlotOf, Constants DEF SlotInv, SlotType, Slots
<1>2. /\ cplTable' = [cplTable EXCEPT ![index[h]] = cplTable[last]]
      /\ objTable' = [objTable EXCEPT ![index[h]] = objTable[last]]
      /\ nCpls' = last
  BY DEF Unregister, MoveLast
<1>3. cplTable' \in [Slots -> SUBSET Cell]
  BY <1>1, <1>2 DEF ListType
<1>4. ASSUME NEW i \in 0 .. nCpls' - 1
      PROVE  /\ i \in Slots /\ i \in 0 .. nCpls - 1
             /\ i = index[h] => cplTable'[i] = cplTable[last] /\ objTable'[i] = objTable[last]
             /\ i # index[h] => cplTable'[i] = cplTable[i] /\ objTable'[i] = objTable[i]
  <2>1. i \in 0 .. nCpls - 1 /\ i \in Slots
    BY <1>1, <1>2, <1>4, UsedSlots DEF SlotInv
  <2> QED  BY <1>1, <1>2, <2>1 DEF SlotInv, SlotType, ListType
<1>5. ASSUME NEW i \in 0 .. nCpls' - 1
      PROVE  \E j \in 0 .. nCpls - 1 :
               /\ j # index[h] /\ (i = index[h] => j = nCpls - 1) /\ (i # index[h] => j = i)
               /\ cplTable'[i] = cplTable[j] /\ objTable'[i] = objTable[j]
  <2>1. CASE i = index[h]
    <3>1. last # index[h]
      BY <1>1, <1>2, <2>1
    <3> QED  BY <1>1, <1>4, <2>1, <3>1
  <2>2. CASE i # index[h]
    BY <1>4, <2>2
  <2> QED  BY <2>1, <2>2
<1>6. ASSUME NEW c PROVE c \in InUse' <=> c \in InUse \ ObjCplList(h)
  <2>1. c \in InUse' <=> \E i \in 0 .. nCpls' - 1 : c \in cplTable'[i]
    BY DEF InUse
  <2>2. ASSUME NEW i \in 0 .. nCpls' - 1, c \in cplTable'[i] PROVE c \in InUse \ ObjCplList(h)
    <3>1. PICK j \in 0 .. nCpls - 1 : j # index[h] /\ cplTable'[i] = cplTable[j]
      BY <1>5
    <3> QED  BY <1>1, <2>2, <3>1, UsedCell DEF ListsConsistent, ObjCplList
  <2>3. ASSUME NEW j \in 0 .. nCpls - 1, c \in cplTable[j], c \notin ObjCplList(h) PROVE c \in InUse'
    <3>1. j # index[h]
      BY <2>3 DEF ObjCplList
    <3>2. CASE j = last
      <4>1. index[h] \in 0 .. nCpls' - 1
        BY <1>1, <1>2, <3>1, <3>2
      <4> QED  BY <1>4, <2>1, <2>3, <3>2, <4>1
    <3>3. CASE j # last
      <4>1. j \in 0 .. nCpls' - 1
        BY <1>1, <1>2, <3>3
      <4> QED  BY <1>4, <2>1, <2>3, <3>1, <4>1
    <3> QED  BY <3>2, <3>3
  <2> QED  BY <2>1, <2>2, <2>3, UsedCell
<1> QED  BY <1>3, <1>5, <1>6

(* A new coupling: its cell was in no list. *)
LEMMA NewCouplingStep ==
  ASSUME SlotInv, ListInv, NEW h \in Hdr, NEW q \in Proc, NEW prio \in Prio,
         NEW c \in Cell, NewCoupling(c, h, q, prio), Register(h, {c}), To(h, q) = {},
         useFreelist' = useFreelist
  PROVE  ListInv' /\ c \notin InUse
<1>1. c \notin InUse
  BY UsedCell DEF NewCoupling, ListInv, ListsConsistent
<1>2. /\ record' \in [Cell -> Record]
      /\ record'[c] = [obj |-> h, proc |-> q, prio |-> prio, fromFreelist |-> useFreelist]
      /\ \A d \in Cell : d # c => record'[d] = record[d]
  BY DEF NewCoupling, ListInv, ListType, Record
<1>3. ListType /\ {c} \in SUBSET Cell
  BY DEF ListInv
<1>4. ListType'
  <2>1. cplTable' \in [Slots -> SUBSET Cell]
    BY <1>3, RegisteredLists
  <2>2. segments' \subseteq Cell /\ memlist' \subseteq segments'
    BY DEF NewCoupling, ListInv, ListType
  <2> QED  BY <1>2, <1>3, <2>1, <2>2 DEF ListType
<1>5. /\ c \notin memlist' /\ (useFreelist <=> c \in segments')
      /\ \A d \in InUse : d \notin memlist => d \notin memlist'
      /\ \A d \in InUse : d \in segments' <=> d \in segments
  BY <1>1 DEF NewCoupling, ListInv, ListType
<1>6. ASSUME NEW i \in 0 .. nCpls - 1, NEW d \in cplTable[i]
      PROVE  d \in InUse /\ d \in Cell /\ d # c /\ record'[d] = record[d]
  <2>1. i \in Slots
    BY UsedSlots DEF SlotInv
  <2>2. d \in InUse /\ d \in Cell
    BY <1>3, <2>1, UsedCell DEF ListType
  <2> QED  BY <1>1, <1>2, <2>2
<1>7. ASSUME NEW d \in ObjCplList(h)
      PROVE  ObjHasCpl(h) /\ index[h] \in 0 .. nCpls - 1 /\ objTable[index[h]] = h /\ d \in cplTable[index[h]]
  BY SlotOf DEF ObjCplList
<1>8. ASSUME NEW i \in 0 .. nCpls' - 1, NEW j \in 0 .. nCpls' - 1, i # j
      PROVE  cplTable'[i] \cap cplTable'[j] = {}
  <2>1. ASSUME NEW m \in 0 .. nCpls' - 1, m # Slot(h)
        PROVE  cplTable'[m] \cap cplTable'[Slot(h)] = {}
    <3>1. m \in 0 .. nCpls - 1 /\ cplTable'[m] = cplTable[m] /\ cplTable'[Slot(h)] = ObjCplList(h) \cup {c}
      BY <1>3, <2>1, RegisteredLists
    <3>2. c \notin cplTable[m]
      BY <1>6, <3>1
    <3>3. cplTable[m] \cap ObjCplList(h) = {}
      BY <2>1, <3>1, SlotOf DEF ListInv, ListsConsistent, ObjCplList, Slot
    <3> QED  BY <3>1, <3>2, <3>3
  <2>2. CASE i = Slot(h) \/ j = Slot(h)
    BY <1>8, <2>1, <2>2
  <2>3. CASE i # Slot(h) /\ j # Slot(h)
    <3>1. /\ i \in 0 .. nCpls - 1 /\ cplTable'[i] = cplTable[i]
          /\ j \in 0 .. nCpls - 1 /\ cplTable'[j] = cplTable[j]
      BY <1>3, <2>3, RegisteredLists
    <3> QED  BY <1>8, <3>1 DEF ListInv, ListsConsistent
  <2> QED  BY <2>2, <2>3
<1>9. ASSUME NEW i \in 0 .. nCpls' - 1, NEW x \in cplTable'[i]
      PROVE  /\ x \notin memlist'
             /\ record'[x].fromFreelist <=> x \in segments'
             /\ record'[x].obj = objTable'[i]
             /\ \A d \in cplTable'[i] : record'[d].proc = record'[x].proc => d = x
  <2>1. CASE i # Slot(h)
    <3>1. i \in 0 .. nCpls - 1 /\ cplTable'[i] = cplTable[i] /\ objTable'[i] = objTable[i]
      BY <1>3, <2>1, RegisteredLists
    <3> QED  BY <1>5, <1>6, <1>9, <3>1 DEF ListInv, ListsConsistent
  <2>2. CASE i = Slot(h)
    <3>1. cplTable'[i] = ObjCplList(h) \cup {c} /\ objTable'[i] = h
      BY <1>3, <2>2, RegisteredLists
    <3>2. \A d \in ObjCplList(h) : record'[d] = record[d] /\ record[d].proc # q
      BY <1>6, <1>7 DEF To
    <3>3. CASE x = c
      BY <1>2, <1>5, <3>1, <3>2, <3>3
    <3>4. CASE x \in ObjCplList(h)
      BY <1>2, <1>5, <1>6, <1>7, <3>1, <3>2, <3>4 DEF ListInv, ListsConsistent
    <3> QED  BY <1>9, <3>1, <3>3, <3>4
  <2> QED  BY <2>1, <2>2
<1>10. ListsConsistent'
  <2>1. \A i, j \in 0 .. nCpls' - 1 : i # j => cplTable'[i] \cap cplTable'[j] = {}
    BY <1>8
  <2>2. \A i \in 0 .. nCpls' - 1 : \A x \in cplTable'[i] :
             /\ x \notin memlist'
             /\ record'[x].fromFreelist <=> x \in segments'
             /\ record'[x].obj = objTable'[i]
             /\ \A d \in cplTable'[i] : record'[d].proc = record'[x].proc => d = x
    BY <1>9
  <2> QED  BY <2>1, <2>2 DEF ListsConsistent
<1>11. NoLeak'
  <2>1. \A d : d \in InUse' <=> d \in InUse \/ d = c
    BY <1>3, RegisteredLists
  <2>2. \A d \in InUse : record'[d] = record[d]
    BY <1>6, UsedCell
  <2>3. segments' = memlist' \cup {d \in InUse' : record'[d].fromFreelist}
    BY <1>1, <1>2, <2>1, <2>2 DEF NewCoupling, ListInv, NoLeak
  <2> QED  BY <2>3 DEF NoLeak
<1> QED  BY <1>1, <1>4, <1>10, <1>11 DEF ListInv

(* A slot without a coupling. *)
LEMMA FailedCouplingLists ==
  ASSUME SlotInv, ListInv, NEW h \in Hdr, Register(h, {}),
         UNCHANGED <<record, segments, memlist, useFreelist>>
  PROVE  ListInv'
<1>1. ListType /\ {} \in SUBSET Cell
  BY DEF ListInv
<1>2. ListType'
  BY <1>1, RegisteredLists DEF ListType
<1>3. ASSUME NEW i \in 0 .. nCpls' - 1, NEW x \in cplTable'[i]
      PROVE  i \in 0 .. nCpls - 1 /\ x \in cplTable[i] /\ cplTable'[i] = cplTable[i] /\ objTable'[i] = objTable[i]
  <2>1. CASE i # Slot(h)
    BY <1>1, <1>3, <2>1, RegisteredLists
  <2>2. CASE i = Slot(h)
    <3>1. cplTable'[i] = ObjCplList(h) /\ objTable'[i] = h
      <4>1. cplTable'[i] = ObjCplList(h) \cup {} /\ objTable'[i] = h
        BY <1>1, <2>2, RegisteredLists
      <4> QED  BY <4>1
    <3> QED  BY <1>3, <2>2, <3>1, SlotOf DEF ObjCplList, Slot
  <2> QED  BY <2>1, <2>2
<1>4. ListsConsistent'
  <2>1. \A i, j \in 0 .. nCpls' - 1 : i # j => cplTable'[i] \cap cplTable'[j] = {}
    <3> SUFFICES ASSUME NEW i \in 0 .. nCpls' - 1, NEW j \in 0 .. nCpls' - 1, i # j,
                        NEW x, x \in cplTable'[i], x \in cplTable'[j]
                 PROVE  FALSE
      OBVIOUS
    <3>1. i \in 0 .. nCpls - 1 /\ x \in cplTable[i] /\ j \in 0 .. nCpls - 1 /\ x \in cplTable[j]
      BY <1>3
    <3> QED  BY <3>1 DEF ListInv, ListsConsistent
  <2>2. \A i \in 0 .. nCpls' - 1 : \A x \in cplTable'[i] :
             /\ x \notin memlist
             /\ record[x].fromFreelist <=> x \in segments
             /\ record[x].obj = objTable'[i]
             /\ \A d \in cplTable'[i] : record[d].proc = record[x].proc => d = x
    BY <1>3 DEF ListInv, ListsConsistent
  <2> QED  BY <2>1, <2>2 DEF ListsConsistent
<1>5. InUse' = InUse
  BY <1>1, RegisteredLists
<1>6. NoLeak'
  BY <1>5 DEF ListInv, NoLeak
<1> QED  BY <1>2, <1>4, <1>6 DEF ListInv

(* A slot is given up, with the couplings C that were left in it. *)
LEMMA UnregisterLists ==
  ASSUME SlotInv, ListInv, NEW h \in Hdr, ObjHasCpl(h), NEW mark, Unregister(h, mark),
         DisposeCouplings(ObjCplList(h)), UNCHANGED <<record, useFreelist>>
  PROVE  ListInv'
<1>1. ListType /\ ListsConsistent
  BY DEF ListInv
<1>2. /\ memlist' = memlist \cup {c \in ObjCplList(h) : record[c].fromFreelist}
      /\ segments' = segments
  BY DEF DisposeCouplings
<1>3. index[h] \in 0 .. nCpls - 1 /\ index[h] \in Slots /\ ObjCplList(h) = cplTable[index[h]]
  BY SlotOf DEF ObjCplList
<1>4. ListType'
  <2>1. cplTable' \in [Slots -> SUBSET Cell]
    BY <1>1, UnregisteredLists
  <2>2. memlist' \subseteq segments'
    BY <1>1, <1>2, <1>3 DEF ListType, ListsConsistent
  <2> QED  BY <1>1, <1>2, <2>1, <2>2 DEF ListType
<1>5. \A i \in 0 .. nCpls' - 1 : \E j \in 0 .. nCpls - 1 :
               /\ j # index[h] /\ (i = index[h] => j = nCpls - 1) /\ (i # index[h] => j = i)
               /\ cplTable'[i] = cplTable[j] /\ objTable'[i] = objTable[j]
  BY <1>1, UnregisteredLists
<1>6. ListsConsistent'
  <2>1. ASSUME NEW i \in 0 .. nCpls' - 1, NEW j \in 0 .. nCpls' - 1, i # j
        PROVE  cplTable'[i] \cap cplTable'[j] = {}
    <3>1. PICK k \in 0 .. nCpls - 1 : /\ cplTable'[i] = cplTable[k]
                                      /\ (i = index[h] => k = nCpls - 1) /\ (i # index[h] => k = i)
      BY <1>5
    <3>2. PICK l \in 0 .. nCpls - 1 : /\ cplTable'[j] = cplTable[l]
                                      /\ (j = index[h] => l = nCpls - 1) /\ (j # index[h] => l = j)
      BY <1>5
    <3>3. nCpls \in Nat /\ nCpls' = nCpls - 1
      BY Constants DEF SlotInv, SlotType, Unregister
    <3>4. k # l
      BY <2>1, <3>1, <3>2, <3>3
    <3> QED  BY <1>1, <3>1, <3>2, <3>4 DEF ListsConsistent
  <2>2. ASSUME NEW i \in 0 .. nCpls' - 1, NEW x \in cplTable'[i]
        PROVE  /\ x \notin memlist'
               /\ record[x].fromFreelist <=> x \in segments
               /\ record[x].obj = objTable'[i]
               /\ \A d \in cplTable'[i] : record[d].proc = record[x].proc => d = x
    <3>1. PICK k \in 0 .. nCpls - 1 : /\ k # index[h]
                                      /\ cplTable'[i] = cplTable[k] /\ objTable'[i] = objTable[k]
      BY <1>5
    <3>2. x \notin ObjCplList(h)
      BY <1>1, <1>3, <2>2, <3>1 DEF ListsConsistent
    <3> QED  BY <1>1, <1>2, <2>2, <3>1, <3>2 DEF ListsConsistent
  <2> QED  BY <1>2, <2>1, <2>2 DEF ListsConsistent
<1>7. NoLeak'
  <2>1. \A c : c \in InUse' <=> c \in InUse \ ObjCplList(h)
    BY <1>1, UnregisteredLists
  <2>2. \A c \in ObjCplList(h) : c \in InUse
    BY <1>3, UsedCell
  <2>3. segments' = memlist' \cup {d \in InUse' : record[d].fromFreelist}
    BY <1>2, <2>1, <2>2 DEF ListInv, NoLeak
  <2> QED  BY <2>3 DEF NoLeak
<1> QED  BY <1>4, <1>6, <1>7 DEF ListInv

(* A coupling is taken out of a list that keeps its slot. *)
LEMMA RemovedFromList ==
  ASSUME SlotInv, ListType, ListsConsistent, NEW h \in Hdr, NEW c \in ObjCplList(h), RemoveFromList(h, c)
  PROVE  /\ cplTable' \in [Slots -> SUBSET Cell]
         /\ \A i \in 0 .. nCpls - 1 : cplTable'[i] = cplTable[i] \ {c}
         /\ \A x : x \in InUse' <=> x \in InUse \ {c}
<1>1. index[h] \in 0 .. nCpls - 1 /\ index[h] \in Slots /\ c \in cplTable[index[h]]
  BY SlotOf DEF ObjCplList
<1>2. cplTable' \in [Slots -> SUBSET Cell]
  BY <1>1 DEF ListType, RemoveFromList
<1>3. ASSUME NEW i \in 0 .. nCpls - 1 PROVE cplTable'[i] = cplTable[i] \ {c}
  <2>1. i \in Slots
    BY UsedSlots DEF SlotInv
  <2>2. CASE i = index[h]
    BY <2>1, <2>2 DEF ListType, RemoveFromList
  <2>3. CASE i # index[h]
    <3>1. c \notin cplTable[i]
      BY <1>1, <2>3 DEF ListsConsistent
    <3> QED  BY <2>1, <2>3, <3>1 DEF ListType, RemoveFromList
  <2> QED  BY <2>2, <2>3
<1>4. ASSUME NEW x PROVE x \in InUse' <=> x \in InUse \ {c}
  <2>1. x \in InUse' <=> \E i \in 0 .. nCpls' - 1 : x \in cplTable'[i]
    BY DEF InUse
  <2>2. nCpls' = nCpls
    BY DEF RemoveFromList
  <2> QED  BY <1>3, <2>1, <2>2, UsedCell
<1> QED  BY <1>2, <1>3, <1>4

LEMMA RemoveLists ==
  ASSUME SlotInv, ListInv, NEW h \in Hdr, NEW c \in ObjCplList(h), RemoveFromList(h, c),
         DisposeCouplings({c}), UNCHANGED <<record, useFreelist>>
  PROVE  ListInv'
<1>1. ListType /\ ListsConsistent
  BY DEF ListInv
<1>2. /\ memlist' = memlist \cup {d \in {c} : record[d].fromFreelist}
      /\ segments' = segments /\ nCpls' = nCpls /\ objTable' = objTable
  BY DEF DisposeCouplings, RemoveFromList
<1>3. index[h] \in 0 .. nCpls - 1 /\ c \in cplTable[index[h]]
  BY SlotOf DEF ObjCplList
<1>4. cplTable' \in [Slots -> SUBSET Cell] /\ \A i \in 0 .. nCpls - 1 : cplTable'[i] = cplTable[i] \ {c}
  BY <1>1, RemovedFromList
<1>5. ListType'
  BY <1>1, <1>2, <1>3, <1>4 DEF ListType, ListsConsistent
<1>6. ListsConsistent'
  <2>1. \A i, j \in 0 .. nCpls - 1 : i # j => cplTable'[i] \cap cplTable'[j] = {}
    BY <1>1, <1>4 DEF ListsConsistent
  <2>2. \A i \in 0 .. nCpls - 1 : \A x \in cplTable'[i] :
             /\ x \notin memlist'
             /\ record[x].fromFreelist <=> x \in segments
             /\ record[x].obj = objTable[i]
             /\ \A d \in cplTable'[i] : record[d].proc = record[x].proc => d = x
    BY <1>1, <1>2, <1>4 DEF ListsConsistent
  <2> QED  BY <1>2, <2>1, <2>2 DEF ListsConsistent
<1>7. NoLeak'
  <2>1. (\A x : x \in InUse' <=> x \in InUse \ {c}) /\ c \in InUse
    BY <1>1, <1>3, RemovedFromList, UsedCell
  <2>2. segments' = memlist' \cup {d \in InUse' : record[d].fromFreelist}
    BY <1>2, <2>1 DEF ListInv, NoLeak
  <2> QED  BY <2>2 DEF NoLeak
<1> QED  BY <1>5, <1>6, <1>7 DEF ListInv

LEMMA MoveLists ==
  ASSUME SlotInv, ListInv, NEW new \in Hdr, NEW old \in Hdr, HdrConstructorMove(new, old)
  PROVE  ListInv' /\ InUse' = InUse
<1>1. /\ record' = RecordMoved(new, old)
      /\ objTable' = IF ObjHasCpl(old) THEN [objTable EXCEPT ![index[old]] = new] ELSE objTable
      /\ UNCHANGED <<cplTable, nCpls, segments, memlist, useFreelist>>
  BY DEF HdrConstructorMove, memory
<1>2. InUse' = InUse
  BY <1>1 DEF InUse
<1>3. /\ record' \in [Cell -> Record]
      /\ \A c \in Cell : /\ record'[c].fromFreelist = record[c].fromFreelist
                         /\ record'[c].proc = record[c].proc
                         /\ record'[c].obj = IF c \in ObjCplList(old) THEN new ELSE record[c].obj
  BY <1>1 DEF RecordMoved, ListInv, ListType, Record
<1>4. ListType'
  BY <1>1, <1>3 DEF ListInv, ListType
<1>5. ASSUME NEW i \in 0 .. nCpls - 1, NEW x \in cplTable[i]
      PROVE  x \in Cell /\ record'[x].obj = objTable'[i]
  <2>1. i \in Slots /\ x \in Cell
    BY UsedSlots DEF SlotInv, ListInv, ListType
  <2>2. CASE x \in ObjCplList(old)
    <3>1. ObjHasCpl(old) /\ i = index[old]
      BY <2>2, SlotOf DEF ObjCplList, ListInv, ListsConsistent
    <3> QED  BY <1>1, <1>3, <2>1, <2>2, <3>1 DEF SlotInv, SlotType
  <2>3. CASE x \notin ObjCplList(old)
    <3>1. ObjHasCpl(old) => i # index[old]
      BY <2>3 DEF ObjCplList
    <3> QED  BY <1>1, <1>3, <2>1, <2>3, <3>1, SlotOf DEF SlotInv, SlotType, ListInv, ListsConsistent
  <2> QED  BY <2>2, <2>3
<1>6. ListsConsistent'
  BY <1>1, <1>3, <1>5 DEF ListInv, ListsConsistent
<1>7. NoLeak'
  <2>1. \A x \in InUse : record'[x].fromFreelist = record[x].fromFreelist
    BY <1>3, <1>5, UsedCell
  <2> QED  BY <1>1, <1>2, <2>1 DEF ListInv, NoLeak
<1> QED  BY <1>2, <1>4, <1>6, <1>7 DEF ListInv

LEMMA KeepLists ==
  ASSUME ListInv,
         UNCHANGED <<objTable, cplTable, nCpls, segments, memlist, record>>, useFreelist' \in BOOLEAN
  PROVE  ListInv' /\ InUse' = InUse
<1>1. InUse' = InUse
  BY DEF InUse
<1> QED  BY <1>1 DEF ListInv, ListType, ListsConsistent, NoLeak

(* Only a priority changes. *)
LEMMA ModLists ==
  ASSUME SlotInv, ListInv, NEW h \in Hdr, NEW q \in Proc, NEW prio \in Prio, ModCoupling(h, q, prio)
  PROVE  ListInv' /\ InUse' = InUse
<1>1. PICK c \in To(h, q) : record' = [record EXCEPT ![c].prio = prio]
  BY DEF ModCoupling
<1>2. UNCHANGED <<objTable, cplTable, nCpls, segments, memlist, useFreelist>>
  BY DEF ModCoupling, tables, memory
<1>3. /\ record' \in [Cell -> Record]
      /\ \A x \in Cell : /\ record'[x].fromFreelist = record[x].fromFreelist
                         /\ record'[x].proc = record[x].proc /\ record'[x].obj = record[x].obj
  BY <1>1 DEF ListInv, ListType, Record
<1>4. InUse' = InUse
  BY <1>2 DEF InUse
<1>5. \A i \in 0 .. nCpls - 1 : \A x \in cplTable[i] : x \in Cell
  BY UsedSlots DEF SlotInv, ListInv, ListType
<1>6. ListType'
  BY <1>2, <1>3 DEF ListInv, ListType
<1>7. ListsConsistent'
  BY <1>2, <1>3, <1>5 DEF ListInv, ListsConsistent
<1>8. NoLeak'
  <2>1. \A x \in InUse : record'[x].fromFreelist = record[x].fromFreelist
    BY <1>3, <1>5, UsedCell
  <2> QED  BY <1>2, <1>4, <2>1 DEF ListInv, NoLeak
<1> QED  BY <1>4, <1>6, <1>7, <1>8 DEF ListInv

------------------------------------------------------------------------------
(* The counters. *)

LEMMA FiniteCells ==
  ASSUME NEW C \in SUBSET Cell
  PROVE  IsFiniteSet(C) /\ Cardinality(C) \in Nat
BY CplMgrAssumption, FS_Subset, FS_CardinalityType

LEMMA UsedCells ==
  ASSUME SlotInv, ListType
  PROVE  /\ InUse \in SUBSET Cell
         /\ \A h \in Hdr : ObjCplList(h) \in SUBSET InUse
         /\ \A i \in 0 .. nCpls - 1 : cplTable[i] \in SUBSET Cell
<1>1. \A i \in 0 .. nCpls - 1 : cplTable[i] \in SUBSET Cell
  BY UsedSlots DEF SlotInv, ListType
<1>2. \A h \in Hdr : ObjCplList(h) \in SUBSET InUse
  BY SlotOf, UsedCell DEF ObjCplList
<1> QED  BY <1>1, <1>2, UsedCell

(* The counter that is read for a header is the length of its list. *)
LEMMA ObjCounter ==
  ASSUME SlotInv, CountInv, NEW h \in Hdr
  PROVE  ObjNCpl(h) = Cardinality(ObjCplList(h)) /\ ObjNCpl(h) \in Nat
BY SlotOf, FS_EmptySet DEF CountInv, CountsConsistent, ObjNCpl, ObjCplList

LEMMA RegisteredCounts ==
  ASSUME SlotInv, ListType, CountInv, NEW h \in Hdr, NEW C \in SUBSET Cell, Register(h, C),
         Cardinality(ObjCplList(h) \cup C) = ObjNCpl(h) + Cardinality(C)
  PROVE  /\ nCplTable' \in [Slots -> Nat]
         /\ \A i \in 0 .. nCpls' - 1 : nCplTable'[i] = Cardinality(cplTable'[i])
<1>1. /\ Slot(h) \in Slots
      /\ cplTable'[Slot(h)] = ObjCplList(h) \cup C
      /\ \A i \in 0 .. nCpls' - 1 : i # Slot(h) => i \in 0 .. nCpls - 1 /\ cplTable'[i] = cplTable[i]
  BY RegisteredLists
<1>2. nCplTable' = [nCplTable EXCEPT ![Slot(h)] = ObjNCpl(h) + Cardinality(C)]
  BY DEF Register
<1>3. ObjNCpl(h) + Cardinality(C) \in Nat
  BY FiniteCells, ObjCounter
<1>4. ASSUME NEW i \in 0 .. nCpls' - 1 PROVE nCplTable'[i] = Cardinality(cplTable'[i])
  <2>1. CASE i = Slot(h)
    BY <1>1, <1>2, <2>1 DEF CountInv
  <2>2. CASE i # Slot(h)
    <3>1. i \in 0 .. nCpls - 1 /\ cplTable'[i] = cplTable[i]
      BY <1>1, <2>2
    <3>2. i \in Slots
      BY <3>1, UsedSlots DEF SlotInv
    <3> QED  BY <1>2, <2>2, <3>1, <3>2 DEF CountInv, CountsConsistent
  <2> QED  BY <2>1, <2>2
<1> QED  BY <1>2, <1>3, <1>4 DEF CountInv

LEMMA UnregisteredCounts ==
  ASSUME SlotInv, ListType, ListsConsistent, CountInv, NEW h \in Hdr, ObjHasCpl(h),
         NEW mark, Unregister(h, mark)
  PROVE  /\ nCplTable' \in [Slots -> Nat]
         /\ \A i \in 0 .. nCpls' - 1 : nCplTable'[i] = Cardinality(cplTable'[i])
<1>1. nCplTable' = [nCplTable EXCEPT ![index[h]] = nCplTable[nCpls - 1]] /\ nCpls' = nCpls - 1
  BY DEF Unregister, MoveLast
<1>2. nCpls - 1 \in Slots /\ nCpls \in Nat
  BY SlotOf, Constants DEF SlotInv, SlotType, Slots
<1>3. ASSUME NEW i \in 0 .. nCpls' - 1 PROVE nCplTable'[i] = Cardinality(cplTable'[i])
  <2>1. PICK j \in 0 .. nCpls - 1 : /\ (i = index[h] => j = nCpls - 1) /\ (i # index[h] => j = i)
                                    /\ cplTable'[i] = cplTable[j]
    BY UnregisteredLists
  <2>2. i \in Slots
    <3>1. i \in 0 .. nCpls - 1
      BY <1>1, <1>2
    <3> QED  BY <3>1, UsedSlots DEF SlotInv
  <2>3. nCplTable'[i] = nCplTable[j]
    BY <1>1, <2>1, <2>2 DEF CountInv
  <2> QED  BY <2>1, <2>3 DEF CountInv, CountsConsistent
<1> QED  BY <1>1, <1>2, <1>3 DEF CountInv

LEMMA RemovedCounts ==
  ASSUME SlotInv, ListType, ListsConsistent, CountInv,
         NEW h \in Hdr, NEW c \in ObjCplList(h), RemoveFromList(h, c), ObjNCpl(h) # 1
  PROVE  /\ nCplTable' \in [Slots -> Nat]
         /\ \A i \in 0 .. nCpls - 1 : nCplTable'[i] = Cardinality(cplTable'[i])
<1>1. /\ ObjHasCpl(h) /\ index[h] \in 0 .. nCpls - 1 /\ index[h] \in Slots
      /\ c \in cplTable[index[h]] /\ ObjCplList(h) = cplTable[index[h]]
  BY SlotOf DEF ObjCplList
<1>2. nCplTable' = [nCplTable EXCEPT ![index[h]] = nCplTable[index[h]] - 1]
  BY DEF RemoveFromList
<1>3. \A i \in 0 .. nCpls - 1 : cplTable'[i] = cplTable[i] \ {c}
  BY RemovedFromList
<1>4. ASSUME NEW i \in 0 .. nCpls - 1
      PROVE  i \in Slots /\ IsFiniteSet(cplTable[i]) /\ nCplTable[i] = Cardinality(cplTable[i])
  BY FiniteCells, UsedCells, UsedSlots DEF SlotInv, CountInv, CountsConsistent
<1>5. nCplTable[index[h]] - 1 \in Nat
  <2>1. nCplTable[index[h]] # 0
    BY <1>1, <1>4, FS_EmptySet
  <2> QED  BY <1>1, <2>1 DEF CountInv
<1>6. ASSUME NEW i \in 0 .. nCpls - 1 PROVE nCplTable'[i] = Cardinality(cplTable'[i])
  <2>1. Cardinality(cplTable[i] \ {c}) = IF c \in cplTable[i] THEN nCplTable[i] - 1 ELSE nCplTable[i]
    BY <1>4, FS_RemoveElement
  <2>2. c \in cplTable[i] <=> i = index[h]
    BY <1>1 DEF ListsConsistent
  <2> QED  BY <1>1, <1>2, <1>3, <1>4, <2>1, <2>2 DEF CountInv
<1> QED  BY <1>2, <1>5, <1>6 DEF CountInv

------------------------------------------------------------------------------
(* The operations, once more: lists and counters. *)

LEMMA AddCouplingStep ==
  ASSUME Inv, NEW h \in Hdr, NEW q \in Proc, NEW prio \in Prio, AddCoupling(h, q, prio)
  PROVE  ListInv' /\ CountInv'
<1>1. PICK c \in Cell : NewCoupling(c, h, q, prio) /\ Register(h, {c})
  BY DEF AddCoupling
<1>2. /\ SlotInv /\ ListInv /\ CountInv /\ ListType
      /\ To(h, q) = {} /\ useFreelist' = useFreelist /\ {c} \in SUBSET Cell
  BY DEF Inv, ListInv, AddCoupling
<1>3. ListInv' /\ c \notin InUse
  BY <1>1, <1>2, NewCouplingStep
<1>4. Cardinality(ObjCplList(h) \cup {c}) = ObjNCpl(h) + Cardinality({c})
  <2>1. c \notin ObjCplList(h) /\ ObjCplList(h) \in SUBSET Cell
    BY <1>2, <1>3, UsedCells
  <2>2. Cardinality(ObjCplList(h) \cup {c}) = Cardinality(ObjCplList(h)) + 1
    BY <2>1, FiniteCells, FS_AddElement
  <2> QED  BY <1>2, <2>2, ObjCounter, FS_Singleton
<1>5. /\ nCplTable' \in [Slots -> Nat]
      /\ \A i \in 0 .. nCpls' - 1 : nCplTable'[i] = Cardinality(cplTable'[i])
  BY <1>1, <1>2, <1>4, RegisteredCounts
<1>6. nCplItems' = Cardinality(InUse')
  <2>1. InUse' = InUse \cup {c}
    BY <1>1, <1>2, RegisteredLists
  <2>2. Cardinality(InUse \cup {c}) = Cardinality(InUse) + 1
    BY <1>2, <1>3, UsedCells, FiniteCells, FS_AddElement
  <2> QED  BY <1>1, <1>2, <2>1, <2>2 DEF NewCoupling, CountInv, CountsConsistent
<1>7. nCplItems' \in Nat
  BY <1>1, <1>2 DEF NewCoupling, CountInv
<1> QED  BY <1>3, <1>5, <1>6, <1>7 DEF CountInv, CountsConsistent

LEMMA AddCouplingFailsStep ==
  ASSUME Inv, NEW h \in Hdr, NEW q \in Proc, AddCouplingFails(h, q)
  PROVE  ListInv' /\ CountInv'
<1>1. /\ SlotInv /\ ListInv /\ CountInv /\ ListType /\ {} \in SUBSET Cell /\ Register(h, {})
      /\ UNCHANGED <<record, segments, memlist, useFreelist, nCplItems>>
  BY DEF Inv, ListInv, AddCouplingFails, memory
<1>2. ListInv'
  BY <1>1, FailedCouplingLists
<1>3. ObjCplList(h) \cup {} = ObjCplList(h)
  OBVIOUS
<1>4. Cardinality(ObjCplList(h) \cup {}) = ObjNCpl(h) + Cardinality({})
  BY <1>1, <1>3, ObjCounter, FS_EmptySet
<1>5. /\ nCplTable' \in [Slots -> Nat]
      /\ \A i \in 0 .. nCpls' - 1 : nCplTable'[i] = Cardinality(cplTable'[i])
  BY <1>1, <1>4, RegisteredCounts
<1>6. InUse' = InUse
  BY <1>1, RegisteredLists
<1> QED  BY <1>1, <1>2, <1>5, <1>6 DEF CountInv, CountsConsistent

(* The couplings of a header go, with its slot. *)
LEMMA UnregisterStep ==
  ASSUME Inv, NEW h \in Hdr, ObjHasCpl(h), NEW mark, Unregister(h, mark),
         DisposeCouplings(ObjCplList(h)), UNCHANGED <<record, useFreelist>>
  PROVE  ListInv' /\ CountInv'
<1>1. SlotInv /\ ListInv /\ CountInv /\ ListType /\ ListsConsistent
  BY DEF Inv, ListInv
<1>2. ListInv'
  BY <1>1, UnregisterLists
<1>3. /\ nCplTable' \in [Slots -> Nat]
      /\ \A i \in 0 .. nCpls' - 1 : nCplTable'[i] = Cardinality(cplTable'[i])
  BY <1>1, UnregisteredCounts
<1>4. nCplItems' = Cardinality(InUse') /\ nCplItems' \in Nat
  <2>1. InUse' = InUse \ ObjCplList(h)
    BY <1>1, UnregisteredLists
  <2>2. InUse \in SUBSET Cell /\ InUse \cap ObjCplList(h) = ObjCplList(h)
    BY <1>1, UsedCells
  <2>3. Cardinality(InUse \ ObjCplList(h)) = Cardinality(InUse) - Cardinality(InUse \cap ObjCplList(h))
    BY <2>2, FiniteCells, FS_Difference
  <2>4. Cardinality(InUse \ ObjCplList(h)) \in Nat
    BY <2>2, FiniteCells
  <2> QED  BY <1>1, <2>1, <2>2, <2>3, <2>4 DEF DisposeCouplings, CountInv, CountsConsistent
<1> QED  BY <1>2, <1>3, <1>4 DEF CountInv, CountsConsistent

LEMMA DelCouplingStep ==
  ASSUME Inv, NEW h \in Hdr, NEW q \in Proc, DelCoupling(h, q)
  PROVE  ListInv' /\ CountInv'
<1>1. PICK c \in To(h, q) : /\ DisposeCouplings({c})
                            /\ IF ObjNCpl(h) = 1 THEN Unregister(h, Local) ELSE RemoveFromList(h, c)
  BY DEF DelCoupling
<1>2. /\ SlotInv /\ ListInv /\ CountInv /\ ListType /\ ListsConsistent
      /\ UNCHANGED <<record, useFreelist>>
      /\ c \in ObjCplList(h) /\ ObjHasCpl(h) /\ ObjCplList(h) \in SUBSET InUse /\ InUse \in SUBSET Cell
  BY <1>1, UsedCells DEF Inv, ListInv, DelCoupling, To, ObjCplList
<1>3. CASE ObjNCpl(h) = 1
  <2>1. ObjCplList(h) = {c}
    <3>1. Cardinality(ObjCplList(h)) = 1 /\ IsFiniteSet(ObjCplList(h))
      BY <1>2, <1>3, ObjCounter, FiniteCells
    <3> QED  BY <1>2, <3>1, FS_Singleton
  <2> QED  BY <1>1, <1>2, <1>3, <2>1, UnregisterStep
<1>4. CASE ObjNCpl(h) # 1
  <2>1. RemoveFromList(h, c)
    BY <1>1, <1>4
  <2>2. ListInv'
    BY <1>1, <1>2, <2>1, RemoveLists
  <2>3. /\ nCplTable' \in [Slots -> Nat]
        /\ \A i \in 0 .. nCpls - 1 : nCplTable'[i] = Cardinality(cplTable'[i])
    BY <1>2, <1>4, <2>1, RemovedCounts
  <2>4. nCpls' = nCpls
    BY <2>1 DEF RemoveFromList
  <2>5. nCplItems' = Cardinality(InUse') /\ nCplItems' \in Nat
    <3>1. InUse' = InUse \ {c}
      BY <1>2, <2>1, RemovedFromList
    <3>2. Cardinality(InUse \ {c}) = Cardinality(InUse) - 1 /\ Cardinality(InUse \ {c}) \in Nat
      <4>1. Cardinality(InUse \ {c}) = Cardinality(InUse) - 1
        BY <1>2, FiniteCells, FS_RemoveElement
      <4> QED  BY <1>2, <4>1, FiniteCells
    <3> QED  BY <1>1, <1>2, <3>1, <3>2, FS_Singleton DEF DisposeCouplings, CountInv, CountsConsistent
  <2> QED  BY <2>2, <2>3, <2>4, <2>5 DEF CountInv, CountsConsistent
<1> QED  BY <1>3, <1>4

LEMMA KeepCounts ==
  ASSUME CountInv, InUse' = InUse, UNCHANGED <<cplTable, nCplTable, nCpls, nCplItems>>
  PROVE  CountInv'
BY DEF CountInv, CountsConsistent

LEMMA InvStep == ASSUME Inv, [Next]_vars PROVE Inv'
<1> USE DEF tables, memory
<1>1. SlotInv /\ ListInv /\ CountInv /\ useFreelist \in BOOLEAN
  BY DEF Inv, ListInv, ListType
<1>2. SlotInv'
  BY <1>1, SlotStep
<1>3. CASE UNCHANGED vars
  BY <1>1, <1>2, <1>3, KeepLists, KeepCounts DEF vars, Inv
<1>4. ASSUME NEW h \in Hdr, NEW q \in Proc, NEW prio \in Prio, AddCoupling(h, q, prio)
      PROVE  ListInv' /\ CountInv'
  BY <1>4, AddCouplingStep
<1>5. ASSUME NEW h \in Hdr, NEW q \in Proc, AddCouplingFails(h, q)
      PROVE  ListInv' /\ CountInv'
  BY <1>5, AddCouplingFailsStep
<1>6. ASSUME NEW h \in Hdr, NEW q \in Proc, NEW prio \in Prio, ModCoupling(h, q, prio)
      PROVE  ListInv' /\ CountInv'
  BY <1>1, <1>6, ModLists, KeepCounts DEF ModCoupling
<1>7. ASSUME NEW h \in Hdr, NEW q \in Proc, DelCoupling(h, q)
      PROVE  ListInv' /\ CountInv'
  BY <1>7, DelCouplingStep
<1>8. ASSUME NEW h \in Hdr, HdrConstructor(h)
      PROVE  ListInv' /\ CountInv'
  BY <1>1, <1>8, KeepLists, KeepCounts DEF HdrConstructor
<1>9. ASSUME NEW h \in Hdr, HdrDestructor(h)
      PROVE  ListInv' /\ CountInv'
  <2>1. CASE ObjHasCpl(h)
    BY <1>9, <2>1, UnregisterStep DEF HdrDestructor
  <2>2. CASE ~ObjHasCpl(h)
    BY <1>1, <1>9, <2>2, KeepLists, KeepCounts DEF HdrDestructor
  <2> QED  BY <2>1, <2>2
<1>10. ASSUME NEW new \in Hdr, NEW old \in Hdr, HdrConstructorMove(new, old)
       PROVE  ListInv' /\ CountInv'
  BY <1>1, <1>10, MoveLists, KeepCounts DEF HdrConstructorMove
<1>11. CASE SetOption
  BY <1>1, <1>2, <1>11, KeepLists, KeepCounts DEF SetOption, Inv
<1> QED  BY <1>2, <1>3, <1>4, <1>5, <1>6, <1>7, <1>8, <1>9, <1>10, <1>11 DEF Inv, Next

LEMMA InvInit == Init => Inv
<1> SUFFICES ASSUME Init PROVE Inv
  OBVIOUS
<1>1. SlotType
  BY Constants DEF Init, SlotType, Slots
<1>2. SlotsConsistent /\ TablesFit
  BY Constants DEF Init, SlotsConsistent, TablesFit, ObjHasCpl
<1>3. InUse = {}
  BY DEF Init, InUse
<1>4. ListType
  <2>1. (CHOOSE q \in Proc : TRUE) \in Proc /\ (CHOOSE r \in Prio : TRUE) \in Prio
    BY CplMgrAssumption
  <2> QED  BY <2>1 DEF Init, ListType, Record
<1>5. ListsConsistent /\ NoLeak
  BY <1>3 DEF Init, ListsConsistent, NoLeak
<1>6. CountInv
  BY <1>3, FS_EmptySet DEF Init, CountInv, CountsConsistent
<1> QED  BY <1>1, <1>2, <1>4, <1>5, <1>6 DEF Inv, SlotInv, ListInv

LEMMA InvHolds == Spec => []Inv
BY InvInit, InvStep, PTL DEF Spec

------------------------------------------------------------------------------
(* Every variable keeps its type. *)
THEOREM TypeCorrect == Spec => []TypeOK
<1>1. Inv => TypeOK
  BY DEF Inv, SlotInv, SlotType, ListInv, ListType, CountInv, TypeOK
<1> QED  BY <1>1, InvHolds, PTL

(* OBJ_INDEX and the tables refer to each other, and the tables are large    *)
(* enough, after any sequence of operations.                                 *)
THEOREM SlotsHold == Spec => [](SlotsConsistent /\ TablesFit)
<1>1. Inv => SlotsConsistent /\ TablesFit
  BY DEF Inv, SlotInv
<1> QED  BY <1>1, InvHolds, PTL

(* Each coupling record is in one list, owned by the header it points to; no *)
(* memory of segments is lost, however often the option is changed.          *)
THEOREM ListsHold == Spec => [](ListsConsistent /\ NoLeak)
<1>1. Inv => ListsConsistent /\ NoLeak
  BY DEF Inv, ListInv
<1> QED  BY <1>1, InvHolds, PTL

(* nCplTable and nCplItems count the couplings in the lists. *)
THEOREM CountsHold == Spec => []CountsConsistent
<1>1. Inv => CountsConsistent
  BY DEF Inv, CountInv
<1> QED  BY <1>1, InvHolds, PTL

------------------------------------------------------------------------------
(* A slot without couplings needs a failed allocation. *)

LEMMA SlotNotEmpty ==
  ASSUME ~NoMem, Inv, NoEmptySlot, [Next]_vars
  PROVE  NoEmptySlot'
<1> USE DEF tables
<1>1. SlotInv /\ ListInv /\ CountInv /\ ListType /\ ListsConsistent
  BY DEF Inv, ListInv
<1>2. CASE UNCHANGED <<cplTable, nCpls>>
  BY <1>2 DEF NoEmptySlot
<1>3. ASSUME NEW h \in Hdr, NEW q \in Proc, NEW prio \in Prio, AddCoupling(h, q, prio)
      PROVE  NoEmptySlot'
  <2>1. PICK c \in Cell : Register(h, {c})
    BY <1>3 DEF AddCoupling
  <2>2. {c} \in SUBSET Cell
    OBVIOUS
  <2>3. /\ cplTable'[Slot(h)] = ObjCplList(h) \cup {c}
        /\ \A i \in 0 .. nCpls' - 1 : i # Slot(h) => i \in 0 .. nCpls - 1 /\ cplTable'[i] = cplTable[i]
    BY <1>1, <2>1, <2>2, RegisteredLists
  <2> QED  BY <2>3 DEF NoEmptySlot
<1>4. ASSUME NEW h \in Hdr, ObjHasCpl(h), NEW mark, Unregister(h, mark)
      PROVE  NoEmptySlot'
  <2>1. \A i \in 0 .. nCpls' - 1 : \E j \in 0 .. nCpls - 1 : cplTable'[i] = cplTable[j]
    BY <1>1, <1>4, UnregisteredLists
  <2> QED  BY <2>1 DEF NoEmptySlot
<1>5. ASSUME NEW h \in Hdr, NEW q \in Proc, DelCoupling(h, q)
      PROVE  NoEmptySlot'
  <2>1. PICK c \in To(h, q) : IF ObjNCpl(h) = 1 THEN Unregister(h, Local) ELSE RemoveFromList(h, c)
    BY <1>5 DEF DelCoupling
  <2>2. ObjHasCpl(h) /\ c \in ObjCplList(h) /\ ObjCplList(h) = cplTable[index[h]]
    BY <2>1 DEF To, ObjCplList
  <2>3. CASE ObjNCpl(h) = 1
    BY <1>4, <2>1, <2>2, <2>3
  <2>4. CASE ObjNCpl(h) # 1
    <3>1. RemoveFromList(h, c)
      BY <2>1, <2>4
    <3>2. nCpls' = nCpls /\ \A i \in 0 .. nCpls - 1 : cplTable'[i] = cplTable[i] \ {c}
      BY <1>1, <2>2, <3>1, RemovedFromList DEF RemoveFromList
    <3>3. ObjCplList(h) # {c}
      BY <1>1, <2>4, ObjCounter, FS_Singleton
    <3>4. ASSUME NEW i \in 0 .. nCpls - 1 PROVE cplTable[i] \ {c} # {}
      <4>1. CASE i = index[h]
        BY <2>2, <3>3, <4>1
      <4>2. CASE i # index[h]
        <5>1. c \notin cplTable[i]
          BY <1>1, <2>2, <4>2, SlotOf DEF ListsConsistent
        <5> QED  BY <5>1 DEF NoEmptySlot
      <4> QED  BY <4>1, <4>2
    <3> QED  BY <3>2, <3>4 DEF NoEmptySlot
  <2> QED  BY <2>3, <2>4
<1>6. ASSUME NEW h \in Hdr, NEW q \in Proc, AddCouplingFails(h, q)
      PROVE  FALSE
  BY <1>6 DEF AddCouplingFails
<1>7. ASSUME NEW h \in Hdr, HdrDestructor(h)
      PROVE  NoEmptySlot'
  <2>1. CASE ObjHasCpl(h)
    BY <1>4, <1>7, <2>1 DEF HdrDestructor
  <2>2. CASE ~ObjHasCpl(h)
    BY <1>2, <1>7, <2>2 DEF HdrDestructor
  <2> QED  BY <2>1, <2>2
<1>8. ASSUME \/ \E h \in Hdr, q \in Proc, prio \in Prio : ModCoupling(h, q, prio)
             \/ \E h \in Hdr : HdrConstructor(h)
             \/ \E new, old \in Hdr : HdrConstructorMove(new, old)
             \/ SetOption
             \/ UNCHANGED vars
      PROVE  NoEmptySlot'
  BY <1>2, <1>8 DEF ModCoupling, HdrConstructor, HdrConstructorMove, SetOption, vars
<1> QED  BY <1>3, <1>5, <1>6, <1>7, <1>8 DEF Next

(* As long as memory for couplings is found, the registered objects are      *)
(* exactly those that have couplings.                                        *)
THEOREM NoEmptySlotHolds ==
  ASSUME ~NoMem
  PROVE  Spec => []NoEmptySlot
<1>1. Init => NoEmptySlot
  BY DEF Init, NoEmptySlot
<1>2. Inv /\ NoEmptySlot /\ [Next]_vars => NoEmptySlot'
  BY SlotNotEmpty
<1> QED  BY <1>1, <1>2, InvHolds, PTL DEF Spec

------------------------------------------------------------------------------
(* Every step of CplMgr is a step of CouplingLists or leaves it alone: the    *)
(* invariant gives each step its effect on the lists of all headers, and what *)
(* moves in the tables is the list of a header with that header.              *)


(* What a header sees of its couplings. *)

LEMMA ListOf ==
  ASSUME SlotInv, ListInv, NEW h \in Hdr
  PROVE  /\ ObjCplList(h) \in SUBSET Cell
         /\ \A c, d \in ObjCplList(h) : record[c].proc = record[d].proc => c = d
         /\ \A g \in Hdr : g # h => ObjCplList(g) \cap ObjCplList(h) = {}
<1>1. CASE ObjHasCpl(h)
  <2>1. index[h] \in 0 .. nCpls - 1 /\ index[h] \in Slots /\ objTable[index[h]] = h
    BY <1>1, SlotOf
  <2>2. ObjCplList(h) = cplTable[index[h]]
    BY <1>1 DEF ObjCplList
  <2>3. ASSUME NEW g \in Hdr, g # h PROVE ObjCplList(g) \cap ObjCplList(h) = {}
    <3>1. CASE ObjHasCpl(g)
      <4>1. index[g] \in 0 .. nCpls - 1 /\ index[g] # index[h]
        BY <2>1, <2>3, <3>1, SlotOf
      <4> QED  BY <2>1, <2>2, <3>1, <4>1 DEF ObjCplList, ListInv, ListsConsistent
    <3>2. CASE ~ObjHasCpl(g)
      BY <3>2 DEF ObjCplList
    <3> QED  BY <3>1, <3>2
  <2> QED  BY <2>1, <2>2, <2>3 DEF ListInv, ListType, ListsConsistent
<1>2. CASE ~ObjHasCpl(h)
  BY <1>2 DEF ObjCplList
<1> QED  BY <1>1, <1>2

LEMMA PrioOf ==
  ASSUME SlotInv, ListInv, NEW h \in Hdr, NEW c \in ObjCplList(h)
  PROVE  To(h, record[c].proc) = {c} /\ PrioAt(h, record[c].proc) = record[c].prio
<1>1. To(h, record[c].proc) = {c}
  BY ListOf DEF To
<1> QED  BY <1>1 DEF PrioAt

(* A coupling that is where it was, or in the list of another header, says   *)
(* the same as before.                                                       *)
SameRecords(C) == \A c \in C : record'[c].proc = record[c].proc /\ record'[c].prio = record[c].prio

LEMMA SamePrio ==
  ASSUME NEW h \in Hdr, NEW k \in Hdr, NEW q \in Proc, To(h, q)' = To(k, q), SameRecords(To(k, q))
  PROVE  PrioAt(h, q)' = PrioAt(k, q)
<1>1. CASE To(k, q) = {}
  BY <1>1 DEF PrioAt
<1>2. CASE To(k, q) # {}
  BY <1>2 DEF PrioAt, SameRecords
<1> QED  BY <1>1, <1>2

LEMMA SameList ==
  ASSUME NEW h \in Hdr, NEW k \in Hdr, ObjCplList(h)' = ObjCplList(k), SameRecords(ObjCplList(k))
  PROVE  \A q \in Proc : PrioAt(h, q)' = PrioAt(k, q)
<1> SUFFICES ASSUME NEW q \in Proc PROVE PrioAt(h, q)' = PrioAt(k, q)
  OBVIOUS
<1>1. To(h, q)' = To(k, q) /\ SameRecords(To(k, q))
  BY DEF To, SameRecords
<1> QED  BY <1>1, SamePrio

LEMMA NoList ==
  ASSUME NEW h \in Hdr, ObjCplList(h) = {}
  PROVE  \A q \in Proc : PrioAt(h, q) = NoPrio
BY DEF PrioAt, To

------------------------------------------------------------------------------
(* The lists after a change of the tables. *)

LEMMA RegisteredList ==
  ASSUME SlotInv, ListInv, NEW h \in Hdr, NEW C \in SUBSET Cell, ~IsHdrInvalid(h), Register(h, C)
  PROVE  /\ ObjCplList(h)' = ObjCplList(h) \cup C
         /\ \A g \in Hdr : g # h => ObjCplList(g)' = ObjCplList(g)
         /\ Constructed' = Constructed
<1>1. ListType
  BY DEF ListInv
<1>2. /\ Slot(h) \in 0 .. nCpls' - 1 /\ Slot(h) \in Slots
      /\ cplTable'[Slot(h)] = ObjCplList(h) \cup C
      /\ \A i \in 0 .. nCpls' - 1 : i # Slot(h) => i \in 0 .. nCpls - 1 /\ cplTable'[i] = cplTable[i]
  BY <1>1, RegisteredLists
<1>3. /\ index' = [index EXCEPT ![h] = Slot(h)] /\ index \in [Hdr -> 0 .. IntMax]
      /\ nCpls' = IF ObjHasCpl(h) THEN nCpls ELSE nCpls + 1
      /\ nCpls \in Nat /\ nCpls <= MaxCoupled /\ nCpls' <= MaxCoupled
  BY <1>2, Constants DEF Register, SlotInv, SlotType
<1>4. ObjCplList(h)' = ObjCplList(h) \cup C
  BY <1>2, <1>3 DEF ObjCplList, ObjHasCpl
<1>5. ASSUME NEW g \in Hdr, g # h
      PROVE  ObjCplList(g)' = ObjCplList(g)
  <2>1. index'[g] = index[g]
    BY <1>3, <1>5
  <2>2. CASE ObjHasCpl(g)
    <3>1. index[g] \in 0 .. nCpls - 1 /\ index[g] # Slot(h)
      BY <1>3, <1>5, <2>2, SlotOf DEF Slot
    <3>2. index[g] \in 0 .. nCpls' - 1
      BY <1>3, <3>1
    <3> QED  BY <1>2, <1>3, <2>1, <2>2, <3>1, <3>2 DEF ObjCplList, ObjHasCpl
  <2>3. CASE ~ObjHasCpl(g)
    <3>1. ~(index[g] < nCpls')
      BY <1>3, <2>3, SlotOf, Constants
    <3> QED  BY <2>1, <2>3, <3>1 DEF ObjCplList, ObjHasCpl
  <2> QED  BY <2>2, <2>3
<1>6. Constructed' = Constructed
  <2>1. index'[h] # Invalid
    BY <1>2, <1>3, Constants DEF Slots
  <2> QED  BY <1>3, <2>1 DEF Constructed, IsHdrInvalid
<1> QED  BY <1>4, <1>5, <1>6

LEMMA UnregisteredList ==
  ASSUME SlotInv, ListInv, NEW h \in Hdr, ObjHasCpl(h), NEW mark \in {Local, Invalid}, Unregister(h, mark)
  PROVE  /\ ObjCplList(h)' = {}
         /\ \A g \in Hdr : g # h => ObjCplList(g)' = ObjCplList(g)
         /\ Constructed' = IF mark = Invalid THEN Constructed \ {h} ELSE Constructed
<1> DEFINE last == nCpls - 1
           k == objTable[last]
<1>1. /\ nCpls \in Nat /\ last \in 0 .. nCpls - 1 /\ last \in Slots
      /\ k \in Hdr /\ index[k] = last
      /\ index[h] \in 0 .. last /\ index[h] \in Slots
      /\ index \in [Hdr -> 0 .. IntMax]
  BY SlotOf, Constants DEF SlotInv, SlotType, SlotsConsistent, Slots
<1>2. /\ index' = [index EXCEPT ![k] = index[h], ![h] = mark]
      /\ cplTable' = [cplTable EXCEPT ![index[h]] = cplTable[last]]
      /\ nCpls' = last
  BY DEF Unregister, MovedAndMarked, MoveLast
<1>3. cplTable \in [Slots -> SUBSET Cell]
  BY DEF ListInv, ListType
<1>4. index'[h] = mark /\ last <= MaxCoupled
  BY <1>1, <1>2, Constants DEF SlotInv, SlotType
<1>5. ~(mark < last)
  BY <1>1, <1>4, Constants
<1>6. ObjCplList(h)' = {}
  BY <1>2, <1>4, <1>5 DEF ObjCplList, ObjHasCpl
<1>7. ASSUME NEW g \in Hdr, g # h
      PROVE  ObjCplList(g)' = ObjCplList(g)
  <2>1. CASE g = k
    <3>1. index'[g] = index[h] /\ index[h] < last
      <4>1. index[h] # last
        BY <1>1, <1>7, <2>1, SlotOf
      <4> QED  BY <1>1, <1>2, <1>7, <2>1, <4>1
    <3>2. ObjCplList(g)' = cplTable[last]
      BY <1>1, <1>2, <1>3, <3>1 DEF ObjCplList, ObjHasCpl
    <3> QED  BY <1>1, <2>1, <3>2 DEF ObjCplList, ObjHasCpl
  <2>2. CASE g # k /\ ObjHasCpl(g)
    <3>1. index'[g] = index[g]
      BY <1>1, <1>2, <1>7, <2>2
    <3>2. index[g] \in 0 .. nCpls - 1 /\ index[g] \in Slots /\ index[g] # index[h] /\ index[g] # last
      BY <1>7, <2>2, SlotOf
    <3>3. index[g] < last
      BY <1>1, <3>2
    <3> QED  BY <1>2, <1>3, <2>2, <3>1, <3>2, <3>3 DEF ObjCplList, ObjHasCpl
  <2>3. CASE g # k /\ ~ObjHasCpl(g)
    <3>1. index'[g] = index[g] /\ ~(index[g] < last)
      BY <1>1, <1>2, <1>7, <2>3 DEF ObjHasCpl
    <3> QED  BY <1>2, <2>3, <3>1 DEF ObjCplList, ObjHasCpl
  <2> QED  BY <2>1, <2>2, <2>3
<1>8. Constructed' = IF mark = Invalid THEN Constructed \ {h} ELSE Constructed
  <2>1. ASSUME NEW g \in Hdr, g # h PROVE IsHdrInvalid(g)' <=> IsHdrInvalid(g)
    <3>1. CASE g = k
      BY <1>1, <1>2, <2>1, <3>1, Constants DEF IsHdrInvalid, Slots
    <3>2. CASE g # k
      BY <1>1, <1>2, <2>1, <3>2 DEF IsHdrInvalid
    <3> QED  BY <3>1, <3>2
  <2>2. ~IsHdrInvalid(h)
    BY <1>1, Constants DEF IsHdrInvalid, Slots
  <2>3. IsHdrInvalid(h)' <=> mark = Invalid
    BY <1>4 DEF IsHdrInvalid
  <2> QED  BY <2>1, <2>2, <2>3 DEF Constructed
<1> QED  BY <1>6, <1>7, <1>8

LEMMA RemovedList ==
  ASSUME SlotInv, ListInv, NEW h \in Hdr, NEW c \in ObjCplList(h), RemoveFromList(h, c)
  PROVE  /\ ObjCplList(h)' = ObjCplList(h) \ {c}
         /\ \A g \in Hdr : g # h => ObjCplList(g)' = ObjCplList(g)
         /\ Constructed' = Constructed
<1>1. /\ cplTable' = [cplTable EXCEPT ![index[h]] = @ \ {c}]
      /\ index' = index /\ nCpls' = nCpls /\ cplTable \in [Slots -> SUBSET Cell]
  BY DEF RemoveFromList, ListInv, ListType
<1>2. ObjHasCpl(h) /\ index[h] \in Slots /\ objTable[index[h]] = h
  BY SlotOf DEF ObjCplList
<1>3. ObjCplList(h)' = ObjCplList(h) \ {c}
  BY <1>1, <1>2 DEF ObjCplList, ObjHasCpl
<1>4. ASSUME NEW g \in Hdr, g # h
      PROVE  ObjCplList(g)' = ObjCplList(g)
  <2>1. ObjHasCpl(g) => index[g] # index[h] /\ index[g] \in Slots
    BY <1>2, <1>4, SlotOf
  <2> QED  BY <1>1, <2>1 DEF ObjCplList, ObjHasCpl
<1>5. Constructed' = Constructed
  BY <1>1 DEF Constructed, IsHdrInvalid
<1> QED  BY <1>3, <1>4, <1>5

LEMMA MovedList ==
  ASSUME SlotInv, NEW new \in Hdr, NEW old \in Hdr, HdrConstructorMove(new, old)
  PROVE  /\ new # old
         /\ ObjCplList(new)' = ObjCplList(old) /\ ObjCplList(old)' = {}
         /\ \A g \in Hdr : g \notin {new, old} => ObjCplList(g)' = ObjCplList(g)
         /\ Constructed' = (Constructed \ {old}) \cup {new}
<1>1. /\ index' = [index EXCEPT ![new] = index[old], ![old] = Invalid]
      /\ cplTable' = cplTable /\ nCpls' = nCpls
      /\ index[new] = Invalid /\ index[old] # Invalid
      /\ index \in [Hdr -> 0 .. IntMax] /\ nCpls \in 0 .. MaxCoupled
  BY DEF HdrConstructorMove, IsHdrInvalid, SlotInv, SlotType
<1>2. /\ index'[new] = index[old] /\ index'[old] = Invalid
      /\ \A g \in Hdr : g \notin {new, old} => index'[g] = index[g]
  BY <1>1
<1>3. ~(Invalid < nCpls)
  BY <1>1, Constants
<1>4. ObjCplList(new)' = ObjCplList(old) /\ ObjCplList(old)' = {}
  BY <1>1, <1>2, <1>3 DEF ObjCplList, ObjHasCpl
<1>5. ASSUME NEW g \in Hdr, g \notin {new, old} PROVE ObjCplList(g)' = ObjCplList(g)
  BY <1>1, <1>2, <1>5 DEF ObjCplList, ObjHasCpl
<1>6. Constructed' = (Constructed \ {old}) \cup {new}
  BY <1>1, <1>2 DEF Constructed, IsHdrInvalid
<1> QED  BY <1>1, <1>4, <1>5, <1>6

(* A header without couplings gets another mark. *)
LEMMA MarkedList ==
  ASSUME SlotInv, NEW h \in Hdr, ~ObjHasCpl(h), NEW mark \in {Local, Invalid},
         index' = [index EXCEPT ![h] = mark], UNCHANGED <<cplTable, nCpls>>
  PROVE  /\ \A g \in Hdr : ObjCplList(g)' = ObjCplList(g)
         /\ Constructed' = IF mark = Invalid THEN Constructed \ {h} ELSE Constructed \cup {h}
<1>1. index \in [Hdr -> 0 .. IntMax] /\ nCpls \in 0 .. MaxCoupled
  BY DEF SlotInv, SlotType
<1>2. ~(mark < nCpls)
  BY <1>1, Constants
<1>3. ASSUME NEW g \in Hdr PROVE ObjCplList(g)' = ObjCplList(g)
  BY <1>1, <1>2 DEF ObjCplList, ObjHasCpl
<1>4. Constructed' = IF mark = Invalid THEN Constructed \ {h} ELSE Constructed \cup {h}
  BY <1>1, Constants DEF Constructed, IsHdrInvalid
<1> QED  BY <1>3, <1>4
------------------------------------------------------------------------------
(* The steps, seen in the coupling lists. *)

(* One entry changes. *)
LEMMA OneCoupling ==
  ASSUME NEW h \in Hdr, NEW q \in Proc, NEW p,
         \A r \in Proc : PrioAt(h, r)' = IF r = q THEN p ELSE PrioAt(h, r),
         \A g \in Hdr : g # h => \A r \in Proc : PrioAt(g, r)' = PrioAt(g, r)
  PROVE  Couplings' = [Couplings EXCEPT ![h][q] = p]
BY DEF Couplings

(* All entries of a header go. *)
LEMMA NoCouplingsLeft ==
  ASSUME NEW h \in Hdr, ObjCplList(h)' = {},
         \A g \in Hdr : g # h => \A r \in Proc : PrioAt(g, r)' = PrioAt(g, r)
  PROVE  Couplings' = [Couplings EXCEPT ![h] = Lists!NoCouplings]
<1>1. \A r \in Proc : PrioAt(h, r)' = NoPrio
  BY DEF PrioAt, To
<1> QED  BY <1>1 DEF Couplings, Lists!NoCouplings

LEMMA SameCouplings ==
  ASSUME \A g \in Hdr : ObjCplList(g)' = ObjCplList(g), record' = record
  PROVE  Couplings' = Couplings
<1>1. \A g \in Hdr : \A r \in Proc : PrioAt(g, r)' = PrioAt(g, r)
  BY SameList DEF SameRecords
<1> QED  BY <1>1 DEF Couplings

LEMMA AddCouplingSets ==
  ASSUME Inv, NEW h \in Hdr, NEW q \in Proc, NEW prio \in Prio, AddCoupling(h, q, prio)
  PROVE  Lists!Set(h, q, prio)
<1>1. PICK c \in Cell : NewCoupling(c, h, q, prio) /\ Register(h, {c})
  BY DEF AddCoupling
<1>2. /\ SlotInv /\ ListInv /\ {c} \in SUBSET Cell
      /\ ~IsHdrInvalid(h) /\ To(h, q) = {} /\ useFreelist' = useFreelist
  BY DEF Inv, AddCoupling
<1>3. c \notin InUse /\ \A g \in Hdr : ObjCplList(g) \in SUBSET InUse
  BY <1>1, <1>2, NewCouplingStep, UsedCells DEF ListInv
<1>4. /\ record'[c] = [obj |-> h, proc |-> q, prio |-> prio, fromFreelist |-> useFreelist]
      /\ \A d \in Cell : d # c => record'[d] = record[d]
  BY <1>1 DEF NewCoupling, ListInv, ListType, Record, Inv
<1>5. \A g \in Hdr : SameRecords(ObjCplList(g))
  BY <1>2, <1>3, <1>4, ListOf DEF SameRecords
<1>6. /\ ObjCplList(h)' = ObjCplList(h) \cup {c}
      /\ \A g \in Hdr : g # h => ObjCplList(g)' = ObjCplList(g)
      /\ Constructed' = Constructed
  BY <1>1, <1>2, RegisteredList
<1>7. \A g \in Hdr : g # h => \A r \in Proc : PrioAt(g, r)' = PrioAt(g, r)
  BY <1>5, <1>6, SameList
<1>8. PrioAt(h, q)' = prio
  <2>1. To(h, q)' = {c}
    BY <1>2, <1>4, <1>5, <1>6 DEF To, SameRecords
  <2> QED  BY <1>4, <2>1 DEF PrioAt
<1>9. ASSUME NEW r \in Proc, r # q PROVE PrioAt(h, r)' = PrioAt(h, r)
  <2>1. To(h, r)' = To(h, r) /\ SameRecords(To(h, r))
    BY <1>4, <1>5, <1>6, <1>9 DEF To, SameRecords
  <2> QED  BY <2>1, SamePrio
<1>10. Couplings' = [Couplings EXCEPT ![h][q] = prio]
  BY <1>7, <1>8, <1>9, OneCoupling
<1> QED  BY <1>2, <1>6, <1>10 DEF Lists!Set, Constructed

LEMMA AddCouplingFailsStutters ==
  ASSUME Inv, NEW h \in Hdr, NEW q \in Proc, AddCouplingFails(h, q)
  PROVE  Constructed' = Constructed /\ Couplings' = Couplings
<1>1. SlotInv /\ ListInv /\ {} \in SUBSET Cell /\ ~IsHdrInvalid(h) /\ Register(h, {}) /\ record' = record
  BY DEF Inv, AddCouplingFails
<1>2. Constructed' = Constructed /\ \A g \in Hdr : ObjCplList(g)' = ObjCplList(g)
  BY <1>1, RegisteredList
<1> QED  BY <1>1, <1>2, SameCouplings

LEMMA ModCouplingSets ==
  ASSUME Inv, NEW h \in Hdr, NEW q \in Proc, NEW prio \in Prio, ModCoupling(h, q, prio)
  PROVE  Lists!Set(h, q, prio)
<1>1. PICK c \in To(h, q) : record' = [record EXCEPT ![c].prio = prio]
  BY DEF ModCoupling
<1>2. /\ SlotInv /\ ListInv /\ ~IsHdrInvalid(h)
      /\ UNCHANGED <<index, cplTable, nCpls>>
  BY DEF Inv, ModCoupling, tables
<1>3. \A g \in Hdr : ObjCplList(g)' = ObjCplList(g)
  BY <1>2 DEF ObjCplList, ObjHasCpl
<1>4. c \in ObjCplList(h) /\ record[c].proc = q /\ c \in Cell
  BY <1>2, ListOf DEF To
<1>5. /\ record \in [Cell -> Record]
      /\ record'[c].proc = q /\ record'[c].prio = prio
      /\ \A d \in Cell : d # c => record'[d] = record[d]
  BY <1>1, <1>2, <1>4 DEF ListInv, ListType, Record
<1>6. ASSUME NEW g \in Hdr, g # h, NEW r \in Proc PROVE PrioAt(g, r)' = PrioAt(g, r)
  <2>1. ObjCplList(g) \in SUBSET Cell /\ c \notin ObjCplList(g)
    BY <1>2, <1>4, <1>6, ListOf
  <2> QED  BY <1>3, <1>5, <2>1, SameList DEF SameRecords
<1>7. PrioAt(h, q)' = prio
  <2>1. To(h, q) = {c}
    BY <1>2, <1>4, PrioOf
  <2>2. To(h, q)' = {c}
    BY <1>2, <1>3, <1>4, <1>5, <2>1, ListOf DEF To
  <2> QED  BY <1>5, <2>2 DEF PrioAt
<1>8. ASSUME NEW r \in Proc, r # q PROVE PrioAt(h, r)' = PrioAt(h, r)
  <2>1. To(h, r)' = To(h, r) /\ SameRecords(To(h, r))
    BY <1>2, <1>3, <1>4, <1>5, <1>8, ListOf DEF To, SameRecords
  <2> QED  BY <2>1, SamePrio
<1>9. Couplings' = [Couplings EXCEPT ![h][q] = prio]
  BY <1>6, <1>7, <1>8, OneCoupling
<1>10. Constructed' = Constructed
  BY <1>2 DEF Constructed, IsHdrInvalid
<1> QED  BY <1>2, <1>9, <1>10 DEF Lists!Set, Constructed

LEMMA DelCouplingDeletes ==
  ASSUME Inv, NEW h \in Hdr, NEW q \in Proc, DelCoupling(h, q)
  PROVE  Lists!Delete(h, q)
<1>1. PICK c \in To(h, q) : IF ObjNCpl(h) = 1 THEN Unregister(h, Local) ELSE RemoveFromList(h, c)
  BY DEF DelCoupling
<1>2. /\ SlotInv /\ ListInv /\ CountInv /\ ~IsHdrInvalid(h) /\ record' = record
      /\ c \in ObjCplList(h) /\ record[c].proc = q /\ ObjHasCpl(h)
  BY <1>1 DEF Inv, DelCoupling, To, ObjCplList
<1>3. /\ ObjCplList(h)' = ObjCplList(h) \ {c}
      /\ \A g \in Hdr : g # h => ObjCplList(g)' = ObjCplList(g)
      /\ Constructed' = Constructed
  <2>1. CASE ObjNCpl(h) = 1
    <3>1. ObjCplList(h) = {c}
      <4>1. Cardinality(ObjCplList(h)) = 1 /\ IsFiniteSet(ObjCplList(h))
        BY <1>2, <2>1, ObjCounter, ListOf, FiniteCells
      <4> QED  BY <1>2, <4>1, FS_Singleton
    <3>2. Unregister(h, Local) /\ Local # Invalid
      BY <1>1, <2>1, Constants
    <3> QED  BY <1>2, <3>1, <3>2, UnregisteredList
  <2>2. CASE ObjNCpl(h) # 1
    BY <1>1, <1>2, <2>2, RemovedList
  <2> QED  BY <2>1, <2>2
<1>4. \A g \in Hdr : g # h => \A r \in Proc : PrioAt(g, r)' = PrioAt(g, r)
  BY <1>2, <1>3, SameList DEF SameRecords
<1>5. PrioAt(h, q)' = NoPrio
  <2>1. To(h, q) = {c}
    BY <1>2, PrioOf
  <2>2. To(h, q)' = {}
    BY <1>2, <1>3, <2>1 DEF To
  <2> QED  BY <2>2 DEF PrioAt
<1>6. ASSUME NEW r \in Proc, r # q PROVE PrioAt(h, r)' = PrioAt(h, r)
  <2>1. To(h, r)' = To(h, r) /\ SameRecords(To(h, r))
    BY <1>2, <1>3, <1>6 DEF To, SameRecords
  <2> QED  BY <2>1, SamePrio
<1>7. Couplings' = [Couplings EXCEPT ![h][q] = NoPrio]
  BY <1>4, <1>5, <1>6, OneCoupling
<1> QED  BY <1>2, <1>3, <1>7 DEF Lists!Delete, Constructed

LEMMA HdrConstructorConstructs ==
  ASSUME Inv, NEW h \in Hdr, HdrConstructor(h)
  PROVE  Lists!Construct(h)
<1>1. /\ SlotInv /\ IsHdrInvalid(h) /\ record' = record
      /\ index' = [index EXCEPT ![h] = Local] /\ UNCHANGED <<cplTable, nCpls>>
  BY DEF Inv, HdrConstructor, tables
<1>2. ~ObjHasCpl(h) /\ Local # Invalid
  BY <1>1, Constants DEF IsHdrInvalid, ObjHasCpl, SlotInv, SlotType
<1>3. Constructed' = Constructed \cup {h} /\ \A g \in Hdr : ObjCplList(g)' = ObjCplList(g)
  BY <1>1, <1>2, MarkedList
<1>4. Couplings' = Couplings
  BY <1>1, <1>3, SameCouplings
<1> QED  BY <1>1, <1>3, <1>4 DEF Lists!Construct, Constructed

LEMMA HdrDestructorDestructs ==
  ASSUME Inv, NEW h \in Hdr, HdrDestructor(h)
  PROVE  Lists!Destruct(h)
<1>1. SlotInv /\ ListInv /\ ~IsHdrInvalid(h) /\ record' = record
  BY DEF Inv, HdrDestructor
<1>2. /\ ObjCplList(h)' = {}
      /\ \A g \in Hdr : g # h => ObjCplList(g)' = ObjCplList(g)
      /\ Constructed' = Constructed \ {h}
  <2>1. CASE ObjHasCpl(h)
    BY <1>1, <2>1, UnregisteredList DEF HdrDestructor
  <2>2. CASE ~ObjHasCpl(h)
    <3>1. index' = [index EXCEPT ![h] = Invalid] /\ UNCHANGED <<cplTable, nCpls>>
      BY <2>2 DEF HdrDestructor, tables
    <3>2. ObjCplList(h) = {}
      BY <2>2 DEF ObjCplList
    <3> QED  BY <1>1, <2>2, <3>1, <3>2, MarkedList
  <2> QED  BY <2>1, <2>2
<1>3. \A g \in Hdr : g # h => \A r \in Proc : PrioAt(g, r)' = PrioAt(g, r)
  BY <1>1, <1>2, SameList DEF SameRecords
<1>4. Couplings' = [Couplings EXCEPT ![h] = Lists!NoCouplings]
  BY <1>2, <1>3, NoCouplingsLeft
<1> QED  BY <1>1, <1>2, <1>4 DEF Lists!Destruct, Constructed

LEMMA HdrConstructorMoveMoves ==
  ASSUME Inv, NEW new \in Hdr, NEW old \in Hdr, HdrConstructorMove(new, old)
  PROVE  Lists!Move(new, old)
<1>1. /\ SlotInv /\ ListInv /\ IsHdrInvalid(new) /\ ~IsHdrInvalid(old)
      /\ record' = RecordMoved(new, old)
  BY DEF Inv, HdrConstructorMove
<1>2. /\ new # old
      /\ ObjCplList(new)' = ObjCplList(old) /\ ObjCplList(old)' = {}
      /\ \A g \in Hdr : g \notin {new, old} => ObjCplList(g)' = ObjCplList(g)
      /\ Constructed' = (Constructed \ {old}) \cup {new}
  BY <1>1, MovedList
<1>3. \A g \in Hdr : SameRecords(ObjCplList(g))
  <2>1. \A c \in Cell : record'[c].proc = record[c].proc /\ record'[c].prio = record[c].prio
    BY <1>1 DEF RecordMoved, ListInv, ListType, Record
  <2> QED  BY <1>1, <2>1, ListOf DEF SameRecords
<1>4. \A r \in Proc : PrioAt(new, r)' = PrioAt(old, r)
  BY <1>2, <1>3, SameList
<1>5. \A r \in Proc : PrioAt(old, r)' = NoPrio
  BY <1>2 DEF PrioAt, To
<1>6. \A g \in Hdr : g \notin {new, old} => \A r \in Proc : PrioAt(g, r)' = PrioAt(g, r)
  BY <1>2, <1>3, SameList
<1>7. Couplings' = [Couplings EXCEPT ![new] = Couplings[old], ![old] = Lists!NoCouplings]
  BY <1>2, <1>4, <1>5, <1>6 DEF Couplings, Lists!NoCouplings
<1> QED  BY <1>1, <1>2, <1>7 DEF Lists!Move, Constructed

------------------------------------------------------------------------------
LEMMA StepRefines ==
  ASSUME Inv, [Next]_vars
  PROVE  [Lists!Next]_(Lists!vars)
<1>1. CASE UNCHANGED vars
  <2>1. UNCHANGED <<index, cplTable, nCpls, record>>
    BY <1>1 DEF vars, tables
  <2>2. \A g \in Hdr : ObjCplList(g)' = ObjCplList(g)
    BY <2>1 DEF ObjCplList, ObjHasCpl
  <2>3. Constructed' = Constructed
    BY <2>1 DEF Constructed, IsHdrInvalid
  <2> QED  BY <2>1, <2>2, <2>3, SameCouplings DEF Lists!vars
<1>2. ASSUME NEW h \in Hdr, NEW q \in Proc, NEW prio \in Prio, AddCoupling(h, q, prio) \/ ModCoupling(h, q, prio)
      PROVE  Lists!Next
  BY <1>2, AddCouplingSets, ModCouplingSets DEF Lists!Next
<1>3. ASSUME NEW h \in Hdr, NEW q \in Proc, AddCouplingFails(h, q)
      PROVE  UNCHANGED Lists!vars
  BY <1>3, AddCouplingFailsStutters DEF Lists!vars
<1>4. ASSUME NEW h \in Hdr, NEW q \in Proc, DelCoupling(h, q)
      PROVE  Lists!Next
  BY <1>4, DelCouplingDeletes DEF Lists!Next
<1>5. ASSUME NEW h \in Hdr, HdrConstructor(h) \/ HdrDestructor(h)
      PROVE  Lists!Next
  BY <1>5, HdrConstructorConstructs, HdrDestructorDestructs DEF Lists!Next
<1>6. ASSUME NEW new \in Hdr, NEW old \in Hdr, HdrConstructorMove(new, old)
      PROVE  Lists!Next
  BY <1>6, HdrConstructorMoveMoves DEF Lists!Next
<1>7. CASE SetOption
  <2>1. UNCHANGED <<index, cplTable, nCpls, record>>
    BY <1>7 DEF SetOption, tables
  <2>2. \A g \in Hdr : ObjCplList(g)' = ObjCplList(g)
    BY <2>1 DEF ObjCplList, ObjHasCpl
  <2>3. Constructed' = Constructed
    BY <2>1 DEF Constructed, IsHdrInvalid
  <2> QED  BY <2>1, <2>2, <2>3, SameCouplings DEF Lists!vars
<1> QED  BY <1>1, <1>2, <1>3, <1>4, <1>5, <1>6, <1>7 DEF Next

(* Whatever moves in the tables, each operation of the coupling manager      *)
(* changes the coupling list of its own object only, and as CouplingLists    *)
(* says; an AddCoupling that fails and a change of the option change none.   *)
THEOREM CouplingListsImplemented == Spec => ImplementsCouplingLists
<1>1. Init => Lists!Init
  <2> SUFFICES ASSUME Init PROVE Lists!Init
    OBVIOUS
  <2>1. \A h \in Hdr : ObjCplList(h) = {}
    BY Constants DEF Init, ObjCplList, ObjHasCpl
  <2>2. \A h \in Hdr : \A q \in Proc : PrioAt(h, q) = NoPrio
    BY <2>1, NoList
  <2>3. Constructed = {}
    BY DEF Init, Constructed, IsHdrInvalid
  <2> QED  BY <2>2, <2>3 DEF Lists!Init, Lists!NoCouplings, Couplings
<1>2. Inv /\ [Next]_vars => [Lists!Next]_(Lists!vars)
  BY StepRefines
<1> QED  BY <1>1, <1>2, InvHolds, PTL DEF Spec, ImplementsCouplingLists, Lists!Spec
==============================================================================
