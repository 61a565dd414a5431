------------------------ MODULE Partitioning_proofs -------------------------
(***************************************************************************)
(* Proofs about the distribution of a multigrid, for any hierarchy that     *)
(* IsMesh allows and any number of processors: that the overlap is right    *)
(* whatever is moved, and that calling RestrictPartitioning once per level  *)
(* repairs every distribution.                                              *)
(*                                                                         *)
(* Why one call per level is enough: the regular elements of a level do not *)
(* move any more when the levels above have been repaired.  Below a regular *)
(* element the irregular ones form chains, one for each leaf.  A call may   *)
(* move both an element and its father, so the place where a chain is       *)
(* interrupted need not be repaired; but nothing is taken apart, and among  *)
(* the places where sons move there is a coarsest one, where the father     *)
(* stays.  There the sons arrive.                                           *)
(***************************************************************************)
EXTENDS Partitioning, FiniteSetTheorems, WellFoundedInduction, TLAPS

(* Where the master of e goes. *)
Dest(e) == partition[Home(e)][e]

-------------------------------------------------------------------------------
(* The invariant.                                                            *)

TypeInv ==
    /\ mesh \in Meshes
    /\ prio \in [Proc -> [Elem -> Prio \cup {NoPrio}]]
    /\ partition \in [Proc -> [Elem -> Proc \cup {NoDest}]]
    /\ pc \in {"balance", "adapt", "flag", "push", "dests", "xfer", "prios", "adapted"}
    /\ pc \in {"flag", "push"} => level \in Nat
    /\ calls \in Nat
    /\ pc \in {"balance", "adapt"} => calls = 0
    /\ pc \in {"flag", "push", "adapted"} => calls > 0
    /\ pc = "adapted" => calls >= TOPLEVEL

OneMaster == \A e \in mesh.elem : \E p \in Proc : \A q \in Proc : EMASTER(q, e) <=> q = p

(* Ghosts are where they are needed; before SetGhostObjectPriorities their   *)
(* priorities may be others.                                                 *)
GhostsRight ==
    \A p \in Proc, e \in mesh.elem :
        IF pc = "prios" THEN prio[p][e] # NoPrio <=> NeededPrio(p, e) # NoPrio
                        ELSE prio[p][e] = NeededPrio(p, e)

(* What the copies know of the destination of their master. *)
DestsRight ==
    \A p \in Proc : \A e \in Local(p) :
        /\ partition[p][e] \in Proc
        /\ pc \in {"balance", "adapt", "flag", "prios", "adapted"} => partition[p][e] = Home(e)
        /\ pc = "push" /\ ~EMASTER(p, e) => partition[p][e] = Home(e)
        /\ pc = "xfer" => partition[p][e] = Dest(e)

OverlapInv == OneMaster /\ GhostsRight /\ DestsRight

(* In the second loop of RestrictPartitioning an element goes to where its   *)
(* USED father was, if that is a ghost, and with its father if not.          *)
Target(x) ==
    LET p == Home(x)
        f == EFATHER(x)
    IN  IF f \notin used[p] THEN p ELSE IF EMASTER(p, f) THEN Dest(f) ELSE Home(f)

MovedUpTo(l) ==
    \A x \in mesh.elem :
        /\ LEVEL(x) > l \/ LEVEL(x) = 0 => Dest(x) = Home(x)
        /\ 0 < LEVEL(x) /\ LEVEL(x) <= l =>
              Dest(x) = Target(x) /\ (EFATHER(x) \in used[Home(x)] => x \in used[Home(x)])

PushInv == pc = "push" => MovedUpTo(level)

(* Masters on one processor that are father and son go to the same one. *)
FamiliesTogether ==
    \A p \in Proc : \A x \in Masters(p) :
        LEVEL(x) > 0 /\ EMASTER(p, EFATHER(x)) => partition[p][x] = partition[p][EFATHER(x)]

(* What leaf e needs and does not have on its processor. *)
Missing(p, e) ==
    LET a == Regular(p, e)
    IN  CoarsenNeeds(p, a) \cup (IF EMASTER(p, a) THEN {} ELSE {a})

LeavesFlagged ==
    pc \in {"flag", "push"} =>
        \A p \in Proc : \A e \in Masters(p) :
            LEAFELEM(e) /\ LEVEL(e) > 0 /\ (pc = "push" \/ LEVEL(e) > level) => Missing(p, e) \subseteq used[p]

(* The regular elements of the coarsest levels do not move any more: one     *)
(* level more with every call.                                               *)
Calm ==
    pc \in {"flag", "push"} =>
        \A p \in Proc, x \in mesh.elem :
            mesh.class[x] = "RED" /\ 0 < LEVEL(x) /\ LEVEL(x) <= calls => EFATHER(x) \notin used[p]

(* The elements up to e that are not together with their fathers but should  *)
(* be, when masters are where H says.                                        *)
Apart(H, e) == {x \in Line[e] : mesh.class[x] # "RED" /\ H[x] # H[EFATHER(x)]}

(* What c calls have achieved. *)
Repaired(H, c) ==
    /\ \A e \in mesh.elem : LEAFELEM(e) /\ (\A r \in Line[e] : mesh.class[r] = "RED" => LEVEL(r) <= c) =>
          Apart(H, e) = {} \/ Cardinality(Apart(H, e)) <= LEVEL(e) - c
    /\ \A x \in mesh.coarsen : mesh.class[x] = "RED" /\ 1 < LEVEL(x) /\ LEVEL(x) <= c + 1 =>
          H[x] = H[EFATHER(x)]

Homes == [x \in mesh.elem |-> Home(x)]
Dests == [x \in mesh.elem |-> Dest(x)]

RepairInv ==
    /\ pc \in {"flag", "push"} => Repaired(Homes, calls - 1)
    /\ pc \in {"dests", "xfer"} /\ calls > 0 => Repaired(Dests, calls)
    /\ pc \in {"prios", "adapted"} /\ calls > 0 => Repaired(Homes, calls)

TogetherInv == pc = "dests" /\ calls > 0 => FamiliesTogether

IInv == /\ TypeInv /\ OverlapInv
        /\ PushInv /\ LeavesFlagged /\ Calm /\ RepairInv /\ TogetherInv

-------------------------------------------------------------------------------
(* Hierarchies.                                                              *)

LEMMA Smallest ==
  ASSUME NEW S \in SUBSET Nat, S # {}
  PROVE  \E n \in S : \A m \in S : n <= m
<1> DEFINE Less == {pair \in Nat \X Nat : pair[1] < pair[2]}
<1>1. OpToRel(<, Nat) = Less
  BY DEF OpToRel
<1>2. IsWellFoundedOn(Less, Nat)
  BY <1>1, NatLessThanWellFounded
<1>3. PICK n \in S : \A m \in S : ~ (<<m, n>> \in Less)
  BY <1>2, WFMin
<1>4. \A m \in S : ~ (m < n)
  BY <1>3
<1> QED  BY <1>4

LEMMA ElemFacts ==
  ASSUME mesh \in Meshes
  PROVE  /\ mesh.elem \subseteq Elem /\ mesh.elem # {} /\ IsFiniteSet(mesh.elem)
         /\ NoElem \notin mesh.elem
         /\ mesh.coarsen \subseteq mesh.elem
         /\ \A e \in mesh.elem :
               /\ LEVEL(e) \in Nat
               /\ LEVEL(e) = 0 => EFATHER(e) = NoElem /\ mesh.class[e] = "RED"
               /\ LEVEL(e) > 0 => EFATHER(e) \in mesh.elem /\ LEVEL(EFATHER(e)) = LEVEL(e) - 1
               /\ EFATHER(e) # NoElem => LEVEL(e) > 0
         /\ \A e \in mesh.coarsen : LEAFELEM(e)
<1>1. IsMesh(mesh)
  BY MeshAssumption
<1>2. mesh.elem \subseteq Elem /\ mesh.elem # {} /\ IsFiniteSet(mesh.elem) /\ mesh.coarsen \subseteq mesh.elem
  BY <1>1 DEF IsMesh
<1>3. NoElem \notin mesh.elem
  BY <1>2, NameAssumption
<1>4. ASSUME NEW e \in mesh.elem
      PROVE  /\ LEVEL(e) \in Nat
             /\ LEVEL(e) = 0 => EFATHER(e) = NoElem /\ mesh.class[e] = "RED"
             /\ LEVEL(e) > 0 => EFATHER(e) \in mesh.elem /\ LEVEL(EFATHER(e)) = LEVEL(e) - 1
             /\ EFATHER(e) # NoElem => LEVEL(e) > 0
  <2>1. /\ mesh.level[e] \in Nat /\ mesh.father[e] \in mesh.elem \cup {NoElem}
        /\ IF mesh.level[e] = 0 THEN mesh.father[e] = NoElem /\ mesh.class[e] = "RED"
           ELSE mesh.father[e] # NoElem /\ mesh.level[mesh.father[e]] = mesh.level[e] - 1
    BY <1>1 DEF IsMesh
  <2> QED  BY <2>1 DEF LEVEL, EFATHER
<1>5. \A e \in mesh.coarsen : LEAFELEM(e)
  BY <1>1 DEF IsMesh, LEAFELEM, EFATHER
<1> QED  BY <1>2, <1>3, <1>4, <1>5

(* Sons of one father are of one kind, and those of an irregular father are  *)
(* irregular and alone.                                                      *)
LEMMA ClassFacts ==
  ASSUME mesh \in Meshes, NEW x \in mesh.elem, LEVEL(x) > 0
  PROVE  /\ mesh.class[EFATHER(x)] # "RED" => mesh.class[x] # "RED"
         /\ \A y \in mesh.elem : EFATHER(y) = EFATHER(x) => mesh.class[y] = mesh.class[x]
<1>1. IsMesh(mesh)
  BY MeshAssumption
<1>2. EFATHER(x) # NoElem
  BY ElemFacts
<1>3. mesh.class[EFATHER(x)] # "RED" => mesh.class[x] = "YELLOW"
  BY <1>1, <1>2 DEF IsMesh, EFATHER
<1>4. \A y \in mesh.elem : y # x /\ EFATHER(y) = EFATHER(x) => mesh.class[y] = mesh.class[x]
  BY <1>1, <1>2 DEF IsMesh, EFATHER
<1> QED  BY <1>3, <1>4

LEMMA NeighborFacts ==
  ASSUME mesh \in Meshes, NEW e, NEW n, {e, n} \in mesh.neighbor
  PROVE  e \in mesh.elem /\ n \in mesh.elem
<1>1. IsMesh(mesh)
  BY MeshAssumption
<1> QED  BY <1>1 DEF IsMesh

LEMMA TopLevel ==
  ASSUME mesh \in Meshes
  PROVE  TOPLEVEL \in Nat /\ \A e \in mesh.elem : LEVEL(e) <= TOPLEVEL
<1> DEFINE Levels == {LEVEL(e) : e \in mesh.elem}
           Free == {n \in Nat : \A l \in Levels : l <= n}
           Ids == {s \in SUBSET mesh.elem : \E n \in Nat : \A e \in s : LEVEL(e) <= n}
<1>1. Levels \in SUBSET Nat /\ Levels # {}
  BY ElemFacts
<1>2. Free # {}
  <2> DEFINE Sub == SUBSET mesh.elem
             Bad == {Cardinality(s) : s \in {t \in Sub : ~ \E n \in Nat : \A e \in t : LEVEL(e) <= n}}
  <2>1. \A s \in Sub : IsFiniteSet(s) /\ Cardinality(s) \in Nat
    BY ElemFacts, FS_Subset, FS_CardinalityType
  <2>2. SUFFICES ASSUME Bad # {} PROVE FALSE
    <3>1. mesh.elem \in Sub
      OBVIOUS
    <3>2. PICK n \in Nat : \A e \in mesh.elem : LEVEL(e) <= n
      BY <2>2, <3>1
    <3> QED  BY <3>2
  <2>3. PICK k \in Bad : \A m \in Bad : k <= m
    <3>1. Bad \in SUBSET Nat
      BY <2>1
    <3> HIDE DEF Bad
    <3> QED  BY <2>2, <3>1, Smallest
  <2>4. PICK s \in Sub : k = Cardinality(s) /\ ~ \E n \in Nat : \A e \in s : LEVEL(e) <= n
    BY <2>3
  <2>5. PICK x \in s : TRUE
    <3>1. 0 \in Nat
      OBVIOUS
    <3> QED  BY <2>4, <3>1
  <2>6. Cardinality(s \ {x}) = k - 1 /\ k \in Nat /\ s \ {x} \in Sub
    BY <2>1, <2>4, <2>5, FS_RemoveElement
  <2>7. Cardinality(s \ {x}) \notin Bad
    <3> HIDE DEF Bad
    <3> QED  BY <2>3, <2>6
  <2>8. PICK n \in Nat : \A e \in s \ {x} : LEVEL(e) <= n
    BY <2>6, <2>7
  <2>9. x \in mesh.elem /\ LEVEL(x) \in Nat
    BY <2>5, ElemFacts
  <2>10. \A e \in s : LEVEL(e) \in Nat
    BY ElemFacts
  <2> DEFINE m == IF LEVEL(x) <= n THEN n ELSE LEVEL(x)
  <2>11. m \in Nat /\ \A e \in s : LEVEL(e) <= m
    BY <2>8, <2>9, <2>10
  <2> HIDE DEF m
  <2> QED  BY <2>4, <2>11
<1>3. PICK n \in Free : \A m \in Free : n <= m
  BY <1>2, Smallest
<1>4. n \in Levels
  <2>1. CASE n = 0
    BY <1>1, <1>3, <2>1
  <2>2. CASE n # 0
    <3>1. n - 1 \in Nat /\ n - 1 \notin Free
      BY <1>3, <2>2
    <3>2. PICK l \in Levels : ~(l <= n - 1)
      BY <3>1
    <3>3. l \in Nat /\ l <= n
      BY <1>1, <1>3
    <3>4. l = n
      BY <1>3, <3>2, <3>3
    <3> QED  BY <3>4
  <2> QED  BY <2>1, <2>2
<1>5. TOPLEVEL = Max(Levels)
  BY DEF TOPLEVEL
<1> HIDE DEF Levels
<1>6. Max(Levels) \in Levels /\ \A l \in Levels : l <= Max(Levels)
  BY <1>1, <1>3, <1>4 DEF Max
<1> QED  BY <1>1, <1>5, <1>6 DEF Levels

-------------------------------------------------------------------------------
(* An element, its father, and so on.                                        *)

UpToLevel(n) == {e \in mesh.elem : LEVEL(e) <= n}
IsLine(f, S) == f = [e \in S |-> IF EFATHER(e) = NoElem THEN {e} ELSE {e} \cup f[EFATHER(e)]]

LEMMA LineExists ==
  ASSUME mesh \in Meshes, NEW k \in Nat
  PROVE  \E f : IsLine(f, UpToLevel(k))
<1> DEFINE Has(n) == \E f : IsLine(f, UpToLevel(n))
           Bad == {n \in Nat : ~Has(n)}
<1>1. Has(0)
  <2> DEFINE f == [e \in UpToLevel(0) |-> {e}]
  <2>1. \A e \in UpToLevel(0) : EFATHER(e) = NoElem
    BY ElemFacts DEF UpToLevel
  <2>2. IsLine(f, UpToLevel(0))
    BY <2>1 DEF IsLine
  <2> QED  BY <2>2
<1>2. ASSUME NEW n \in Nat, Has(n) PROVE Has(n + 1)
  <2>1. PICK f : IsLine(f, UpToLevel(n))
    BY <1>2
  <2> DEFINE Value(h, e) == IF EFATHER(e) = NoElem THEN {e} ELSE {e} \cup h[EFATHER(e)]
             g == [e \in UpToLevel(n + 1) |-> Value(f, e)]
  <2>2. \A e \in UpToLevel(n) : e \in UpToLevel(n + 1) /\ f[e] = Value(f, e)
    <3>1. \A e \in UpToLevel(n) : e \in UpToLevel(n + 1)
      BY ElemFacts DEF UpToLevel
    <3>2. \A e \in UpToLevel(n) : f[e] = Value(f, e)
      BY <2>1 DEF IsLine
    <3> QED  BY <3>1, <3>2
  <2>3. \A e \in UpToLevel(n) : g[e] = f[e]
    BY <2>2
  <2>4. ASSUME NEW e \in UpToLevel(n + 1), EFATHER(e) # NoElem PROVE EFATHER(e) \in UpToLevel(n)
    BY <2>4, ElemFacts DEF UpToLevel
  <2> HIDE DEF g
  <2>5. \A e \in UpToLevel(n + 1) : Value(g, e) = Value(f, e)
    BY <2>3, <2>4
  <2>6. IsLine(g, UpToLevel(n + 1))
    BY <2>5 DEF g, IsLine
  <2> QED  BY <2>6
<1> HIDE DEF Has
<1>3. SUFFICES ASSUME Bad # {} PROVE FALSE
  BY DEF Has
<1>4. PICK n \in Bad : \A m \in Bad : n <= m
  <2>1. Bad \in SUBSET Nat
    OBVIOUS
  <2> HIDE DEF Bad
  <2> QED  BY <1>3, <2>1, Smallest
<1>5. n # 0 /\ n - 1 \in Nat /\ n - 1 \notin Bad /\ (n - 1) + 1 = n
  BY <1>1, <1>4
<1>6. Has(n - 1)
  BY <1>5
<1> QED  BY <1>2, <1>4, <1>5, <1>6

LEMMA LineIs ==
  ASSUME mesh \in Meshes, NEW e \in mesh.elem
  PROVE  Line[e] = IF LEVEL(e) = 0 THEN {e} ELSE {e} \cup Line[EFATHER(e)]
<1>1. UpToLevel(TOPLEVEL) = mesh.elem
  BY TopLevel DEF UpToLevel
<1>2. \E f : IsLine(f, mesh.elem)
  BY <1>1, LineExists, TopLevel
<1>3. Line = CHOOSE f : IsLine(f, mesh.elem)
  BY DEF Line, IsLine
<1>4. IsLine(Line, mesh.elem)
  BY <1>2, <1>3
<1>5. Line[e] = IF EFATHER(e) = NoElem THEN {e} ELSE {e} \cup Line[EFATHER(e)]
  BY <1>4 DEF IsLine
<1>6. EFATHER(e) = NoElem <=> LEVEL(e) = 0
  <2>1. LEVEL(e) \in Nat
    BY ElemFacts
  <2>2. LEVEL(e) = 0 => EFATHER(e) = NoElem
    BY ElemFacts
  <2>3. LEVEL(e) > 0 => EFATHER(e) # NoElem
    BY ElemFacts
  <2> QED  BY <2>1, <2>2, <2>3
<1> QED  BY <1>5, <1>6

(* To show something of all elements, show it for one when it holds for its  *)
(* father: in a set without that property there is an element whose father   *)
(* is not in it.                                                             *)
LEMMA Coarsest ==
  ASSUME mesh \in Meshes, NEW S \in SUBSET mesh.elem, S # {}
  PROVE  \E e \in S : \A x \in S : LEVEL(e) <= LEVEL(x)
<1> DEFINE Levels == {LEVEL(e) : e \in S}
<1>1. Levels \in SUBSET Nat /\ Levels # {}
  BY ElemFacts
<1>2. PICK n \in Levels : \A m \in Levels : n <= m
  <2> HIDE DEF Levels
  <2> QED  BY <1>1, Smallest
<1> QED  BY <1>2

LEMMA Finest ==
  ASSUME mesh \in Meshes, NEW S \in SUBSET mesh.elem, S # {}
  PROVE  \E e \in S : \A x \in S : LEVEL(x) <= LEVEL(e)
<1> DEFINE Below == {TOPLEVEL - LEVEL(e) : e \in S}
<1>1. \A e \in S : LEVEL(e) \in Nat /\ TOPLEVEL - LEVEL(e) \in Nat
  BY ElemFacts, TopLevel
<1>2. Below \in SUBSET Nat /\ Below # {}
  BY <1>1
<1>3. PICK n \in Below : \A m \in Below : n <= m
  <2> HIDE DEF Below
  <2> QED  BY <1>2, Smallest
<1>4. PICK e \in S : n = TOPLEVEL - LEVEL(e)
  BY <1>3
<1>5. \A x \in S : TOPLEVEL - LEVEL(e) <= TOPLEVEL - LEVEL(x)
  BY <1>3, <1>4
<1> QED  BY <1>1, <1>5, TopLevel

(* What is in a line: one element of each level, and with each its father.   *)
LineRight(e) ==
    /\ Line[e] \subseteq mesh.elem
    /\ e \in Line[e]
    /\ \A x \in Line[e] : x # e => LEVEL(x) < LEVEL(e)
    /\ \A x, y \in Line[e] : LEVEL(x) = LEVEL(y) => x = y
    /\ \A x \in Line[e] : LEVEL(x) > 0 => EFATHER(x) \in Line[e]
    /\ \A x \in Line[e] : x # e => \E y \in Line[e] : LEVEL(y) > 0 /\ EFATHER(y) = x
    /\ \E x \in Line[e] : LEVEL(x) = 0

LEMMA Lines ==
  ASSUME mesh \in Meshes
  PROVE  \A e \in mesh.elem : LineRight(e)
<1> DEFINE Bad == {e \in mesh.elem : ~LineRight(e)}
<1>1. SUFFICES ASSUME Bad # {} PROVE FALSE
  OBVIOUS
<1>2. PICK e \in Bad : \A x \in Bad : LEVEL(e) <= LEVEL(x)
  <2>1. Bad \in SUBSET mesh.elem
    OBVIOUS
  <2> HIDE DEF Bad
  <2> QED  BY <1>1, <2>1, Coarsest
<1>3. e \in mesh.elem /\ ~LineRight(e) /\ LEVEL(e) \in Nat
  BY <1>2, ElemFacts
<1>4. CASE LEVEL(e) = 0
  <2>1. Line[e] = {e}
    BY <1>3, <1>4, LineIs
  <2>2. LineRight(e)
    BY <1>3, <1>4, <2>1 DEF LineRight
  <2> QED  BY <1>3, <2>2
<1>5. CASE LEVEL(e) > 0
  <2> DEFINE f == EFATHER(e)
  <2>1. f \in mesh.elem /\ LEVEL(f) = LEVEL(e) - 1
    BY <1>3, <1>5, ElemFacts
  <2>2. f \notin Bad
    BY <1>2, <1>3, <2>1
  <2>3. LineRight(f)
    BY <2>1, <2>2
  <2>4. Line[e] = {e} \cup Line[f]
    <3>1. LEVEL(e) # 0
      BY <1>3, <1>5
    <3>2. Line[e] = IF LEVEL(e) = 0 THEN {e} ELSE {e} \cup Line[f]
      BY <1>3, LineIs
    <3> QED  BY <3>1, <3>2
  <2>5. \A x \in Line[f] : LEVEL(x) \in Nat /\ LEVEL(x) < LEVEL(e)
    BY <1>3, <2>1, <2>3, ElemFacts DEF LineRight
  <2> HIDE DEF f, Bad
  <2>6. Line[e] \subseteq mesh.elem /\ e \in Line[e]
    BY <1>3, <2>3, <2>4 DEF LineRight
  <2>7. \A x \in Line[e] : x # e => LEVEL(x) < LEVEL(e)
    BY <2>4, <2>5
  <2>8. \A x, y \in Line[e] : LEVEL(x) = LEVEL(y) => x = y
    <3>1. \A x, y \in Line[f] : LEVEL(x) = LEVEL(y) => x = y
      BY <2>3 DEF LineRight
    <3> QED  BY <1>3, <2>4, <2>5, <3>1
  <2>9. \A x \in Line[e] : LEVEL(x) > 0 => EFATHER(x) \in Line[e]
    <3>1. f \in Line[f] /\ \A x \in Line[f] : LEVEL(x) > 0 => EFATHER(x) \in Line[f]
      BY <2>3 DEF LineRight
    <3> QED  BY <2>4, <3>1 DEF f
  <2>10. \A x \in Line[e] : x # e => \E y \in Line[e] : LEVEL(y) > 0 /\ EFATHER(y) = x
    <3>1. \A x \in Line[f] : x # f => \E y \in Line[f] : LEVEL(y) > 0 /\ EFATHER(y) = x
      BY <2>3 DEF LineRight
    <3> QED  BY <1>5, <2>4, <3>1 DEF f
  <2>11. \E x \in Line[e] : LEVEL(x) = 0
    BY <2>3, <2>4 DEF LineRight
  <2> QED  BY <1>3, <2>6, <2>7, <2>8, <2>9, <2>10, <2>11 DEF LineRight
<1> QED  BY <1>3, <1>4, <1>5

(* Irregular elements of a line are finer than its regular ones. *)
LEMMA IrregularBelow ==
  ASSUME mesh \in Meshes, NEW e \in mesh.elem, NEW r \in Line[e], mesh.class[r] = "RED",
         NEW x \in Line[e], mesh.class[x] # "RED"
  PROVE  LEVEL(r) < LEVEL(x)
<1> DEFINE Bad == {y \in Line[e] : mesh.class[y] # "RED" /\ LEVEL(y) <= LEVEL(r)}
<1>1. LineRight(e) /\ \A y \in Line[e] : LEVEL(y) \in Nat
  BY Lines, ElemFacts DEF LineRight
<1>2. SUFFICES ASSUME Bad # {} PROVE FALSE
  BY <1>1
<1>3. PICK y \in Bad : \A z \in Bad : LEVEL(z) <= LEVEL(y)
  <2>1. Bad \in SUBSET mesh.elem
    BY <1>1 DEF LineRight
  <2> HIDE DEF Bad
  <2> QED  BY <1>2, <2>1, Finest
<1>4. y # e
  <2>1. SUFFICES ASSUME y = e PROVE FALSE
    OBVIOUS
  <2>2. r = e
    BY <1>1, <1>3, <2>1 DEF LineRight
  <2> QED  BY <1>3, <2>1, <2>2
<1>5. PICK z \in Line[e] : LEVEL(z) > 0 /\ EFATHER(z) = y
  BY <1>1, <1>3, <1>4 DEF LineRight
<1>6. z \in mesh.elem /\ mesh.class[z] # "RED" /\ LEVEL(y) = LEVEL(z) - 1
  BY <1>1, <1>3, <1>5, ClassFacts, ElemFacts DEF LineRight
<1>7. z \notin Bad
  BY <1>1, <1>3, <1>6
<1>8. LEVEL(y) = LEVEL(r)
  BY <1>1, <1>3, <1>5, <1>6, <1>7
<1>9. y = r
  BY <1>1, <1>3, <1>8 DEF LineRight
<1> QED  BY <1>3, <1>9

-------------------------------------------------------------------------------
(* Merged priorities are the greatest ones.                                  *)

LEMMA PrioMax ==
  ASSUME NEW S, S \subseteq Prio, S # {}
  PROVE  Max(S) \in S /\ \A x \in S : x <= Max(S)
<1>1. \E m \in S : \A x \in S : m >= x
  <2>1. \A x \in S : x = 1 \/ x = 2 \/ x = 3 \/ x = 5
    BY DEF Prio, HGhost, VGhost, VHGhost, Master
  <2>2. CASE 5 \in S
    BY <2>1, <2>2
  <2>3. CASE 5 \notin S /\ 3 \in S
    BY <2>1, <2>3
  <2>4. CASE 5 \notin S /\ 3 \notin S /\ 2 \in S
    BY <2>1, <2>4
  <2>5. CASE 5 \notin S /\ 3 \notin S /\ 2 \notin S
    BY <2>1, <2>5
  <2> QED  BY <2>2, <2>3, <2>4, <2>5
<1>2. \A x \in S : x \in Int
  BY DEF Prio, HGhost, VGhost, VHGhost, Master
<1> DEFINE m == CHOOSE x \in S : \A y \in S : x >= y
<1>3. m \in S /\ \A x \in S : m >= x
  BY <1>1
<1>4. Max(S) = m
  BY DEF Max
<1> HIDE DEF m
<1> QED  BY <1>2, <1>3, <1>4

(* The two priorities and the merge of two. *)
LEMMA MergeTwo ==
  ASSUME NEW a \in Prio, NEW b \in Prio
  PROVE  T!MergedPrio(a, b) = IF b <= a THEN a ELSE b
  BY DEF T!MergedPrio, Prio, HGhost, VGhost, VHGhost, Master

LEMMA PriosFinite ==
  ASSUME NEW S, S \subseteq Prio
  PROVE  IsFiniteSet(S)
<1>1. S \in SUBSET Nat /\ \A s \in S : s <= 5
  BY DEF Prio, HGhost, VGhost, VHGhost, Master
<1> QED  BY <1>1, FS_BoundedSetOfNaturals

MaxOf(f, first, s) == IF s = {} THEN first
                      ELSE T!MergedPrio(CHOOSE x \in s : TRUE, f[s \ {CHOOSE x \in s : TRUE}])
IsMaxFold(f, first, R) == f = [s \in SUBSET R |-> MaxOf(f, first, s)]

LEMMA MergeAllIsMax ==
  ASSUME NEW S, S \subseteq Prio, S # {}
  PROVE  T!MergeAll(S) = Max(S)
<1> DEFINE first == CHOOSE p \in S : TRUE
           R == S \ {first}
           g == [s \in SUBSET R |-> Max(s \cup {first})]
<1>2. first \in S
  OBVIOUS
<1>3. T!MergeAll(S) = (CHOOSE f : IsMaxFold(f, first, R))[R]
  BY DEF T!MergeAll, T!FoldSet, T!MapThenFoldSet, MaxOf, IsMaxFold
<1> HIDE DEF first
<1>4. ASSUME NEW s \in SUBSET R, s # {}
      PROVE  LET x == CHOOSE y \in s : TRUE
             IN  /\ x \in s /\ x \in Prio /\ s \ {x} \in SUBSET R
                 /\ T!MergedPrio(x, Max((s \ {x}) \cup {first})) = Max(s \cup {first})
  <2> DEFINE x == CHOOSE y \in s : TRUE
             rest == (s \ {x}) \cup {first}
  <2>1. x \in s
    BY <1>4
  <2> HIDE DEF x
  <2>2. x \in Prio /\ rest \subseteq Prio /\ rest # {} /\ s \cup {first} = rest \cup {x}
    BY <1>2, <2>1
  <2> HIDE DEF rest
  <2>3. /\ Max(rest) \in rest /\ \A y \in rest : y <= Max(rest)
        /\ Max(rest \cup {x}) \in rest \cup {x} /\ \A y \in rest \cup {x} : y <= Max(rest \cup {x})
    BY <2>2, PrioMax
  <2>4. \A y \in rest \cup {x} : y \in Int
    BY <2>2 DEF Prio, HGhost, VGhost, VHGhost, Master
  <2>5. T!MergedPrio(x, Max(rest)) = IF Max(rest) <= x THEN x ELSE Max(rest)
    BY <2>2, <2>3, MergeTwo
  <2>6. T!MergedPrio(x, Max(rest)) = Max(rest \cup {x})
    BY <2>3, <2>4, <2>5
  <2> QED  BY <2>1, <2>2, <2>6 DEF x, rest
<1>5. IsMaxFold(g, first, R)
  <2>1. ASSUME NEW s \in SUBSET R PROVE MaxOf(g, first, s) = Max(s \cup {first})
    <3>1. CASE s = {}
      <4>1. Max({first}) = first
        BY <1>2, PrioMax
      <4> QED  BY <3>1, <4>1 DEF MaxOf
    <3>2. CASE s # {}
      BY <1>4, <3>2 DEF MaxOf
    <3> QED  BY <3>1, <3>2
  <2> QED  BY <2>1 DEF IsMaxFold
<1>6. ASSUME NEW f, IsMaxFold(f, first, R) PROVE f[R] = Max(S)
  <2> DEFINE Sets == SUBSET R
             Bad == {s \in Sets : f[s] # Max(s \cup {first})}
  <2>1. ASSUME NEW s \in Sets PROVE f[s] = MaxOf(f, first, s)
    BY <1>6 DEF IsMaxFold
  <2>2. SUFFICES ASSUME Bad # {} PROVE FALSE
    <3>1. R \cup {first} = S /\ R \in Sets
      BY <1>2
    <3> QED  BY <2>2, <3>1
  <2>3. \A s \in Sets : IsFiniteSet(s)
    BY PriosFinite
  <2> DEFINE Sizes == {Cardinality(s) : s \in Bad}
  <2>4. PICK k \in Sizes : \A m \in Sizes : k <= m
    <3>1. Sizes \in SUBSET Nat /\ Sizes # {}
      BY <2>2, <2>3, FS_CardinalityType
    <3> HIDE DEF Sizes
    <3> QED  BY <3>1, Smallest
  <2>5. PICK s \in Bad : k = Cardinality(s)
    BY <2>4
  <2>6. s # {}
    <3>1. SUFFICES ASSUME s = {} PROVE FALSE
      OBVIOUS
    <3>2. f[s] = first
      BY <2>1, <3>1 DEF MaxOf
    <3>3. Max({first}) = first
      BY <1>2, PrioMax
    <3> QED  BY <2>5, <3>1, <3>2, <3>3
  <2> DEFINE x == CHOOSE y \in s : TRUE
  <2>7. x \in s /\ s \ {x} \in Sets /\ T!MergedPrio(x, Max((s \ {x}) \cup {first})) = Max(s \cup {first})
    BY <1>4, <2>5, <2>6
  <2>8. f[s] = T!MergedPrio(x, f[s \ {x}])
    BY <2>1, <2>5, <2>6 DEF MaxOf
  <2> HIDE DEF x
  <2>9. k \in Nat /\ Cardinality(s \ {x}) = k - 1
    BY <2>3, <2>5, <2>7, FS_RemoveElement, FS_CardinalityType
  <2>10. s \ {x} \notin Bad
    <3>1. Cardinality(s \ {x}) \notin Sizes
      <4> HIDE DEF Sizes
      <4> QED  BY <2>4, <2>9
    <3> HIDE DEF Bad
    <3> QED  BY <3>1
  <2> QED  BY <2>5, <2>7, <2>8, <2>10
<1> QED  BY <1>3, <1>5, <1>6

LEMMA MergedPrios ==
  ASSUME NEW S, S \subseteq Prio
  PROVE  /\ S = {} => Merged(S) = NoPrio
         /\ S # {} => Merged(S) \in S
         /\ Master \in S <=> Merged(S) = Master
<1>1. CASE S = {}
  BY <1>1 DEF Merged, NoPrio, Master
<1>2. CASE S # {}
  <2>1. Max(S) \in S /\ \A x \in S : x <= Max(S)
    BY <1>2, PrioMax
  <2>2. Merged(S) = Max(S)
    BY <1>2 DEF Merged
  <2>3. \A x \in S : x <= 5 /\ x \in Int
    BY DEF Prio, HGhost, VGhost, VHGhost, Master
  <2>4. Master \in S => Max(S) = Master
    BY <2>1, <2>3 DEF Master
  <2> QED  BY <1>2, <2>1, <2>2, <2>4
<1> QED  BY <1>1, <1>2

-------------------------------------------------------------------------------
(* The overlap.                                                              *)

LEMMA HomeIs ==
  ASSUME OneMaster, NEW e \in mesh.elem
  PROVE  Home(e) \in Proc /\ \A q \in Proc : EMASTER(q, e) <=> q = Home(e)
  BY DEF OneMaster, Home

LEMMA CopyKinds ==
  ASSUME TypeInv, NEW p \in Proc, NEW e \in Elem
  PROVE  /\ prio[p][e] \in Prio \cup {NoPrio}
         /\ EMASTER(p, e) <=> prio[p][e] = Master
         /\ EGHOST(p, e) <=> prio[p][e] \in Prio /\ ~EMASTER(p, e)
         /\ NoPrio \notin Prio /\ Master \in Prio
         /\ e \in mesh.elem => (e \in Local(p) <=> prio[p][e] \in Prio)
<1>1. prio[p][e] \in Prio \cup {NoPrio}
  BY DEF TypeInv
<1> QED  BY <1>1 DEF EMASTER, EGHOST, Local, Prio, HGhost, VGhost, VHGhost, Master, NoPrio

(* For whom p needs a copy of e. *)
NeededMeans(p, e) ==
    NeededPrio(p, e) # NoPrio <=>
        \/ EMASTER(p, e)
        \/ \E m \in mesh.elem : EMASTER(p, m) /\ {e, m} \in mesh.neighbor
        \/ \E s \in mesh.elem : EMASTER(p, s) /\ EFATHER(s) = e

LEMMA NeededIs ==
  ASSUME NEW p, NEW e
  PROVE  NeededMeans(p, e)
<1> DEFINE side == \E n \in Masters(p) : {e, n} \in mesh.neighbor
           above == \E s \in Masters(p) : EFATHER(s) = e
<1>1. NeededPrio(p, e) = IF EMASTER(p, e) THEN Master
                         ELSE IF side /\ above THEN VHGhost
                         ELSE IF above THEN VGhost
                         ELSE IF side THEN HGhost ELSE NoPrio
  BY DEF NeededPrio
<1>2. side <=> \E m \in mesh.elem : EMASTER(p, m) /\ {e, m} \in mesh.neighbor
  BY DEF Masters
<1>3. above <=> \E s \in mesh.elem : EMASTER(p, s) /\ EFATHER(s) = e
  BY DEF Masters
<1> HIDE DEF side, above
<1>4. NeededPrio(p, e) # NoPrio <=> EMASTER(p, e) \/ side \/ above
  BY <1>1 DEF EMASTER, NoPrio, HGhost, VGhost, VHGhost, Master
<1> QED  BY <1>2, <1>3, <1>4 DEF NeededMeans

(* Next to a master are copies of its neighbours and its father. *)
LEMMA Near ==
  ASSUME TypeInv, OverlapInv, NEW p \in Proc, NEW e \in mesh.elem
  PROVE  /\ EMASTER(p, e) => e \in Local(p)
         /\ \A m \in mesh.elem : EMASTER(p, m) /\ {e, m} \in mesh.neighbor => e \in Local(p)
         /\ \A s \in mesh.elem : EMASTER(p, s) /\ EFATHER(s) = e => e \in Local(p)
         /\ e \in Local(p) =>
               \/ EMASTER(p, e)
               \/ \E m \in mesh.elem : EMASTER(p, m) /\ {e, m} \in mesh.neighbor
               \/ \E s \in mesh.elem : EMASTER(p, s) /\ EFATHER(s) = e
<1>1. prio[p][e] # NoPrio <=> NeededPrio(p, e) # NoPrio
  BY DEF OverlapInv, GhostsRight
<1>2. NeededPrio(p, e) # NoPrio <=>
               \/ EMASTER(p, e)
               \/ \E m \in mesh.elem : EMASTER(p, m) /\ {e, m} \in mesh.neighbor
               \/ \E s \in mesh.elem : EMASTER(p, s) /\ EFATHER(s) = e
  BY NeededIs DEF NeededMeans
<1>3. e \in Local(p) <=> prio[p][e] # NoPrio
  BY DEF Local
<1> QED  BY <1>1, <1>2, <1>3

(* The commands of a transfer, in terms of where the masters go.             *)
NbGoes(e, d)         == \E n \in mesh.elem : {e, n} \in mesh.neighbor /\ Dest(n) = d
SonGoes(e, d)        == \E s \in mesh.elem : EFATHER(s) = e /\ Dest(s) = d
SonGoesFrom(p, e, d) == \E s \in mesh.elem : p = Home(s) /\ EFATHER(s) = e /\ Dest(s) = d
GoesNear(e, d)       == NbGoes(e, d) \/ SonGoes(e, d)

LEMMA Symmetric == \A e, n : {e, n} = {n, e}
  OBVIOUS

LEMMA Knows ==
  ASSUME TypeInv, OverlapInv, pc = "xfer", NEW p \in Proc, NEW e \in Local(p)
  PROVE  e \in mesh.elem /\ e \in Elem /\ partition[p][e] = Dest(e) /\ Dest(e) \in Proc
<1>1. e \in mesh.elem
  BY DEF Local
<1> QED  BY <1>1, ElemFacts DEF TypeInv, OverlapInv, DestsRight

LEMMA Goes ==
  ASSUME TypeInv, OverlapInv, pc = "xfer", NEW p \in Proc, NEW e \in mesh.elem, NEW d \in Proc
  PROVE  /\ NbGoesTo(p, e, d) => NbGoes(e, d)
         /\ p = Home(e) => (NbGoesTo(p, e, d) <=> NbGoes(e, d))
         /\ SonGoesTo(p, e, d) => SonGoes(e, d)
         /\ SonGoesFrom(p, e, d) => SonGoesTo(p, e, d)
         /\ (\E s \in GetSons(p, e) : partition[p][s] = d) <=> SonGoesFrom(p, e, d)
<1>1. \A x \in Local(p) : x \in mesh.elem /\ partition[p][x] = Dest(x)
  BY Knows
<1>2. \A x \in mesh.elem : EMASTER(p, x) <=> p = Home(x)
  BY HomeIs DEF OverlapInv
<1>3. \A x \in mesh.elem : EMASTER(p, x) => x \in Local(p)
  BY Near
<1>4. NbGoesTo(p, e, d) => NbGoes(e, d)
  BY <1>1 DEF NbGoesTo, NBELEM, NbGoes
<1>5. ASSUME p = Home(e), NEW n \in mesh.elem, {e, n} \in mesh.neighbor, Dest(n) = d
      PROVE  NbGoesTo(p, e, d)
  <2>1. n \in Local(p)
    BY <1>2, <1>5, Near, Symmetric
  <2> QED  BY <1>1, <1>5, <2>1 DEF NbGoesTo, NBELEM
<1>6. SonGoesTo(p, e, d) => SonGoes(e, d)
  BY <1>1 DEF SonGoesTo, GetAllSons, SonGoes
<1>7. ASSUME NEW s \in mesh.elem, p = Home(s), EFATHER(s) = e, Dest(s) = d PROVE SonGoesTo(p, e, d)
  BY <1>1, <1>2, <1>3, <1>7 DEF SonGoesTo, GetAllSons
<1>8. (\E s \in GetSons(p, e) : partition[p][s] = d) <=> SonGoesFrom(p, e, d)
  BY <1>1, <1>2, <1>3 DEF GetSons, Masters, SonGoesFrom
<1> QED  BY <1>4, <1>5, <1>6, <1>7, <1>8 DEF NbGoes, SonGoesFrom

LEMMA SentAsIs ==
  ASSUME TypeInv, OverlapInv, pc = "xfer", NEW p \in Proc, NEW e \in Local(p), NEW d \in Proc
  PROVE  /\ SentAs(p, e, d) \subseteq Prio
         /\ Master \in SentAs(p, e, d) <=> p = Home(e) /\ Dest(e) = d
         /\ SentAs(p, e, d) # {} => Dest(e) = d \/ GoesNear(e, d)
         /\ Dest(e) # d =>
               /\ p = Home(e) /\ NbGoes(e, d) =>
                     SentAs(p, e, d) # {}
               /\ SonGoesFrom(p, e, d) =>
                     SentAs(p, e, d) # {}
<1>1. e \in mesh.elem /\ partition[p][e] = Dest(e)
  BY Knows
<1>2. EMASTER(p, e) <=> p = Home(e)
  BY <1>1, HomeIs DEF OverlapInv
<1>3. /\ SentAs(p, e, d) \subseteq Prio
      /\ Master \in SentAs(p, e, d) <=> EMASTER(p, e) /\ Dest(e) = d
      /\ HGhost \in SentAs(p, e, d) <=> EMASTER(p, e) /\ Dest(e) # d /\ NbGoesTo(p, e, d)
      /\ VGhost \in SentAs(p, e, d) <=>
            (\E s \in GetSons(p, e) : partition[p][s] = d) /\ (Dest(e) # d \/ ~EMASTER(p, e))
      /\ VHGhost \notin SentAs(p, e, d)
  BY <1>1 DEF SentAs, Prio, HGhost, VGhost, VHGhost, Master
<1>4. SentAs(p, e, d) # {} => \/ Master \in SentAs(p, e, d) \/ HGhost \in SentAs(p, e, d)
                              \/ VGhost \in SentAs(p, e, d)
  BY <1>3 DEF Prio
<1>5. /\ NbGoesTo(p, e, d) => NbGoes(e, d)
      /\ p = Home(e) =>
            (NbGoesTo(p, e, d) <=> NbGoes(e, d))
      /\ (\E s \in GetSons(p, e) : partition[p][s] = d) <=>
               SonGoesFrom(p, e, d)
  BY <1>1, Goes
<1>6. SentAs(p, e, d) # {} => Dest(e) = d \/ GoesNear(e, d)
  BY <1>3, <1>4, <1>5 DEF GoesNear, SonGoesFrom, SonGoes
<1>7. SentAs(p, e, d) # {} <=> \/ Master \in SentAs(p, e, d) \/ HGhost \in SentAs(p, e, d)
                               \/ VGhost \in SentAs(p, e, d)
  BY <1>4
<1> QED  BY <1>2, <1>3, <1>5, <1>6, <1>7

LEMMA DeletedIs ==
  ASSUME TypeInv, OverlapInv, pc = "xfer", NEW p \in Proc, NEW e \in Local(p)
  PROVE  /\ e \in Deleted(p) => Dest(e) # p
         /\ Dest(e) # p /\ ~GoesNear(e, p) => e \in Deleted(p)
         /\ Dest(e) # p /\ p = Home(e) /\ GoesNear(e, p) /\ e \notin Deleted(p) =>
               LeftAs(p, e) # {}
         /\ p = Home(e) /\ NbGoes(e, p) =>
               e \notin Deleted(p)
         /\ SonGoesFrom(p, e, p) => e \notin Deleted(p)
         /\ LeftAs(p, e) \subseteq Prio \ {Master}
<1>1. e \in mesh.elem /\ e \in Elem /\ partition[p][e] = Dest(e)
  BY Knows
<1>2. EMASTER(p, e) <=> p = Home(e)
  BY <1>1, HomeIs DEF OverlapInv
<1>3. EGHOST(p, e) <=> p # Home(e)
  BY <1>1, <1>2, CopyKinds
<1>4. e \in GhostCmds(p) <=>
         p # Home(e) /\ Dest(e) # p /\ ~NbGoesTo(Home(e), e, p) /\ ~SonGoesTo(p, e, p)
  BY <1>1, <1>3 DEF GhostCmds
<1>5. e \in Leaving(p) <=> p = Home(e) /\ Dest(e) # p
  BY <1>1, <1>2 DEF Leaving, Masters
<1>6. e \in Deleted(p) <=> \/ e \in GhostCmds(p)
                           \/ e \in Leaving(p) /\ ~NbGoesTo(p, e, p) /\ ~SonGoesTo(p, e, p)
  BY DEF Deleted
<1>7. /\ NbGoesTo(p, e, p) \/ SonGoesTo(p, e, p) => GoesNear(e, p)
      /\ NbGoesTo(Home(e), e, p) => GoesNear(e, p)
  <2>1. Home(e) \in Proc
    BY <1>1, HomeIs DEF OverlapInv
  <2>2. \A q \in Proc : NbGoesTo(q, e, p) => NbGoes(e, p)
    BY <1>1, Goes
  <2>3. SonGoesTo(p, e, p) => SonGoes(e, p)
    BY <1>1, Goes
  <2> QED  BY <2>1, <2>2, <2>3 DEF GoesNear
<1>8. /\ LeftAs(p, e) \subseteq Prio \ {Master}
      /\ e \in Leaving(p) /\ (SonGoesTo(p, e, p) \/ NbGoesTo(p, e, p)) => LeftAs(p, e) # {}
  BY DEF LeftAs, Prio, HGhost, VGhost, VHGhost, Master
<1>9. /\ p = Home(e) /\ NbGoes(e, p) => NbGoesTo(p, e, p)
      /\ SonGoesFrom(p, e, p) => SonGoesTo(p, e, p)
  BY <1>1, Goes
<1> QED  BY <1>4, <1>5, <1>6, <1>7, <1>8, <1>9

(* The result of the transfer for a copy. *)
LEMMA SentIs ==
  ASSUME TypeInv, OverlapInv, pc = "xfer", NEW p \in Proc, NEW e \in mesh.elem
  PROVE  /\ T!Sent(p, e) \subseteq Prio
         /\ Master \in T!Sent(p, e) <=> Dest(e) = p /\ Home(e) # p
         /\ T!Sent(p, e) # {} => GoesNear(e, p) \/ Dest(e) = p
         /\ Dest(e) # p /\ NbGoes(e, p) /\ Home(e) # p => T!Sent(p, e) # {}
         /\ \A s \in mesh.elem : Dest(e) # p /\ EFATHER(s) = e /\ Dest(s) = p /\ Home(s) # p =>
               T!Sent(p, e) # {}
<1> DEFINE Sends(q) == IF p = q \/ e \notin Local(q) THEN {} ELSE SentAs(q, e, p)
<1>1. e \in Elem
  BY ElemFacts DEF TypeInv
<1>2. \A q \in Proc : /\ Sends(q) \subseteq Prio
                      /\ Master \in Sends(q) <=> q # p /\ e \in Local(q) /\ q = Home(e) /\ Dest(e) = p
                      /\ Sends(q) # {} => GoesNear(e, p) \/ Dest(e) = p
  BY SentAsIs
<1>3. \A q \in Proc : CopyObj[q][e][p] = Merged(Sends(q))
  <2>1. Merged({}) = NoPrio
    BY MergedPrios
  <2> QED  BY <1>1, <2>1 DEF CopyObj
<1> HIDE DEF Sends
<1>4. \A q \in Proc : /\ Sends(q) = {} => CopyObj[q][e][p] = NoPrio
                      /\ Sends(q) # {} => CopyObj[q][e][p] \in Sends(q)
                      /\ Master \in Sends(q) <=> CopyObj[q][e][p] = Master
  BY <1>2, <1>3, MergedPrios
<1>5. T!Sent(p, e) = {CopyObj[q][e][p] : q \in Proc} \ {NoPrio}
  BY DEF T!Sent
<1>6. NoPrio \notin Prio /\ Master # NoPrio
  BY DEF Prio, HGhost, VGhost, VHGhost, Master, NoPrio
<1>7. T!Sent(p, e) \subseteq Prio
  BY <1>2, <1>4, <1>5
<1>8. Home(e) \in Proc /\ e \in Local(Home(e))
  BY HomeIs, Near DEF OverlapInv
<1>9. Master \in T!Sent(p, e) <=> Dest(e) = p /\ Home(e) # p
  <2>1. Master \in T!Sent(p, e) <=> \E q \in Proc : Master \in Sends(q)
    BY <1>4, <1>5, <1>6
  <2> QED  BY <1>2, <1>8, <2>1
<1>10. T!Sent(p, e) # {} <=> \E q \in Proc : Sends(q) # {}
  BY <1>2, <1>4, <1>5, <1>6
<1>11. Dest(e) # p /\ NbGoes(e, p) /\ Home(e) # p => Sends(Home(e)) # {}
  BY <1>8, SentAsIs DEF Sends
<1>12. ASSUME NEW s \in mesh.elem, Dest(e) # p, EFATHER(s) = e, Dest(s) = p, Home(s) # p
       PROVE  Home(s) \in Proc /\ Sends(Home(s)) # {}
  <2>1. Home(s) \in Proc /\ e \in Local(Home(s))
    BY <1>12, HomeIs, Near DEF OverlapInv
  <2>2. SonGoesFrom(Home(s), e, p)
    BY <1>12 DEF SonGoesFrom
  <2> QED  BY <1>12, <2>1, <2>2, SentAsIs DEF Sends
<1> QED  BY <1>2, <1>7, <1>8, <1>9, <1>10, <1>11, <1>12

LEMMA KeptIs ==
  ASSUME TypeInv, OverlapInv, pc = "xfer", NEW p \in Proc, NEW e \in mesh.elem
  PROVE  /\ T!Kept(p, e) \in Prio \cup {NoPrio}
         /\ T!Kept(p, e) = Master <=> Dest(e) = p /\ Home(e) = p
         /\ T!Kept(p, e) # NoPrio => e \in Local(p) /\ (GoesNear(e, p) \/ Dest(e) = p)
         /\ Dest(e) # p /\ NbGoes(e, p) /\ Home(e) = p => T!Kept(p, e) # NoPrio
         /\ \A s \in mesh.elem : Dest(e) # p /\ EFATHER(s) = e /\ Dest(s) = p /\ Home(s) = p =>
               T!Kept(p, e) # NoPrio
<1>1. e \in Elem
  BY ElemFacts DEF TypeInv
<1> DEFINE Set == IF e \notin Local(p) THEN {} ELSE SentAs(p, e, p) \cup LeftAs(p, e)
<1>2. SetPrio[p][e] = Merged(Set)
  <2>1. Merged({}) = NoPrio
    BY MergedPrios
  <2> QED  BY <1>1, <2>1 DEF SetPrio
<1>3. T!Kept(p, e) = IF e \in Deleted(p) THEN NoPrio
                     ELSE IF SetPrio[p][e] # NoPrio THEN SetPrio[p][e] ELSE prio[p][e]
  BY DEF T!Kept, DelCmd
<1>4. Home(e) \in Proc /\ (EMASTER(p, e) <=> p = Home(e))
  BY HomeIs DEF OverlapInv
<1>5. NoPrio \notin Prio /\ Master # NoPrio /\ Master \in Prio
  BY DEF Prio, HGhost, VGhost, VHGhost, Master, NoPrio
<1>6. EMASTER(p, e) => e \in Local(p)
  BY Near
<1>7. CASE e \notin Local(p)
  <2>1. prio[p][e] = NoPrio /\ p # Home(e) /\ SetPrio[p][e] = NoPrio
    BY <1>1, <1>2, <1>4, <1>6, <1>7, CopyKinds, MergedPrios
  <2>2. T!Kept(p, e) = NoPrio
    BY <1>3, <2>1
  <2>3. \A s \in mesh.elem : EFATHER(s) = e => Home(s) # p
    BY <1>7, HomeIs, Near DEF OverlapInv
  <2> QED  BY <1>5, <1>7, <2>1, <2>2, <2>3
<1>8. CASE e \in Local(p)
  <2> HIDE DEF Set
  <2>1. /\ SentAs(p, e, p) \subseteq Prio
        /\ Master \in SentAs(p, e, p) <=> p = Home(e) /\ Dest(e) = p
    BY <1>8, SentAsIs
  <2>2. LeftAs(p, e) \subseteq Prio \ {Master}
    BY <1>8, DeletedIs
  <2>3. Set = SentAs(p, e, p) \cup LeftAs(p, e)
    BY <1>8 DEF Set
  <2>4. Set \subseteq Prio /\ (Master \in Set <=> p = Home(e) /\ Dest(e) = p)
    BY <2>1, <2>2, <2>3
  <2>5. /\ Set = {} => SetPrio[p][e] = NoPrio
        /\ Set # {} => SetPrio[p][e] \in Set
        /\ Master \in Set <=> SetPrio[p][e] = Master
    BY <1>2, <2>4, MergedPrios
  <2>6. prio[p][e] \in Prio /\ (prio[p][e] = Master <=> p = Home(e))
    BY <1>1, <1>4, <1>8, CopyKinds
  <2>7. /\ e \in Deleted(p) => Dest(e) # p
        /\ Dest(e) # p /\ ~GoesNear(e, p) => e \in Deleted(p)
        /\ Dest(e) # p /\ p = Home(e) /\ GoesNear(e, p) /\ e \notin Deleted(p) => LeftAs(p, e) # {}
        /\ p = Home(e) /\ NbGoes(e, p) => e \notin Deleted(p)
        /\ SonGoesFrom(p, e, p) => e \notin Deleted(p)
    BY <1>8, DeletedIs
  <2>8. e \notin Deleted(p) => T!Kept(p, e) \in Prio
    BY <1>3, <2>4, <2>5, <2>6
  <2>9. e \in Deleted(p) => T!Kept(p, e) = NoPrio
    BY <1>3
  <2>10. T!Kept(p, e) = Master <=> Dest(e) = p /\ Home(e) = p
    <3>1. CASE e \in Deleted(p)
      BY <1>5, <2>7, <2>9, <3>1
    <3>2. CASE e \notin Deleted(p) /\ Set # {}
      BY <1>3, <1>5, <2>4, <2>5, <3>2
    <3>3. CASE e \notin Deleted(p) /\ Set = {}
      <4>1. T!Kept(p, e) = prio[p][e]
        BY <1>3, <2>5, <3>3
      <4>2. Home(e) = p => Dest(e) = p
        BY <2>3, <2>7, <3>3
      <4> QED  BY <2>6, <4>1, <4>2
    <3> QED  BY <3>1, <3>2, <3>3
  <2>11. \A s \in mesh.elem : EFATHER(s) = e /\ Dest(s) = p /\ Home(s) = p => SonGoesFrom(p, e, p)
    BY DEF SonGoesFrom
  <2> QED  BY <1>5, <1>8, <2>7, <2>8, <2>9, <2>10, <2>11
<1> QED  BY <1>7, <1>8

LEMMA ResultIs ==
  ASSUME TypeInv, OverlapInv, pc = "xfer", NEW p \in Proc, NEW e \in mesh.elem
  PROVE  /\ T!Result(p, e) \in Prio \cup {NoPrio}
         /\ T!Result(p, e) = Master <=> Dest(e) = p
         /\ T!Result(p, e) # NoPrio <=> GoesNear(e, p) \/ Dest(e) = p
         /\ T!Result(p, e) # NoPrio /\ prio[p][e] = NoPrio =>
               \E q \in Proc : CopyObj[q][e][p] # NoPrio
<1> DEFINE S == T!Sent(p, e)
           K == T!Kept(p, e)
<1>1. T!Result(p, e) = IF S = {} THEN K
                       ELSE IF K = NoPrio THEN T!MergeAll(S) ELSE T!MergedPrio(T!MergeAll(S), K)
  BY DEF T!Result
<1>2. S \subseteq Prio /\ (Master \in S <=> Dest(e) = p /\ Home(e) # p)
  BY SentIs
<1>3. K \in Prio \cup {NoPrio} /\ (K = Master <=> Dest(e) = p /\ Home(e) = p)
  BY KeptIs
<1>4. T!Sent(p, e) = {CopyObj[q][e][p] : q \in Proc} \ {NoPrio}
  BY DEF T!Sent
<1>5. K # NoPrio => prio[p][e] # NoPrio
  BY KeptIs DEF Local
<1>6. (S # {} \/ K # NoPrio) <=> GoesNear(e, p) \/ Dest(e) = p
  <2>1. S # {} \/ K # NoPrio => GoesNear(e, p) \/ Dest(e) = p
    BY SentIs, KeptIs
  <2>2. Dest(e) = p => S # {} \/ K # NoPrio
    BY <1>2, <1>3 DEF Master, NoPrio
  <2>3. Dest(e) # p /\ NbGoes(e, p) => S # {} \/ K # NoPrio
    BY SentIs, KeptIs
  <2>4. Dest(e) # p /\ SonGoes(e, p) => S # {} \/ K # NoPrio
    BY SentIs, KeptIs DEF SonGoes
  <2> QED  BY <2>1, <2>2, <2>3, <2>4 DEF GoesNear
<1> HIDE DEF S, K
<1>7. S # {} => /\ T!MergeAll(S) \in S /\ (T!MergeAll(S) = Master <=> Master \in S)
  <2>1. SUFFICES ASSUME S # {} PROVE T!MergeAll(S) \in S /\ (T!MergeAll(S) = Master <=> Master \in S)
    OBVIOUS
  <2>2. T!MergeAll(S) = Merged(S)
    BY <1>2, <2>1, MergeAllIsMax DEF Merged
  <2> QED  BY <1>2, <2>1, <2>2, MergedPrios
<1>8. \A a, b \in Prio : T!MergedPrio(a, b) \in Prio /\ (T!MergedPrio(a, b) = Master <=> a = Master \/ b = Master)
  BY MergeTwo DEF Prio, HGhost, VGhost, VHGhost, Master
<1>9. NoPrio \notin Prio
  BY DEF Prio, HGhost, VGhost, VHGhost, Master, NoPrio
<1>10. T!Result(p, e) \in Prio \cup {NoPrio} /\ (T!Result(p, e) # NoPrio <=> S # {} \/ K # NoPrio)
  BY <1>1, <1>2, <1>3, <1>7, <1>8, <1>9
<1>11. T!Result(p, e) = Master <=> Master \in S \/ K = Master
  BY <1>1, <1>2, <1>3, <1>7, <1>8, <1>9 DEF Master, NoPrio
<1>12. S # {} => \E q \in Proc : CopyObj[q][e][p] # NoPrio
  BY <1>4 DEF S
<1> QED  BY <1>2, <1>3, <1>5, <1>6, <1>10, <1>11, <1>12

-------------------------------------------------------------------------------
(* The steps, as far as the overlap is concerned.                            *)

LEMMA NextNeeded ==
  ASSUME NEW p, NEW e
  PROVE  NeededMeans(p, e)'
  BY NeededIs, PTL

HomeMeans(e) == e \in mesh.elem => Home(e) \in Proc /\ \A q \in Proc : EMASTER(q, e) <=> q = Home(e)

LEMMA NextHome ==
  ASSUME NEW e
  PROVE  OneMaster' => HomeMeans(e)'
<1>1. OneMaster => HomeMeans(e)
  BY HomeIs DEF HomeMeans
<1> QED  BY <1>1, PTL

LEMMA SameMesh ==
  ASSUME mesh' = mesh
  PROVE  /\ \A e : LEVEL(e)' = LEVEL(e) /\ EFATHER(e)' = EFATHER(e)
         /\ \A e : LEAFELEM(e)' <=> LEAFELEM(e)
         /\ Line' = Line /\ TOPLEVEL' = TOPLEVEL
  BY DEF LEVEL, EFATHER, LEAFELEM, Line, TOPLEVEL

LEMMA SamePrios ==
  ASSUME mesh' = mesh, prio' = prio
  PROVE  /\ \A p, e : EMASTER(p, e)' <=> EMASTER(p, e)
         /\ \A p : Local(p)' = Local(p) /\ Masters(p)' = Masters(p)
         /\ \A e : Home(e)' = Home(e)
         /\ \A p, e : NeededPrio(p, e)' = NeededPrio(p, e)
         /\ OneMaster' <=> OneMaster
  BY DEF EMASTER, Local, Masters, Home, NeededPrio, OneMaster, EFATHER

(* Nothing but the destinations changes. *)
LEMMA OverlapSame ==
  ASSUME TypeInv, OverlapInv, mesh' = mesh, prio' = prio, pc # "prios", pc' # "prios",
         \A p \in Proc : \A e \in Local(p) :
            /\ partition'[p][e] \in Proc
            /\ pc' \in {"balance", "adapt", "flag", "adapted"} => partition'[p][e] = Home(e)
            /\ pc' = "push" /\ ~EMASTER(p, e) => partition'[p][e] = Home(e)
            /\ pc' = "xfer" => partition'[p][e] = partition'[Home(e)][e]
  PROVE  OverlapInv'
<1>1. OneMaster' /\ GhostsRight'
  BY SamePrios DEF OverlapInv, GhostsRight
<1>2. DestsRight'
  BY SamePrios DEF DestsRight, Dest
<1> QED  BY <1>1, <1>2 DEF OverlapInv

(* What the father has from the master is overwritten by what it had. *)
LEMMA PushedIs ==
  ASSUME TypeInv, PushPartitions, NEW p \in Proc, NEW e \in Elem
  PROVE  partition'[p][e] =
            IF e \in Masters(p) /\ LEVEL(e) = level + 1 /\ EFATHER(e) \in used[p]
            THEN partition[p][EFATHER(e)] ELSE partition[p][e]
<1> DEFINE r == RestrictedPartition
           pushed == e \in Masters(p) /\ LEVEL(e) = level + 1 /\ EFATHER(e) \in used[p]
<1>1. partition'[p][e] = IF pushed THEN r[p][EFATHER(e)] ELSE r[p][e]
  BY DEF PushPartitions, PushedPartition
<1>2. level \in Nat
  BY DEF TypeInv, PushPartitions
<1>3. ~pushed => r[p][e] = partition[p][e]
  BY DEF RestrictedPartition
<1>4. ASSUME pushed PROVE r[p][EFATHER(e)] = partition[p][EFATHER(e)]
  <2>1. e \in mesh.elem /\ mesh \in Meshes
    BY <1>4 DEF Masters, TypeInv
  <2>2. EFATHER(e) \in Elem /\ LEVEL(EFATHER(e)) = level
    BY <1>2, <1>4, <2>1, ElemFacts
  <2>3. LEVEL(EFATHER(e)) # level + 1
    BY <1>2, <2>2
  <2> QED  BY <2>2, <2>3 DEF RestrictedPartition
<1> QED  BY <1>1, <1>3, <1>4

LEMMA TransferOverlap ==
  ASSUME TypeInv, OverlapInv, TransferGrid
  PROVE  /\ OverlapInv'
         /\ \A e \in mesh.elem : Home(e)' = Dest(e)
         /\ prio' \in [Proc -> [Elem -> Prio \cup {NoPrio}]]
         /\ partition' \in [Proc -> [Elem -> Proc \cup {NoDest}]]
<1>1. pc = "xfer" /\ pc' = "prios" /\ mesh' = mesh
  BY DEF TransferGrid
<1>2. mesh.elem \subseteq Elem
  BY ElemFacts DEF TypeInv
<1>3. \A p \in Proc, e \in Elem : prio'[p][e] = T!Result(p, e)
  BY DEF TransferGrid
<1>4. \A p \in Proc, e \in mesh.elem :
         /\ prio'[p][e] \in Prio \cup {NoPrio}
         /\ prio'[p][e] = Master <=> Dest(e) = p
         /\ prio'[p][e] # NoPrio <=> GoesNear(e, p) \/ Dest(e) = p
  BY <1>1, <1>2, <1>3, ResultIs
<1>5. \A p \in Proc, e \in mesh.elem : EMASTER(p, e)' <=> Dest(e) = p
  BY <1>4 DEF EMASTER
<1>6. \A e \in mesh.elem : Dest(e) \in Proc
  <2>1. \A e \in mesh.elem : Home(e) \in Proc /\ e \in Local(Home(e))
    BY HomeIs, Near DEF OverlapInv
  <2> QED  BY <1>1, <2>1, Knows
<1>7. OneMaster'
  BY <1>1, <1>5, <1>6 DEF OneMaster
<1>8. ASSUME NEW e \in mesh.elem PROVE Home(e)' = Dest(e)
  BY <1>1, <1>5, <1>6, <1>7, NextHome DEF HomeMeans
<1>9. GhostsRight'
  <2> SUFFICES ASSUME NEW p \in Proc, NEW e \in mesh.elem
               PROVE  prio'[p][e] # NoPrio <=> (NeededPrio(p, e))' # NoPrio
    BY <1>1 DEF GhostsRight
  <2>1. (NeededPrio(p, e))' # NoPrio <=>
            \/ Dest(e) = p
            \/ \E m \in mesh.elem : Dest(m) = p /\ {e, m} \in mesh.neighbor
            \/ \E s \in mesh.elem : Dest(s) = p /\ EFATHER(s) = e
    <3>1. NeededMeans(p, e)'
      BY NextNeeded
    <3>2. (NeededPrio(p, e))' # NoPrio <=>
            \/ EMASTER(p, e)'
            \/ \E m \in mesh.elem : EMASTER(p, m)' /\ {e, m} \in mesh.neighbor
            \/ \E s \in mesh.elem : EMASTER(p, s)' /\ EFATHER(s) = e
      BY <1>1, <3>1, SameMesh DEF NeededMeans
    <3> QED  BY <1>5, <3>2
  <2> QED  BY <1>4, <2>1 DEF GoesNear, NbGoes, SonGoes
<1>10. \A p \in Proc, e \in Elem : partition'[p][e] =
           IF prio'[p][e] = NoPrio THEN NoDest
           ELSE IF prio[p][e] # NoPrio THEN partition[p][e]
           ELSE partition[CHOOSE q \in Proc : CopyObj[q][e][p] # NoPrio][e]
  BY DEF TransferGrid
<1>11. ASSUME NEW p \in Proc, NEW e \in mesh.elem, prio'[p][e] # NoPrio PROVE partition'[p][e] = Dest(e)
  <2>1. CASE prio[p][e] # NoPrio
    <3>1. e \in Local(p)
      BY <2>1 DEF Local
    <3> QED  BY <1>1, <1>2, <1>10, <1>11, <2>1, <3>1, Knows
  <2>2. CASE prio[p][e] = NoPrio
    <3> DEFINE q == CHOOSE x \in Proc : CopyObj[x][e][p] # NoPrio
    <3>1. q \in Proc /\ CopyObj[q][e][p] # NoPrio
      BY <1>1, <1>2, <1>3, <1>11, <2>2, ResultIs
    <3>2. partition'[p][e] = partition[q][e]
      BY <1>2, <1>10, <1>11, <2>2
    <3> HIDE DEF q
    <3>3. e \in Local(q)
      BY <1>2, <3>1 DEF CopyObj
    <3> QED  BY <1>1, <3>1, <3>2, <3>3, Knows
  <2> QED  BY <2>1, <2>2
<1>12. DestsRight'
  <2> SUFFICES ASSUME NEW p \in Proc, NEW e \in Local(p)'
               PROVE  partition'[p][e] \in Proc /\ partition'[p][e] = Home(e)'
    BY <1>1 DEF DestsRight
  <2>1. e \in mesh.elem /\ prio'[p][e] # NoPrio
    BY <1>1 DEF Local
  <2> QED  BY <1>6, <1>8, <1>11, <2>1
<1>13. ASSUME NEW p \in Proc, NEW e \in Elem, e \notin mesh.elem PROVE prio'[p][e] = prio[p][e]
  <2>1. \A q \in Proc : e \notin Local(q) /\ e \notin Deleted(q)
    BY <1>13 DEF Local, Deleted, GhostCmds, Leaving, Masters
  <2>2. \A q \in Proc : CopyObj[q][e][p] = NoPrio /\ SetPrio[q][e] = NoPrio
    <3>1. Merged({}) = NoPrio
      BY MergedPrios
    <3> QED  BY <2>1, <3>1 DEF CopyObj, SetPrio
  <2>3. T!Sent(p, e) = {}
    BY <2>2 DEF T!Sent
  <2>4. T!Kept(p, e) = prio[p][e]
    BY <2>1, <2>2 DEF T!Kept, DelCmd
  <2>5. T!Result(p, e) = prio[p][e]
    BY <2>3, <2>4 DEF T!Result
  <2> QED  BY <1>3, <2>5
<1>14. prio' \in [Proc -> [Elem -> Prio \cup {NoPrio}]]
  <2>1. \A p \in Proc, e \in Elem : prio'[p][e] \in Prio \cup {NoPrio}
    BY <1>4, <1>13 DEF TypeInv
  <2>2. prio' = [p \in Proc |-> [e \in Elem |-> prio'[p][e]]]
    BY DEF TransferGrid
  <2> QED  BY <2>1, <2>2
<1>15. partition' \in [Proc -> [Elem -> Proc \cup {NoDest}]]
  <2>1. ASSUME NEW p \in Proc, NEW e \in Elem PROVE partition'[p][e] \in Proc \cup {NoDest}
    <3>1. CASE e \in mesh.elem
      BY <1>2, <1>6, <1>10, <1>11, <3>1
    <3>2. CASE e \notin mesh.elem
      BY <1>10, <1>13, <3>2 DEF TypeInv
    <3> QED  BY <3>1, <3>2
  <2>2. partition' = [p \in Proc |-> [e \in Elem |-> partition'[p][e]]]
    BY DEF TransferGrid
  <2> QED  BY <2>1, <2>2
<1> QED  BY <1>7, <1>8, <1>9, <1>12, <1>14, <1>15 DEF OverlapInv

LEMMA GhostPriosOverlap ==
  ASSUME TypeInv, OverlapInv, SetGhostObjectPriorities
  PROVE  /\ OverlapInv'
         /\ \A e \in mesh.elem : Home(e)' = Home(e)
         /\ prio' \in [Proc -> [Elem -> Prio \cup {NoPrio}]]
<1>1. /\ pc = "prios" /\ pc' \in {"flag", "adapt", "adapted"}
      /\ mesh' = mesh /\ partition' = partition
  BY DEF SetGhostObjectPriorities, StartRestricting
<1>2. mesh.elem \subseteq Elem
  BY ElemFacts DEF TypeInv
<1>3. \A p \in Proc, e \in Elem : prio'[p][e] = IF prio[p][e] = NoPrio THEN NoPrio ELSE GhostPrio(p, e)
  BY DEF SetGhostObjectPriorities
<1>4. \A p \in Proc : \A e \in Local(p) : e \in mesh.elem /\ partition[p][e] = Home(e)
  BY <1>1 DEF OverlapInv, DestsRight, Local
<1>5. \A p \in Proc, e \in mesh.elem : EMASTER(p, e) <=> e \in Local(p) /\ partition[p][e] = p
  <2>1. \A p \in Proc, e \in mesh.elem : EMASTER(p, e) <=> Home(e) = p
    BY HomeIs DEF OverlapInv
  <2>2. \A p \in Proc, e \in mesh.elem : EMASTER(p, e) => e \in Local(p)
    BY Near
  <2> QED  BY <1>4, <2>1, <2>2
<1>6. ASSUME NEW p \in Proc, NEW e \in mesh.elem PROVE prio'[p][e] = NeededPrio(p, e)
  <2>1. CASE prio[p][e] = NoPrio
    BY <1>1, <1>2, <1>3, <2>1 DEF OverlapInv, GhostsRight
  <2>2. CASE prio[p][e] # NoPrio
    <3> DEFINE side == \E n \in Masters(p) : {e, n} \in mesh.neighbor
               above == \E s \in Masters(p) : EFATHER(s) = e
    <3>1. e \in Local(p) /\ (partition[p][e] = p <=> EMASTER(p, e))
      BY <1>5, <2>2 DEF Local
    <3>2. side <=> \E n \in NBELEM(p, e) : partition[p][n] = p
      BY <1>4, <1>5 DEF Masters, NBELEM
    <3>3. above <=> \E s \in GetAllSons(p, e) : partition[p][s] = p
      BY <1>4, <1>5 DEF Masters, GetAllSons
    <3>4. NeededPrio(p, e) = IF EMASTER(p, e) THEN Master
                             ELSE IF side /\ above THEN VHGhost
                             ELSE IF above THEN VGhost
                             ELSE IF side THEN HGhost ELSE NoPrio
      BY DEF NeededPrio
    <3>5. NeededPrio(p, e) # NoPrio
      BY <2>2 DEF OverlapInv, GhostsRight
    <3>6. GhostPrio(p, e) = IF EMASTER(p, e) \/ ~(side \/ above) THEN prio[p][e]
                            ELSE IF ~above THEN HGhost ELSE IF side THEN VHGhost ELSE VGhost
      BY <3>1, <3>2, <3>3 DEF GhostPrio
    <3> HIDE DEF side, above
    <3>7. prio'[p][e] = GhostPrio(p, e)
      BY <1>2, <1>3, <2>2
    <3> QED  BY <3>4, <3>5, <3>6, <3>7 DEF EMASTER
  <2> QED  BY <2>1, <2>2
<1>7. \A p \in Proc, e \in mesh.elem : EMASTER(p, e)' <=> EMASTER(p, e)
  <2>1. \A p \in Proc, e \in mesh.elem : NeededPrio(p, e) = Master <=> EMASTER(p, e)
    BY DEF NeededPrio, Master, HGhost, VGhost, VHGhost, NoPrio
  <2> QED  BY <1>6, <2>1 DEF EMASTER
<1>8. OneMaster'
  BY <1>1, <1>7 DEF OverlapInv, OneMaster
<1>9. ASSUME NEW e \in mesh.elem PROVE Home(e)' = Home(e)
  <2>1. Home(e) \in Proc /\ \A q \in Proc : EMASTER(q, e) <=> q = Home(e)
    BY HomeIs DEF OverlapInv
  <2>2. Home(e)' \in Proc /\ \A q \in Proc : EMASTER(q, e)' <=> q = Home(e)'
    BY <1>1, <1>8, NextHome DEF HomeMeans
  <2> QED  BY <1>7, <2>1, <2>2
<1>10. \A p \in Proc : Masters(p)' = Masters(p)
  BY <1>1, <1>7 DEF Masters
<1>11. GhostsRight'
  <2> SUFFICES ASSUME NEW p \in Proc, NEW e \in mesh.elem
               PROVE  prio'[p][e] = (NeededPrio(p, e))'
    BY <1>1 DEF GhostsRight
  <2>1. (NeededPrio(p, e))' = NeededPrio(p, e)
    BY <1>1, <1>7, <1>10 DEF NeededPrio, EFATHER
  <2> QED  BY <1>6, <2>1
<1>12. DestsRight'
  <2> SUFFICES ASSUME NEW p \in Proc, NEW e \in Local(p)'
               PROVE  partition[p][e] \in Proc /\ partition[p][e] = Home(e)'
    BY <1>1 DEF DestsRight
  <2>1. e \in Local(p)
    BY <1>1, <1>2, <1>3 DEF Local
  <2> QED  BY <1>1, <1>4, <1>9, <2>1 DEF OverlapInv, DestsRight
<1>13. prio' \in [Proc -> [Elem -> Prio \cup {NoPrio}]]
  <2>1. \A p \in Proc, e \in Elem : prio'[p][e] \in Prio \cup {NoPrio}
    BY <1>3 DEF GhostPrio, TypeInv, Prio
  <2>2. prio' = [p \in Proc |-> [e \in Elem |-> prio'[p][e]]]
    BY DEF SetGhostObjectPriorities
  <2> QED  BY <2>1, <2>2
<1> QED  BY <1>8, <1>9, <1>11, <1>12, <1>13 DEF OverlapInv

LEMMA OverlapInit == Init => TypeInv /\ OverlapInv
<1> SUFFICES ASSUME Init PROVE TypeInv /\ OverlapInv
  OBVIOUS
<1>1. mesh \in Meshes /\ pc = "balance" /\ calls = 0
  BY DEF Init
<1>2. PICK p0 \in Proc :
         /\ prio = [p \in Proc |-> [e \in Elem |-> IF p = p0 /\ e \in mesh.elem THEN Master ELSE NoPrio]]
         /\ partition = [p \in Proc |-> [e \in Elem |-> IF p = p0 /\ e \in mesh.elem THEN p0 ELSE NoDest]]
  BY DEF Init
<1>3. mesh.elem \subseteq Elem
  BY <1>1, ElemFacts
<1>4. TypeInv
  BY <1>1, <1>2 DEF TypeInv, Prio
<1>5. \A p \in Proc, e \in mesh.elem : prio[p][e] = IF p = p0 THEN Master ELSE NoPrio
  BY <1>2, <1>3
<1>6. \A p \in Proc, e \in mesh.elem : EMASTER(p, e) <=> p = p0
  BY <1>5 DEF EMASTER, Master, NoPrio
<1>7. OneMaster
  BY <1>6 DEF OneMaster
<1>8. \A e \in mesh.elem : Home(e) = p0
  BY <1>6, <1>7, HomeIs
<1>9. ASSUME NEW p \in Proc, NEW e \in mesh.elem PROVE prio[p][e] = NeededPrio(p, e)
  <2>1. CASE p = p0
    BY <1>5, <1>6, <2>1 DEF NeededPrio
  <2>2. CASE p # p0
    <3>1. Masters(p) = {}
      BY <1>6, <2>2 DEF Masters
    <3>2. ~EMASTER(p, e)
      BY <1>6, <2>2
    <3> QED  BY <1>5, <2>2, <3>1, <3>2 DEF NeededPrio
  <2> QED  BY <2>1, <2>2
<1>10. DestsRight
  <2> SUFFICES ASSUME NEW p \in Proc, NEW e \in Local(p)
               PROVE  partition[p][e] \in Proc /\ partition[p][e] = Home(e)
    BY <1>1 DEF DestsRight
  <2>1. e \in mesh.elem /\ prio[p][e] # NoPrio
    BY DEF Local
  <2> QED  BY <1>2, <1>3, <1>5, <1>8, <2>1
<1> QED  BY <1>1, <1>4, <1>7, <1>9, <1>10 DEF OverlapInv, GhostsRight

LEMMA TypeNext ==
  ASSUME TypeInv, OverlapInv, [Next]_vars
  PROVE  TypeInv'
<1>1. mesh \in Meshes /\ mesh' = mesh /\ TOPLEVEL \in Nat /\ TOPLEVEL' = TOPLEVEL
  <2>1. mesh \in Meshes
    BY DEF TypeInv
  <2>2. mesh' = mesh
    BY DEF Next, vars, Balance, AdaptMultiGrid, SetRestrictionFlags, PushPartitions, UpdateGhostDests,
           TransferGrid, SetGhostObjectPriorities, Adapted
  <2> QED  BY <2>1, <2>2, TopLevel, SameMesh
<1> DEFINE Tables == /\ prio \in [Proc -> [Elem -> Prio \cup {NoPrio}]]
                     /\ partition \in [Proc -> [Elem -> Proc \cup {NoDest}]]
           Control == /\ pc \in {"balance", "adapt", "flag", "push", "dests", "xfer", "prios", "adapted"}
                      /\ pc \in {"flag", "push"} => level \in Nat
                      /\ calls \in Nat
                      /\ pc \in {"balance", "adapt"} => calls = 0
                      /\ pc \in {"flag", "push", "adapted"} => calls > 0
                      /\ pc = "adapted" => calls >= TOPLEVEL
<1>2. Tables /\ Control
  BY DEF TypeInv
<1>3. SUFFICES Tables' /\ Control'
  BY <1>1 DEF TypeInv
<1>4. \A p \in Proc : \A e \in Local(p) : partition[p][e] \in Proc
  BY DEF OverlapInv, DestsRight
<1>5. CASE Balance
  <2>1. PICK dest \in [mesh.elem -> Proc] :
           partition' = [p \in Proc |-> [e \in Elem |->
                IF e \in mesh.elem /\ EMASTER(p, e) THEN dest[e] ELSE partition[p][e]]]
    BY <1>5 DEF Balance
  <2>2. Tables'
    BY <1>2, <1>5, <2>1 DEF Balance
  <2>3. Control'
    BY <1>1, <1>2, <1>5 DEF Balance
  <2> QED  BY <2>2, <2>3
<1>6. CASE AdaptMultiGrid
  <2>1. Tables'
    BY <1>2, <1>6 DEF AdaptMultiGrid
  <2>2. Control'
    BY <1>1, <1>2, <1>6 DEF AdaptMultiGrid, StartRestricting
  <2> QED  BY <2>1, <2>2
<1>7. CASE SetRestrictionFlags
  <2>1. /\ pc = "flag" /\ level \in Nat
        /\ prio' = prio /\ partition' = partition /\ calls' = calls
        /\ \/ pc' = "push" /\ level' = 0
           \/ level # 0 /\ level' = level - 1 /\ pc' = pc
    BY <1>2, <1>7 DEF SetRestrictionFlags
  <2> QED  BY <1>1, <1>2, <2>1
<1>8. CASE PushPartitions
  <2>1. \A p \in Proc, e \in Elem : partition'[p][e] \in Proc \cup {NoDest}
    <3> SUFFICES ASSUME NEW p \in Proc, NEW e \in Elem PROVE partition'[p][e] \in Proc \cup {NoDest}
      OBVIOUS
    <3>1. CASE e \in Masters(p) /\ LEVEL(e) = level + 1 /\ EFATHER(e) \in used[p]
      <4>1. e \in mesh.elem /\ level \in Nat
        BY <1>2, <1>8, <3>1 DEF Masters, PushPartitions
      <4>2. EFATHER(e) \in Elem
        BY <1>1, <3>1, <4>1, ElemFacts
      <4> QED  BY <1>2, <1>8, <3>1, <4>2, PushedIs
    <3>2. CASE ~(e \in Masters(p) /\ LEVEL(e) = level + 1 /\ EFATHER(e) \in used[p])
      BY <1>2, <1>8, <3>2, PushedIs
    <3> QED  BY <3>1, <3>2
  <2>2. partition' = [p \in Proc |-> [e \in Elem |-> partition'[p][e]]]
    BY <1>8 DEF PushPartitions, PushedPartition
  <2>3. Tables'
    BY <1>2, <1>8, <2>1, <2>2 DEF PushPartitions
  <2>4. Control'
    BY <1>1, <1>2, <1>8 DEF PushPartitions
  <2> QED  BY <2>3, <2>4
<1>9. CASE UpdateGhostDests
  <2>1. \A e \in mesh.elem : Home(e) \in Proc /\ e \in Elem
    BY <1>1, HomeIs, ElemFacts DEF OverlapInv
  <2>2. Tables'
    BY <1>2, <1>9, <2>1 DEF UpdateGhostDests
  <2>3. Control'
    BY <1>1, <1>2, <1>9 DEF UpdateGhostDests
  <2> QED  BY <2>2, <2>3
<1>10. CASE TransferGrid
  <2>1. Tables'
    BY <1>10, TransferOverlap
  <2>2. Control'
    BY <1>1, <1>2, <1>10 DEF TransferGrid
  <2> QED  BY <2>1, <2>2
<1>11. CASE SetGhostObjectPriorities
  <2>1. Tables'
    BY <1>2, <1>11, GhostPriosOverlap DEF SetGhostObjectPriorities
  <2>2. Control'
    BY <1>1, <1>2, <1>11 DEF SetGhostObjectPriorities, StartRestricting, RestrictAgain
  <2> QED  BY <2>1, <2>2
<1>12. CASE Adapted
  BY <1>1, <1>2, <1>12 DEF Adapted
<1>13. CASE UNCHANGED vars
  BY <1>1, <1>2, <1>13 DEF vars
<1> HIDE DEF Tables, Control
<1> QED  BY <1>5, <1>6, <1>7, <1>8, <1>9, <1>10, <1>11, <1>12, <1>13 DEF Next

LEMMA OverlapNext ==
  ASSUME TypeInv, OverlapInv, [Next]_vars
  PROVE  OverlapInv'
<1>1. mesh \in Meshes /\ mesh.elem \subseteq Elem
  BY ElemFacts DEF TypeInv
<1>2. \A p \in Proc : \A e \in Local(p) :
        /\ e \in mesh.elem /\ e \in Elem
        /\ partition[p][e] \in Proc
        /\ pc \in {"balance", "adapt", "flag", "prios", "adapted"} => partition[p][e] = Home(e)
        /\ pc = "push" /\ ~EMASTER(p, e) => partition[p][e] = Home(e)
        /\ pc = "xfer" => partition[p][e] = Dest(e)
  BY <1>1 DEF OverlapInv, DestsRight, Local
<1>3. CASE Balance
  <2>1. PICK dest \in [mesh.elem -> Proc] :
           partition' = [p \in Proc |-> [e \in Elem |->
                IF e \in mesh.elem /\ EMASTER(p, e) THEN dest[e] ELSE partition[p][e]]]
    BY <1>3 DEF Balance
  <2>2. \A p \in Proc : \A e \in Local(p) : partition'[p][e] \in Proc
    BY <1>2, <2>1
  <2>3. mesh' = mesh /\ prio' = prio /\ pc = "balance" /\ pc' = "dests"
    BY <1>3 DEF Balance
  <2> QED  BY <2>2, <2>3, OverlapSame
<1>4. CASE AdaptMultiGrid
  <2>1. /\ mesh' = mesh /\ prio' = prio /\ partition' = partition
        /\ pc = "adapt" /\ pc' \in {"balance", "flag"}
    BY <1>4 DEF AdaptMultiGrid, StartRestricting
  <2> QED  BY <1>2, <2>1, OverlapSame
<1>5. CASE SetRestrictionFlags
  <2>1. /\ mesh' = mesh /\ prio' = prio /\ partition' = partition
        /\ pc = "flag" /\ pc' \in {"flag", "push"}
    BY <1>5 DEF SetRestrictionFlags
  <2> QED  BY <1>2, <2>1, OverlapSame
<1>6. CASE PushPartitions
  <2>1. /\ mesh' = mesh /\ prio' = prio /\ pc = "push" /\ pc' \in {"push", "dests"} /\ level \in Nat
    BY <1>6 DEF PushPartitions, TypeInv
  <2>2. ASSUME NEW p \in Proc, NEW e \in Local(p)
        PROVE  /\ partition'[p][e] \in Proc
               /\ ~EMASTER(p, e) => partition'[p][e] = Home(e)
    <3>1. CASE e \in Masters(p) /\ LEVEL(e) = level + 1 /\ EFATHER(e) \in used[p]
      <4>1. e \in mesh.elem /\ EMASTER(p, e)
        BY <3>1 DEF Masters
      <4>2. EFATHER(e) \in mesh.elem
        BY <1>1, <2>1, <3>1, <4>1, ElemFacts
      <4>3. EFATHER(e) \in Local(p)
        BY <4>1, <4>2, Near
      <4> QED  BY <1>2, <1>6, <3>1, <4>1, <4>3, PushedIs
    <3>2. CASE ~(e \in Masters(p) /\ LEVEL(e) = level + 1 /\ EFATHER(e) \in used[p])
      BY <1>2, <1>6, <2>1, <3>2, PushedIs
    <3> QED  BY <3>1, <3>2
  <2> QED  BY <2>1, <2>2, OverlapSame
<1>7. CASE UpdateGhostDests
  <2>1. mesh' = mesh /\ prio' = prio /\ pc = "dests" /\ pc' = "xfer"
    BY <1>7 DEF UpdateGhostDests
  <2>2. \A p \in Proc, e \in Elem : partition'[p][e] =
            IF e \in mesh.elem /\ EGHOST(p, e) THEN partition[Home(e)][e] ELSE partition[p][e]
    BY <1>7 DEF UpdateGhostDests
  <2>3. ASSUME NEW p \in Proc, NEW e \in Local(p)
        PROVE  partition'[p][e] = partition[Home(e)][e] /\ partition[Home(e)][e] \in Proc
    <3>1. e \in mesh.elem /\ e \in Elem /\ prio[p][e] # NoPrio
      BY <1>2 DEF Local
    <3>2. Home(e) \in Proc /\ (EMASTER(p, e) <=> p = Home(e)) /\ Home(e) \in Proc /\ EMASTER(Home(e), e)
      BY <3>1, HomeIs DEF OverlapInv
    <3>3. e \in Local(Home(e)) /\ partition[Home(e)][e] \in Proc
      BY <1>2, <3>1, <3>2, Near
    <3>4. EGHOST(p, e) \/ EMASTER(p, e)
      BY <3>1, CopyKinds
    <3> QED  BY <2>2, <3>1, <3>2, <3>3, <3>4
  <2>4. ASSUME NEW e \in mesh.elem PROVE Home(e) \in Proc /\ e \in Local(Home(e))
    BY HomeIs, Near DEF OverlapInv
  <2>5. \A p \in Proc : \A e \in Local(p) : partition'[p][e] = partition'[Home(e)][e]
    BY <1>2, <2>3, <2>4
  <2> QED  BY <2>1, <2>3, <2>5, OverlapSame
<1>8. CASE TransferGrid
  BY <1>8, TransferOverlap
<1>9. CASE SetGhostObjectPriorities
  BY <1>9, GhostPriosOverlap
<1>10. CASE Adapted
  <2>1. /\ mesh' = mesh /\ prio' = prio /\ partition' = partition
        /\ pc = "adapted" /\ pc' = "balance"
    BY <1>10 DEF Adapted
  <2> QED  BY <1>2, <2>1, OverlapSame
<1>11. CASE UNCHANGED vars
  <2>1. mesh' = mesh /\ prio' = prio /\ partition' = partition /\ pc' = pc
    BY <1>11 DEF vars
  <2>2. OneMaster' /\ GhostsRight'
    BY <2>1, SamePrios DEF OverlapInv, GhostsRight
  <2>3. DestsRight'
    BY <2>1, SamePrios DEF OverlapInv, DestsRight, Dest
  <2> QED  BY <2>2, <2>3 DEF OverlapInv
<1> QED  BY <1>3, <1>4, <1>5, <1>6, <1>7, <1>8, <1>9, <1>10, <1>11 DEF Next

(* Between transfers a processor has exactly the copies it needs, with the   *)
(* right priorities; there is one master, and all copies know where it is.   *)
THEOREM OverlapHolds == Spec => []OverlapRight
<1>1. TypeInv /\ OverlapInv => OverlapRight
  <2> SUFFICES ASSUME TypeInv, OverlapInv, pc \in {"balance", "adapt", "adapted"}, NEW e \in mesh.elem
               PROVE  /\ \E p \in Proc : \A q \in Proc : EMASTER(q, e) <=> q = p
                      /\ \A p \in Proc : prio[p][e] = NeededPrio(p, e)
                      /\ \A p \in Proc : e \in Local(p) => partition[p][e] = Home(e)
    BY DEF OverlapRight
  <2> QED  BY DEF OverlapInv, OneMaster, GhostsRight, DestsRight
<1>2. TypeInv /\ OverlapInv /\ [Next]_vars => (TypeInv /\ OverlapInv)'
  BY TypeNext, OverlapNext
<1> QED  BY <1>1, <1>2, OverlapInit, PTL DEF Spec

-------------------------------------------------------------------------------
(* How far from their fathers elements are, and what a call makes of it.     *)

LEMMA ChainBound ==
  ASSUME mesh \in Meshes, NEW H, NEW e \in mesh.elem, NEW r \in Line[e], mesh.class[r] = "RED"
  PROVE  /\ IsFiniteSet(Apart(H, e)) /\ Cardinality(Apart(H, e)) \in Nat
         /\ Cardinality(Apart(H, e)) <= LEVEL(e) - LEVEL(r)
<1> DEFINE A == Apart(H, e)
           I == (LEVEL(r) + 1) .. LEVEL(e)
           f == [x \in A |-> LEVEL(x)]
<1>1. LineRight(e)
  BY Lines
<1>2. A \subseteq Line[e] /\ \A x \in A : mesh.class[x] # "RED"
  BY DEF Apart
<1>3. \A x \in Line[e] : LEVEL(x) \in Nat /\ LEVEL(x) <= LEVEL(e)
  BY <1>1, ElemFacts DEF LineRight
<1>4. \A x \in A : LEVEL(r) < LEVEL(x)
  BY <1>2, IrregularBelow
<1>5. \A x \in A : LEVEL(x) \in I
  BY <1>2, <1>3, <1>4
<1>6. \A x, y \in A : LEVEL(x) = LEVEL(y) => x = y
  BY <1>1, <1>2 DEF LineRight
<1>7. f \in Injection(A, I)
  BY <1>5, <1>6 DEF Injection, IsInjective
<1>8. LEVEL(r) + 1 \in Int /\ LEVEL(e) \in Int /\ LEVEL(r) <= LEVEL(e)
  BY <1>3, ElemFacts
<1>9. IsFiniteSet(I) /\ Cardinality(I) = LEVEL(e) - LEVEL(r)
  <2>1. IsFiniteSet(I) /\ Cardinality(I) =
            IF LEVEL(r) + 1 > LEVEL(e) THEN 0 ELSE LEVEL(e) - (LEVEL(r) + 1) + 1
    BY <1>8, FS_Interval
  <2> QED  BY <1>3, <1>8, <2>1
<1> HIDE DEF A, I, f
<1>10. IsFiniteSet(A) /\ Cardinality(A) <= Cardinality(I)
  BY <1>7, <1>9, FS_Injection
<1>11. Cardinality(A) \in Nat
  BY <1>10, FS_CardinalityType
<1> QED  BY <1>9, <1>10, <1>11 DEF A

(* An element to be together with its father stays so; one that is not goes  *)
(* to where its father was if it is in M, and stays otherwise.               *)
Moved(H, D, M) ==
    \A x \in mesh.elem : LEVEL(x) > 0 =>
        IF H[x] = H[EFATHER(x)] THEN D[x] = D[EFATHER(x)]
        ELSE D[x] = IF x \in M THEN H[EFATHER(x)] ELSE H[x]

LEMMA FewerApart ==
  ASSUME mesh \in Meshes, NEW H, NEW D, NEW M, Moved(H, D, M), NEW e \in mesh.elem,
         \A r \in Line[e] : mesh.class[r] = "RED" => D[r] = H[r],
         \E x \in Apart(H, e) : x \in M
  PROVE  Apart(D, e) # Apart(H, e)
<1>1. LineRight(e) /\ \A x \in Line[e] : x \in mesh.elem /\ LEVEL(x) \in Nat
  BY Lines, ElemFacts DEF LineRight
<1> DEFINE Arriving == {x \in Apart(H, e) : x \in M}
<1>2. PICK x \in Arriving : \A y \in Arriving : LEVEL(x) <= LEVEL(y)
  <2>1. Arriving \in SUBSET mesh.elem /\ Arriving # {}
    BY <1>1 DEF Apart
  <2> HIDE DEF Arriving
  <2> QED  BY <2>1, Coarsest
<1>3. x \in Line[e] /\ mesh.class[x] # "RED" /\ H[x] # H[EFATHER(x)] /\ x \in M
  BY <1>2 DEF Apart
<1>4. \A y \in Line[e] : mesh.class[y] # "RED" =>
         LEVEL(y) > 0 /\ EFATHER(y) \in Line[e] /\ LEVEL(EFATHER(y)) = LEVEL(y) - 1
  <2>1. \A y \in Line[e] : mesh.class[y] # "RED" => LEVEL(y) # 0
    BY <1>1, ElemFacts
  <2> QED  BY <1>1, <2>1, ElemFacts DEF LineRight
<1> DEFINE Bad == {y \in Line[e] : LEVEL(y) < LEVEL(x) /\ D[y] # H[y]}
<1>5. Bad = {}
  <2>1. SUFFICES ASSUME Bad # {} PROVE FALSE
    OBVIOUS
  <2>2. PICK y \in Bad : \A z \in Bad : LEVEL(y) <= LEVEL(z)
    <3>1. Bad \in SUBSET mesh.elem
      BY <1>1
    <3> HIDE DEF Bad
    <3> QED  BY <2>1, <3>1, Coarsest
  <2>3. y \in Line[e] /\ LEVEL(y) < LEVEL(x) /\ D[y] # H[y] /\ mesh.class[y] # "RED"
    BY <2>2
  <2> DEFINE g == EFATHER(y)
  <2>4. LEVEL(y) > 0 /\ g \in Line[e] /\ LEVEL(g) < LEVEL(y) /\ LEVEL(g) < LEVEL(x)
    BY <1>1, <1>3, <1>4, <2>3
  <2>5. D[g] = H[g]
    BY <1>1, <2>2, <2>4
  <2>6. IF H[y] = H[g] THEN D[y] = D[g] ELSE D[y] = IF y \in M THEN H[g] ELSE H[y]
    BY <1>1, <2>3, <2>4 DEF Moved
  <2>7. H[y] # H[g] /\ y \in M
    BY <2>3, <2>5, <2>6
  <2>8. y \in Arriving
    BY <2>3, <2>7 DEF Apart
  <2>9. LEVEL(x) <= LEVEL(y)
    BY <1>2, <2>8
  <2> QED  BY <1>1, <1>3, <2>3, <2>9
<1>6. D[EFATHER(x)] = H[EFATHER(x)]
  BY <1>1, <1>3, <1>4, <1>5
<1>7. D[x] = H[EFATHER(x)]
  BY <1>1, <1>3, <1>4 DEF Moved
<1>8. x \notin Apart(D, e) /\ x \in Apart(H, e)
  BY <1>2, <1>6, <1>7 DEF Apart
<1> QED  BY <1>8

LEMMA NoneTakenApart ==
  ASSUME mesh \in Meshes, NEW H, NEW D, NEW M, Moved(H, D, M), NEW e \in mesh.elem
  PROVE  Apart(D, e) \subseteq Apart(H, e)
<1> SUFFICES ASSUME NEW x \in Apart(D, e) PROVE x \in Apart(H, e)
  OBVIOUS
<1>1. x \in Line[e] /\ mesh.class[x] # "RED" /\ D[x] # D[EFATHER(x)]
  BY DEF Apart
<1>2. x \in mesh.elem
  BY <1>1, Lines DEF LineRight
<1>3. LEVEL(x) > 0
  BY <1>1, <1>2, ElemFacts
<1> QED  BY <1>1, <1>2, <1>3 DEF Moved, Apart

LEMMA RepairedOnceMore ==
  ASSUME mesh \in Meshes, NEW H, NEW D, NEW M, Moved(H, D, M), NEW c \in Nat, Repaired(H, c),
         \A x \in mesh.elem : mesh.class[x] = "RED" /\ LEVEL(x) <= c + 1 => D[x] = H[x],
         \A e \in mesh.elem : LEAFELEM(e) /\ Apart(H, e) # {} => \E x \in Apart(H, e) : x \in M,
         \A x \in mesh.coarsen : mesh.class[x] = "RED" /\ LEVEL(x) > 1 /\ H[x] # H[EFATHER(x)] => x \in M
  PROVE  Repaired(D, c + 1)
<1>1. ASSUME NEW e \in mesh.elem, LEAFELEM(e), \A r \in Line[e] : mesh.class[r] = "RED" => LEVEL(r) <= c + 1
      PROVE  Apart(D, e) = {} \/ Cardinality(Apart(D, e)) <= LEVEL(e) - (c + 1)
  <2>1. LineRight(e) /\ LEVEL(e) \in Nat /\ \A x \in Line[e] : x \in mesh.elem /\ LEVEL(x) \in Nat
    BY Lines, ElemFacts DEF LineRight
  <2>2. CASE \E r \in Line[e] : mesh.class[r] = "RED" /\ LEVEL(r) > c
    <3>1. PICK r \in Line[e] : mesh.class[r] = "RED" /\ LEVEL(r) > c
      BY <2>2
    <3>2. LEVEL(r) = c + 1
      BY <1>1, <2>1, <3>1
    <3> QED  BY <3>1, <3>2, ChainBound
  <2>3. CASE \A r \in Line[e] : mesh.class[r] = "RED" => LEVEL(r) <= c
    <3>1. Apart(D, e) \subseteq Apart(H, e)
      BY NoneTakenApart
    <3>2. SUFFICES ASSUME Apart(H, e) # {} PROVE Cardinality(Apart(D, e)) <= LEVEL(e) - (c + 1)
      BY <3>1
    <3>3. Cardinality(Apart(H, e)) <= LEVEL(e) - c
      BY <1>1, <2>3, <3>2 DEF Repaired
    <3>4. PICK r \in Line[e] : mesh.class[r] = "RED"
      BY <2>1, ElemFacts DEF LineRight
    <3>5. /\ IsFiniteSet(Apart(H, e)) /\ Cardinality(Apart(H, e)) \in Nat
          /\ IsFiniteSet(Apart(D, e)) /\ Cardinality(Apart(D, e)) \in Nat
      BY <3>4, ChainBound
    <3>6. \A x \in Line[e] : mesh.class[x] = "RED" => D[x] = H[x]
      BY <2>1, <2>3
    <3>7. Apart(D, e) # Apart(H, e)
      BY <1>1, <3>2, <3>6, FewerApart
    <3>8. /\ Cardinality(Apart(D, e)) <= Cardinality(Apart(H, e))
          /\ Cardinality(Apart(D, e)) # Cardinality(Apart(H, e))
      BY <3>1, <3>5, <3>7, FS_Subset
    <3> QED  BY <2>1, <3>3, <3>5, <3>8
  <2> QED  BY <2>1, <2>2, <2>3
<1>2. ASSUME NEW x \in mesh.coarsen, mesh.class[x] = "RED", 1 < LEVEL(x), LEVEL(x) <= (c + 1) + 1
      PROVE  D[x] = D[EFATHER(x)]
  <2> DEFINE g == EFATHER(x)
  <2>1. x \in mesh.elem /\ LEVEL(x) \in Nat /\ LEVEL(x) > 0
    BY <1>2, ElemFacts
  <2>2. g \in mesh.elem /\ LEVEL(g) = LEVEL(x) - 1
    BY <2>1, ElemFacts
  <2>3. mesh.class[g] = "RED"
    BY <1>2, <2>1, ClassFacts
  <2>4. D[g] = H[g]
    BY <1>2, <2>1, <2>2, <2>3
  <2>5. IF H[x] = H[g] THEN D[x] = D[g] ELSE D[x] = IF x \in M THEN H[g] ELSE H[x]
    BY <2>1 DEF Moved
  <2> QED  BY <1>2, <2>4, <2>5
<1> QED  BY <1>1, <1>2 DEF Repaired

LEMMA RepairedAtFirst ==
  ASSUME mesh \in Meshes, NEW H
  PROVE  Repaired(H, 0)
<1>1. ASSUME NEW e \in mesh.elem
      PROVE  Cardinality(Apart(H, e)) <= LEVEL(e) - 0
  <2>1. PICK r \in Line[e] : LEVEL(r) = 0 /\ r \in mesh.elem
    BY Lines DEF LineRight
  <2>2. mesh.class[r] = "RED"
    BY <2>1, ElemFacts
  <2>3. Cardinality(Apart(H, e)) <= LEVEL(e) - LEVEL(r)
    BY <2>2, ChainBound
  <2> QED  BY <2>1, <2>3
<1>2. ASSUME NEW x \in mesh.coarsen PROVE ~(1 < LEVEL(x) /\ LEVEL(x) <= 0 + 1)
  BY ElemFacts
<1> QED  BY <1>1, <1>2 DEF Repaired

(* Regular looks up to the first element that is a ghost or regular. *)
LEMMA RegularIs ==
  ASSUME mesh \in Meshes, NEW p, NEW e \in mesh.elem
  PROVE  /\ Regular(p, e) \in Line[e]
         /\ ~EMASTER(p, Regular(p, e)) \/ mesh.class[Regular(p, e)] = "RED"
         /\ \A b \in Line[e] : LEVEL(b) > LEVEL(Regular(p, e)) => EMASTER(p, b) /\ mesh.class[b] # "RED"
         /\ EMASTER(p, e) /\ mesh.class[e] = "RED" => Regular(p, e) = e
<1> DEFINE Stops == {a \in Line[e] : ~EMASTER(p, a) \/ mesh.class[a] = "RED" \/ LEVEL(a) = 0}
<1>1. LineRight(e) /\ \A x \in Line[e] : x \in mesh.elem /\ LEVEL(x) \in Nat
  BY Lines, ElemFacts DEF LineRight
<1>2. PICK a \in Stops : \A x \in Stops : LEVEL(x) <= LEVEL(a)
  <2>1. Stops \in SUBSET mesh.elem /\ Stops # {}
    BY <1>1 DEF LineRight
  <2> HIDE DEF Stops
  <2> QED  BY <2>1, Finest
<1>3. /\ a \in Line[e]
      /\ ~EMASTER(p, a) \/ mesh.class[a] = "RED" \/ LEVEL(a) = 0
      /\ \A b \in Line[e] : LEVEL(b) > LEVEL(a) => EMASTER(p, b) /\ mesh.class[b] # "RED" /\ LEVEL(b) > 0
  <2>1. \A b \in Line[e] : LEVEL(b) > LEVEL(a) => b \notin Stops
    BY <1>1, <1>2
  <2> QED  BY <1>1, <1>2, <2>1
<1> DEFINE R == Regular(p, e)
<1>4. /\ R \in Line[e]
      /\ ~EMASTER(p, R) \/ mesh.class[R] = "RED" \/ LEVEL(R) = 0
      /\ \A b \in Line[e] : LEVEL(b) > LEVEL(R) => EMASTER(p, b) /\ mesh.class[b] # "RED" /\ LEVEL(b) > 0
  BY <1>3 DEF Regular
<1> HIDE DEF R
<1>5. LEVEL(R) = 0 => mesh.class[R] = "RED"
  BY <1>1, <1>4, ElemFacts
<1>6. ASSUME mesh.class[e] = "RED" PROVE R = e
  <2>1. e \in Line[e] /\ LEVEL(e) \in Nat
    BY <1>1 DEF LineRight
  <2>2. ~(LEVEL(e) > LEVEL(R))
    BY <1>4, <1>6, <2>1
  <2>3. R # e => LEVEL(R) < LEVEL(e)
    BY <1>1, <1>4 DEF LineRight
  <2> QED  BY <2>2, <2>3
<1> QED  BY <1>4, <1>5, <1>6 DEF R

-------------------------------------------------------------------------------
(* The first loop of RestrictPartitioning.                                   *)

LEMMA RepairedNext ==
  ASSUME mesh' = mesh
  PROVE  /\ Repaired(Homes, calls - 1)' <=> Repaired(Homes', calls' - 1)
         /\ Repaired(Homes, calls)' <=> Repaired(Homes', calls')
         /\ Repaired(Dests, calls)' <=> Repaired(Dests', calls')
<1>1. /\ Line' = Line
      /\ \A e : LEVEL(e)' = LEVEL(e) /\ EFATHER(e)' = EFATHER(e) /\ (LEAFELEM(e)' <=> LEAFELEM(e))
  BY SameMesh
<1>2. /\ \A e : Apart(Homes, e)' = Apart(Homes', e)
      /\ \A e : Apart(Dests, e)' = Apart(Dests', e)
  BY <1>1 DEF Apart
<1> QED  BY <1>1, <1>2 DEF Repaired

LEMMA SameHomes ==
  ASSUME mesh' = mesh, \A e \in mesh.elem : Home(e)' = Home(e)
  PROVE  Homes' = Homes
  BY DEF Homes

(* The flags are reset before the finest level. *)
LEMMA Started ==
  ASSUME TypeInv, mesh' = mesh, StartRestricting, Repaired(Homes', calls' - 1)
  PROVE  PushInv' /\ LeavesFlagged' /\ Calm' /\ RepairInv' /\ TogetherInv'
<1>1. pc' = "flag" /\ level' = TOPLEVEL /\ used' = [p \in Proc |-> {}]
  BY DEF StartRestricting
<1>2. Calm'
  BY <1>1 DEF Calm
<1>3. \A e \in mesh.elem : ~(LEVEL(e) > TOPLEVEL)
  BY TopLevel, ElemFacts DEF TypeInv
<1>4. LeavesFlagged'
  <2> SUFFICES ASSUME NEW p \in Proc, NEW e \in Masters(p)', LEVEL(e)' > level'
               PROVE  FALSE
    BY <1>1 DEF LeavesFlagged
  <2>1. e \in mesh.elem
    BY DEF Masters
  <2> QED  BY <1>1, <1>3, <2>1, SameMesh
<1> QED  BY <1>1, <1>2, <1>4, RepairedNext DEF PushInv, RepairInv, TogetherInv

(* What is flagged in one step. *)
LEMMA FlaggedIs ==
  ASSUME NEW p, NEW f
  PROVE  f \in Flagged(p) <=>
            \E e \in mesh.elem :
               /\ EMASTER(p, e) /\ LEVEL(e) = level /\ level > 0 /\ (LEAFELEM(e) \/ e \in used[p])
               /\ f \in Missing(p, e)
  BY DEF Flagged, Missing, Masters, OnLevel

LEMMA FlaggedCalm ==
  ASSUME TypeInv, OverlapInv, NEW p \in Proc, NEW e \in mesh.elem, EMASTER(p, e),
         Repaired(Homes, calls - 1),
         NEW x \in mesh.elem, EFATHER(x) \in Missing(p, e), mesh.class[x] = "RED", LEVEL(x) > 0
  PROVE  LEVEL(x) > calls
<1> DEFINE a == Regular(p, e)
           f == EFATHER(x)
<1>1. mesh \in Meshes /\ LineRight(e) /\ calls \in Nat
  BY Lines DEF TypeInv
<1>2. /\ a \in Line[e]
      /\ ~EMASTER(p, a) \/ mesh.class[a] = "RED"
      /\ \A b \in Line[e] : LEVEL(b) > LEVEL(a) => EMASTER(p, b) /\ mesh.class[b] # "RED"
  BY <1>1, RegularIs
<1>3. a \in mesh.elem /\ LEVEL(a) \in Nat /\ LEVEL(x) \in Nat
  BY <1>1, <1>2, ElemFacts DEF LineRight
<1> HIDE DEF a
<1>4. \/ ~EMASTER(p, a) /\ f = a
      \/ a \in mesh.coarsen /\ LEVEL(a) > 1 /\ ~EMASTER(p, EFATHER(a)) /\ f = EFATHER(a)
  BY DEF Missing, CoarsenNeeds, a
<1>5. CASE ~EMASTER(p, a) /\ f = a
  <2>1. a # e
    BY <1>5
  <2>2. PICK y \in Line[e] : LEVEL(y) > 0 /\ EFATHER(y) = a
    BY <1>1, <1>2, <2>1 DEF LineRight
  <2>3. y \in mesh.elem /\ LEVEL(y) > LEVEL(a)
    BY <1>1, <1>3, <2>2, ElemFacts DEF LineRight
  <2>4. mesh.class[y] # "RED"
    BY <1>2, <2>3
  <2>5. mesh.class[x] = mesh.class[y]
    BY <1>1, <1>5, <2>2, <2>3, ClassFacts
  <2> QED  BY <2>4, <2>5
<1>6. CASE a \in mesh.coarsen /\ LEVEL(a) > 1 /\ ~EMASTER(p, EFATHER(a)) /\ f = EFATHER(a)
  <2>1. \A y \in mesh.elem : EFATHER(y) # a
    BY <1>1, <1>6, ElemFacts DEF LEAFELEM
  <2>2. a = e
    BY <1>1, <1>2, <2>1 DEF LineRight
  <2>3. mesh.class[a] = "RED"
    BY <1>2, <2>2
  <2>4. EFATHER(a) \in mesh.elem /\ LEVEL(EFATHER(a)) = LEVEL(a) - 1
        /\ LEVEL(EFATHER(x)) = LEVEL(x) - 1
    BY <1>1, <1>3, <1>6, ElemFacts
  <2>5. p = Home(a) /\ p # Home(EFATHER(a))
    BY <1>3, <1>6, <2>2, <2>4, HomeIs DEF OverlapInv
  <2>6. Homes[a] # Homes[EFATHER(a)]
    BY <1>3, <2>4, <2>5 DEF Homes
  <2>7. ~(LEVEL(a) <= (calls - 1) + 1)
    BY <1>6, <2>3, <2>6 DEF Repaired
  <2> QED  BY <1>1, <1>3, <1>6, <2>4, <2>7
<1> QED  BY <1>4, <1>5, <1>6

LEMMA FlagNext ==
  ASSUME TypeInv, OverlapInv, LeavesFlagged, Calm, RepairInv, SetRestrictionFlags
  PROVE  PushInv' /\ LeavesFlagged' /\ Calm' /\ RepairInv' /\ TogetherInv'
<1> DEFINE flags == [p \in Proc |-> used[p] \cup Flagged(p)]
<1>1. /\ pc = "flag" /\ level \in Nat /\ mesh \in Meshes
      /\ mesh' = mesh /\ prio' = prio /\ partition' = partition /\ calls' = calls
      /\ \/ pc' = "push" /\ level = 0 /\ level' = 0
         \/ level # 0 /\ level' = level - 1 /\ pc' = "flag"
  BY DEF SetRestrictionFlags, TypeInv
<1>2. used' = [p \in Proc |-> flags[p] \cup
                  {e \in Masters(p) \cap OnLevel(level) :
                      \E q \in Proc : EGHOST(q, e) /\ e \in flags[q]}]
  BY DEF SetRestrictionFlags
<1>3. \A p \in Proc : used[p] \subseteq used'[p] /\ Flagged(p) \subseteq used'[p]
  BY <1>2
<1>4. \A p \in Proc : \A f \in used'[p] : \E q \in Proc : f \in used[q] \/ f \in Flagged(q)
  BY <1>2
<1> HIDE DEF flags
<1>5. /\ \A e : LEVEL(e)' = LEVEL(e) /\ EFATHER(e)' = EFATHER(e) /\ (LEAFELEM(e)' <=> LEAFELEM(e))
      /\ Line' = Line
      /\ \A p, e : EMASTER(p, e)' <=> EMASTER(p, e)
      /\ \A p : Masters(p)' = Masters(p)
      /\ \A e : Home(e)' = Home(e)
  BY <1>1, SameMesh, SamePrios
<1>6. Repaired(Homes, calls - 1) /\ Homes' = Homes
  BY <1>1, <1>5, SameHomes DEF RepairInv
<1>7. RepairInv' /\ TogetherInv'
  BY <1>1, <1>6, RepairedNext DEF RepairInv, TogetherInv
<1>8. Calm'
  <2> SUFFICES ASSUME NEW p \in Proc, NEW x \in mesh.elem, mesh.class[x] = "RED",
                      0 < LEVEL(x), LEVEL(x) <= calls, EFATHER(x) \in used'[p]
               PROVE  FALSE
    BY <1>1, <1>5 DEF Calm
  <2>1. PICK q \in Proc : EFATHER(x) \in used[q] \/ EFATHER(x) \in Flagged(q)
    BY <1>4
  <2>2. EFATHER(x) \notin used[q]
    BY <1>1 DEF Calm
  <2>3. PICK e \in mesh.elem : EMASTER(q, e) /\ EFATHER(x) \in Missing(q, e)
    BY <2>1, <2>2, FlaggedIs
  <2>4. LEVEL(x) > calls
    BY <1>6, <2>3, FlaggedCalm
  <2> QED  BY <1>1, <2>4, ElemFacts DEF TypeInv
<1>9. \A p : \A e : Missing(p, e)' = Missing(p, e)
  <2>1. \A p, e : Regular(p, e)' = Regular(p, e)
    BY <1>1, <1>5 DEF Regular
  <2> QED  BY <1>1, <1>5, <2>1 DEF Missing, CoarsenNeeds
<1>10. LeavesFlagged'
  <2> SUFFICES ASSUME NEW p \in Proc, NEW e \in Masters(p), LEAFELEM(e), LEVEL(e) > 0,
                      pc' = "push" \/ LEVEL(e) > level'
               PROVE  Missing(p, e) \subseteq used'[p]
    BY <1>5, <1>9 DEF LeavesFlagged
  <2>1. e \in mesh.elem /\ EMASTER(p, e) /\ LEVEL(e) \in Nat
    BY <1>1, ElemFacts DEF Masters
  <2>2. LEVEL(e) > level \/ LEVEL(e) = level
    BY <1>1, <2>1
  <2>3. CASE LEVEL(e) > level
    BY <1>1, <1>3, <2>3 DEF LeavesFlagged
  <2>4. CASE LEVEL(e) = level
    <3>1. Missing(p, e) \subseteq Flagged(p)
      BY <2>1, <2>4, FlaggedIs
    <3> QED  BY <1>3, <3>1
  <2> QED  BY <2>2, <2>3, <2>4
<1>11. PushInv'
  <2>1. SUFFICES ASSUME pc' = "push" PROVE MovedUpTo(0)'
    BY <1>1 DEF PushInv
  <2>2. \A x \in mesh.elem : partition[Home(x)][x] = Home(x)
    <3> SUFFICES ASSUME NEW x \in mesh.elem PROVE partition[Home(x)][x] = Home(x)
      OBVIOUS
    <3>1. Home(x) \in Proc /\ EMASTER(Home(x), x)
      BY HomeIs DEF OverlapInv
    <3>2. x \in Local(Home(x))
      BY <3>1, Near
    <3> QED  BY <1>1, <3>1, <3>2 DEF OverlapInv, DestsRight
  <2>3. \A x \in mesh.elem : Dest(x)' = Home(x)'
    BY <1>1, <1>5, <2>2 DEF Dest
  <2>4. \A x \in mesh.elem : ~(0 < LEVEL(x) /\ LEVEL(x) <= 0)
    BY <1>1, ElemFacts
  <2> QED  BY <1>1, <1>5, <2>3, <2>4 DEF MovedUpTo
<1> QED  BY <1>7, <1>8, <1>10, <1>11

-------------------------------------------------------------------------------
(* The second loop of RestrictPartitioning.                                  *)

(* Where the loop up the fathers stops at a ghost the chain is interrupted.  *)
LEMMA Interrupted ==
  ASSUME TypeInv, OneMaster, NEW e \in mesh.elem, ~EMASTER(Home(e), Regular(Home(e), e))
  PROVE  \E y \in Apart(Homes, e) :
            LEVEL(y) > 0 /\ EFATHER(y) = Regular(Home(e), e) /\ Home(y) = Home(e)
<1> DEFINE p == Home(e)
           a == Regular(p, e)
<1>1. mesh \in Meshes /\ LineRight(e) /\ p \in Proc /\ EMASTER(p, e)
  BY Lines, HomeIs DEF TypeInv
<1>2. \A x \in Line[e] : x \in mesh.elem /\ LEVEL(x) \in Nat /\ (EMASTER(p, x) <=> p = Home(x))
  BY <1>1, HomeIs, ElemFacts DEF LineRight
<1>3. /\ a \in Line[e]
      /\ \A b \in Line[e] : LEVEL(b) > LEVEL(a) => EMASTER(p, b) /\ mesh.class[b] # "RED"
  BY <1>1, RegularIs
<1>4. ~EMASTER(p, a)
  OBVIOUS
<1> HIDE DEF p, a
<1>5. a # e
  BY <1>1, <1>4
<1>6. PICK y \in Line[e] : LEVEL(y) > 0 /\ EFATHER(y) = a
  BY <1>1, <1>3, <1>5 DEF LineRight
<1>7. LEVEL(y) > LEVEL(a)
  BY <1>1, <1>2, <1>3, <1>6, ElemFacts
<1>8. EMASTER(p, y) /\ mesh.class[y] # "RED"
  BY <1>3, <1>7
<1>9. Home(y) = p /\ Home(a) # p
  BY <1>2, <1>3, <1>4, <1>8
<1>10. y \in Apart(Homes, e)
  BY <1>2, <1>3, <1>6, <1>8, <1>9 DEF Apart, Homes
<1> QED  BY <1>6, <1>9, <1>10 DEF p, a

(* A leaf that is not with its regular father has a ghost of an irregular    *)
(* father on its processor, and this is flagged.                             *)
LEMMA ApartFlagged ==
  ASSUME TypeInv, OverlapInv, pc = "push", LeavesFlagged, NEW e \in mesh.elem, LEAFELEM(e),
         Apart(Homes, e) # {}
  PROVE  \E y \in Apart(Homes, e) : LEVEL(y) > 0 /\ EFATHER(y) \in used[Home(y)]
<1> DEFINE p == Home(e)
           a == Regular(p, e)
<1>1. mesh \in Meshes /\ LineRight(e) /\ p \in Proc /\ EMASTER(p, e)
  BY Lines, HomeIs DEF TypeInv, OverlapInv
<1>2. \A x \in Line[e] : x \in mesh.elem /\ LEVEL(x) \in Nat /\ (EMASTER(p, x) <=> p = Home(x))
  BY <1>1, HomeIs, ElemFacts DEF LineRight, OverlapInv
<1>3. /\ a \in Line[e]
      /\ ~EMASTER(p, a) \/ mesh.class[a] = "RED"
      /\ \A b \in Line[e] : LEVEL(b) > LEVEL(a) => EMASTER(p, b) /\ mesh.class[b] # "RED"
  BY <1>1, RegularIs
<1>4. Missing(p, e) = CoarsenNeeds(p, a) \cup (IF EMASTER(p, a) THEN {} ELSE {a})
  BY DEF Missing
<1>5. ~EMASTER(p, a) =>
         \E y \in Apart(Homes, e) : LEVEL(y) > 0 /\ EFATHER(y) = a /\ Home(y) = p
  BY Interrupted DEF OverlapInv
<1> HIDE DEF p, a
<1>6. PICK x \in Line[e] : mesh.class[x] # "RED" /\ Homes[x] # Homes[EFATHER(x)]
  BY DEF Apart
<1>7. ~EMASTER(p, a)
  <2> SUFFICES ASSUME EMASTER(p, a) PROVE FALSE
    OBVIOUS
  <2> DEFINE g == EFATHER(x)
  <2>1. mesh.class[a] = "RED"
    BY <1>3
  <2>2. LEVEL(a) < LEVEL(x)
    BY <1>1, <1>3, <1>6, <2>1, IrregularBelow
  <2>3. g \in Line[e] /\ LEVEL(g) = LEVEL(x) - 1
    BY <1>1, <1>2, <1>3, <1>6, <2>2, ElemFacts DEF LineRight
  <2>4. LEVEL(g) > LEVEL(a) \/ LEVEL(g) = LEVEL(a)
    BY <1>2, <1>3, <1>6, <2>2, <2>3
  <2>5. LEVEL(g) = LEVEL(a) => g = a
    BY <1>1, <1>3, <2>3 DEF LineRight
  <2>6. EMASTER(p, g) /\ EMASTER(p, x)
    BY <1>3, <1>6, <2>2, <2>3, <2>4, <2>5
  <2> QED  BY <1>2, <1>6, <2>3, <2>6 DEF Homes
<1>8. PICK y \in Apart(Homes, e) : LEVEL(y) > 0 /\ EFATHER(y) = a /\ Home(y) = p
  BY <1>5, <1>7
<1>9. LEVEL(y) <= LEVEL(e)
  BY <1>1, <1>2 DEF LineRight, Apart
<1>10. LEVEL(e) > 0 /\ LEVEL(e) \in Nat /\ e \in Masters(p)
  BY <1>1, <1>2, <1>8, <1>9 DEF LineRight, Apart, Masters
<1>11. Missing(p, e) \subseteq used[p]
  BY <1>1, <1>10 DEF LeavesFlagged
<1> QED  BY <1>4, <1>7, <1>8, <1>11

(* What the call has done when all levels have been pushed. *)
LEMMA AllPushed ==
  ASSUME TypeInv, OverlapInv, pc = "push", MovedUpTo(TOPLEVEL), LeavesFlagged, Calm,
         Repaired(Homes, calls - 1)
  PROVE  /\ Repaired(Dests, calls)
         /\ \A x \in mesh.elem : LEVEL(x) > 0 /\ Home(x) = Home(EFATHER(x)) => Dest(x) = Dest(EFATHER(x))
<1> DEFINE M == {x \in mesh.elem : LEVEL(x) > 0 /\ EFATHER(x) \in used[Home(x)]}
<1>1. mesh \in Meshes /\ calls \in Nat /\ calls > 0
  BY DEF TypeInv
<1>2. \A x \in mesh.elem :
         /\ LEVEL(x) \in Nat /\ LEVEL(x) <= TOPLEVEL
         /\ Home(x) \in Proc /\ \A q \in Proc : EMASTER(q, x) <=> q = Home(x)
         /\ LEVEL(x) > 0 => EFATHER(x) \in mesh.elem
  BY <1>1, ElemFacts, TopLevel, HomeIs DEF OverlapInv
<1>3. \A x \in mesh.elem :
         /\ LEVEL(x) = 0 => Dest(x) = Home(x)
         /\ LEVEL(x) > 0 => Dest(x) = Target(x) /\ (EFATHER(x) \in used[Home(x)] => x \in used[Home(x)])
  BY <1>2 DEF MovedUpTo
<1>4. \A x \in mesh.elem : x \notin used[Home(x)] => Dest(x) = Home(x)
  BY <1>2, <1>3 DEF Target
<1>5. ASSUME NEW x \in mesh.elem, LEVEL(x) > 0
      PROVE  IF Home(x) = Home(EFATHER(x)) THEN Dest(x) = Dest(EFATHER(x))
             ELSE Dest(x) = IF x \in M THEN Home(EFATHER(x)) ELSE Home(x)
  <2> DEFINE f == EFATHER(x)
  <2>1. f \in mesh.elem
    BY <1>2, <1>5
  <2>2. Dest(x) = IF f \notin used[Home(x)] THEN Home(x) ELSE IF Home(x) = Home(f) THEN Dest(f) ELSE Home(f)
    BY <1>2, <1>3, <1>5, <2>1 DEF Target
  <2>3. x \in M <=> f \in used[Home(x)]
    BY <1>5
  <2>4. f \notin used[Home(f)] => Dest(f) = Home(f)
    BY <1>4, <2>1
  <2> HIDE DEF f, M
  <2>5. CASE Home(x) = Home(f)
    BY <2>2, <2>4, <2>5 DEF f
  <2>6. CASE Home(x) # Home(f)
    BY <2>2, <2>3, <2>6 DEF f
  <2> QED  BY <2>5, <2>6
<1> HIDE DEF M
<1>6. Moved(Homes, Dests, M)
  BY <1>2, <1>5 DEF Moved, Homes, Dests
<1>7. ASSUME NEW x \in mesh.elem, mesh.class[x] = "RED", LEVEL(x) <= (calls - 1) + 1
      PROVE  Dests[x] = Homes[x]
  <2>1. LEVEL(x) > 0 => EFATHER(x) \notin used[Home(x)]
    BY <1>1, <1>2, <1>7 DEF Calm
  <2>2. Dest(x) = Home(x)
    BY <1>2, <1>3, <2>1 DEF Target
  <2> QED  BY <2>2 DEF Dests, Homes
<1>8. ASSUME NEW e \in mesh.elem, LEAFELEM(e), Apart(Homes, e) # {}
      PROVE  \E x \in Apart(Homes, e) : x \in M
  <2>1. PICK y \in Apart(Homes, e) : LEVEL(y) > 0 /\ EFATHER(y) \in used[Home(y)]
    BY <1>8, ApartFlagged
  <2>2. y \in mesh.elem
    BY <1>1, Lines DEF Apart, LineRight
  <2> QED  BY <2>1, <2>2 DEF M
<1>9. ASSUME NEW x \in mesh.coarsen, mesh.class[x] = "RED", LEVEL(x) > 1, Homes[x] # Homes[EFATHER(x)]
      PROVE  x \in M
  <2> DEFINE p == Home(x)
  <2>1. x \in mesh.elem /\ LEAFELEM(x) /\ LEVEL(x) > 0
    BY <1>1, <1>9, ElemFacts
  <2>2. EFATHER(x) \in mesh.elem /\ p \in Proc /\ EMASTER(p, x)
    BY <1>2, <2>1
  <2>3. ~EMASTER(p, EFATHER(x))
    BY <1>2, <1>9, <2>1, <2>2 DEF Homes
  <2>4. Regular(p, x) = x
    BY <1>1, <1>9, <2>1, <2>2, RegularIs
  <2>5. EFATHER(x) \in Missing(p, x)
    BY <1>9, <2>3, <2>4 DEF Missing, CoarsenNeeds
  <2>6. Missing(p, x) \subseteq used[p]
    BY <2>1, <2>2 DEF LeavesFlagged, Masters
  <2> QED  BY <2>1, <2>5, <2>6 DEF M
<1>10. calls - 1 \in Nat /\ (calls - 1) + 1 = calls
  BY <1>1
<1>11. Repaired(Dests, (calls - 1) + 1)
  BY <1>1, <1>6, <1>7, <1>8, <1>9, <1>10, RepairedOnceMore
<1> QED  BY <1>5, <1>10, <1>11

LEMMA PushNext ==
  ASSUME TypeInv, OverlapInv, PushInv, LeavesFlagged, Calm, RepairInv, PushPartitions
  PROVE  PushInv' /\ LeavesFlagged' /\ Calm' /\ RepairInv' /\ TogetherInv'
<1>1. /\ pc = "push" /\ level \in Nat /\ mesh \in Meshes /\ TOPLEVEL \in Nat /\ mesh.elem \subseteq Elem
      /\ mesh' = mesh /\ prio' = prio /\ calls' = calls
      /\ \/ level = TOPLEVEL /\ pc' = "dests"
         \/ level # TOPLEVEL /\ level' = level + 1 /\ pc' = "push"
      /\ used' = [p \in Proc |-> used[p] \cup PassedFlags(p)]
  BY TopLevel, ElemFacts DEF PushPartitions, TypeInv
<1>2. /\ \A e : LEVEL(e)' = LEVEL(e) /\ EFATHER(e)' = EFATHER(e) /\ (LEAFELEM(e)' <=> LEAFELEM(e))
      /\ Line' = Line
      /\ \A p, e : EMASTER(p, e)' <=> EMASTER(p, e)
      /\ \A p : Masters(p)' = Masters(p)
      /\ \A e : Home(e)' = Home(e)
  BY <1>1, SameMesh, SamePrios
<1>3. MovedUpTo(level) /\ Repaired(Homes, calls - 1) /\ Homes' = Homes
  BY <1>1, <1>2, SameHomes DEF PushInv, RepairInv
<1>4. \A x \in mesh.elem :
         /\ LEVEL(x) \in Nat
         /\ Home(x) \in Proc /\ \A q \in Proc : EMASTER(q, x) <=> q = Home(x)
         /\ LEVEL(x) > 0 => EFATHER(x) \in mesh.elem /\ LEVEL(EFATHER(x)) = LEVEL(x) - 1
         /\ EFATHER(x) # NoElem => LEVEL(x) > 0
  BY <1>1, ElemFacts, HomeIs DEF OverlapInv
<1>5. \A p \in Proc : \A s : s \in used'[p] <=>
         \/ s \in used[p]
         \/ s \in Local(p) /\ EFATHER(s) \in used[p] /\ EFATHER(s) \in mesh.elem /\ LEVEL(EFATHER(s)) = level
  BY <1>1 DEF PassedFlags, GetAllSons, OnLevel
<1>6. \A x \in mesh.elem : partition'[Home(x)][x] =
         IF LEVEL(x) = level + 1 /\ EFATHER(x) \in used[Home(x)] THEN partition[Home(x)][EFATHER(x)] ELSE Dest(x)
  <2> SUFFICES ASSUME NEW x \in mesh.elem
               PROVE  partition'[Home(x)][x] =
                  IF LEVEL(x) = level + 1 /\ EFATHER(x) \in used[Home(x)]
                  THEN partition[Home(x)][EFATHER(x)] ELSE Dest(x)
    OBVIOUS
  <2>1. Home(x) \in Proc /\ x \in Elem /\ x \in Masters(Home(x))
    BY <1>1, <1>4 DEF Masters
  <2> QED  BY <2>1, PushedIs DEF Dest
<1>7. \A x \in mesh.elem : Dest(x)' = partition'[Home(x)][x]
  BY <1>2 DEF Dest
<1>8. Calm'
  <2> SUFFICES ASSUME pc' = "push", NEW p \in Proc, NEW x \in mesh.elem, mesh.class[x] = "RED",
                      0 < LEVEL(x), LEVEL(x) <= calls, EFATHER(x) \in used'[p]
               PROVE  FALSE
    BY <1>1, <1>2 DEF Calm
  <2> DEFINE s == EFATHER(x)
  <2>1. s \notin used[p]
    BY <1>1 DEF Calm
  <2>2. EFATHER(s) \in used[p] /\ EFATHER(s) \in mesh.elem
    BY <1>5, <2>1
  <2>3. s \in mesh.elem /\ LEVEL(s) = LEVEL(x) - 1
    BY <1>4
  <2>4. LEVEL(s) > 0
    BY <1>1, <1>4, <2>2, <2>3, ElemFacts
  <2>5. mesh.class[s] = "RED"
    BY <1>1, ClassFacts
  <2>6. calls \in Nat /\ LEVEL(s) <= calls
    BY <1>4, <2>3 DEF TypeInv
  <2> QED  BY <1>1, <2>2, <2>3, <2>4, <2>5, <2>6 DEF Calm
<1>9. LeavesFlagged'
  <2> SUFFICES ASSUME pc' = "push", NEW p \in Proc, NEW e \in Masters(p), LEAFELEM(e), LEVEL(e) > 0
               PROVE  Missing(p, e)' \subseteq used'[p]
    BY <1>1, <1>2 DEF LeavesFlagged
  <2>1. Regular(p, e)' = Regular(p, e)
    BY <1>1, <1>2 DEF Regular
  <2>2. Missing(p, e)' = Missing(p, e)
    BY <1>1, <1>2, <2>1 DEF Missing, CoarsenNeeds
  <2>3. Missing(p, e) \subseteq used[p]
    BY <1>1 DEF LeavesFlagged
  <2> QED  BY <1>5, <2>2, <2>3
<1>10. ASSUME pc' = "push", level' = level + 1 PROVE MovedUpTo(level)'
  <2> DEFINE k == level + 1
  <2>1. \A x \in mesh.elem : LEVEL(x) <= level => \A p \in Proc : x \in used'[p] <=> x \in used[p]
    <3> SUFFICES ASSUME NEW x \in mesh.elem, LEVEL(x) <= level, NEW p \in Proc,
                        EFATHER(x) \in mesh.elem, LEVEL(EFATHER(x)) = level
                 PROVE  FALSE
      BY <1>5
    <3> QED  BY <1>1, <1>4, ElemFacts
  <2>2. \A x \in mesh.elem : LEVEL(x) # k => partition'[Home(x)][x] = Dest(x) /\ Dest(x)' = Dest(x)
    BY <1>6, <1>7
  <2>3. \A x \in mesh.elem :
           Target(x)' = IF EFATHER(x) \notin used'[Home(x)] THEN Home(x)
                        ELSE IF EMASTER(Home(x), EFATHER(x)) THEN partition'[Home(EFATHER(x))][EFATHER(x)]
                        ELSE Home(EFATHER(x))
    BY <1>2 DEF Target, Dest
  <2>4. ASSUME NEW x \in mesh.elem, LEVEL(x) > k \/ LEVEL(x) = 0 PROVE Dest(x)' = Home(x)
    <3>1. LEVEL(x) # k /\ (LEVEL(x) > level \/ LEVEL(x) = 0)
      BY <1>1, <1>4, <2>4
    <3> QED  BY <1>3, <2>2, <3>1 DEF MovedUpTo
  <2>5. ASSUME NEW x \in mesh.elem, 0 < LEVEL(x), LEVEL(x) <= k
        PROVE  Dest(x)' = Target(x)' /\ (EFATHER(x) \in used'[Home(x)] => x \in used'[Home(x)])
    <3> DEFINE f == EFATHER(x)
               p == Home(x)
    <3>1. f \in mesh.elem /\ LEVEL(f) = LEVEL(x) - 1 /\ LEVEL(f) <= level /\ LEVEL(f) # k /\ p \in Proc
      BY <1>1, <1>4, <2>5
    <3>2. (f \in used'[p] <=> f \in used[p]) /\ partition'[Home(f)][f] = Dest(f)
      BY <2>1, <2>2, <3>1
    <3>3. Target(x)' = Target(x)
      BY <2>3, <3>2 DEF Target
    <3>4. CASE LEVEL(x) <= level
      <4>1. LEVEL(x) # k
        BY <1>1, <1>4, <3>4
      <4>2. Dest(x)' = Target(x) /\ (f \in used[p] => x \in used[p])
        BY <1>3, <2>2, <2>5, <3>4, <4>1 DEF MovedUpTo
      <4> QED  BY <1>5, <3>1, <3>2, <3>3, <4>2
    <3>5. CASE LEVEL(x) = k
      <4>1. LEVEL(x) > level /\ LEVEL(f) = level
        BY <1>1, <3>1, <3>5
      <4>2. Dest(x) = p
        BY <1>3, <4>1 DEF MovedUpTo
      <4>3. x \in Local(p) /\ f \in Local(p)
        BY <1>4, <3>1, Near
      <4>4. f \in used[p] => x \in used'[p]
        BY <1>5, <3>1, <4>1, <4>3
      <4>5. ~EMASTER(p, f) => partition[p][f] = Home(f)
        BY <1>1, <3>1, <4>3 DEF OverlapInv, DestsRight
      <4>6. EMASTER(p, f) => partition[p][f] = Dest(f)
        BY <1>4, <3>1 DEF Dest
      <4>7. Dest(x)' = IF f \in used[p] THEN partition[p][f] ELSE Dest(x)
        BY <1>6, <1>7, <3>5
      <4>8. Dest(x)' = Target(x)
        BY <4>2, <4>5, <4>6, <4>7 DEF Target
      <4> QED  BY <3>2, <3>3, <4>4, <4>8
    <3> QED  BY <1>1, <1>4, <2>5, <3>4, <3>5
  <2> HIDE DEF k
  <2>6. \A x \in mesh.elem : Home(x)' = Home(x) /\ LEVEL(x)' = LEVEL(x) /\ EFATHER(x)' = EFATHER(x)
    BY <1>2
  <2>7. mesh'.elem = mesh.elem
    BY <1>1
  <2>8. level' = k
    BY <1>10 DEF k
  <2> QED  BY <1>1, <2>4, <2>5, <2>6, <2>7, <2>8 DEF MovedUpTo
<1>11. CASE level # TOPLEVEL
  <2>1. pc' = "push" /\ level' = level + 1
    BY <1>1, <1>11
  <2>2. PushInv'
    BY <1>10, <2>1 DEF PushInv, MovedUpTo
  <2>3. RepairInv' /\ TogetherInv'
    BY <1>1, <1>3, <2>1, RepairedNext DEF RepairInv, TogetherInv
  <2> QED  BY <1>8, <1>9, <2>2, <2>3
<1>12. CASE level = TOPLEVEL
  <2>1. pc' = "dests"
    BY <1>1, <1>12
  <2>2. \A x \in mesh.elem : LEVEL(x) # level + 1
    BY <1>1, <1>4, <1>12, TopLevel
  <2>3. \A x \in mesh.elem : Dest(x)' = Dest(x)
    BY <1>6, <1>7, <2>2
  <2>4. Dests' = Dests
    BY <1>1, <2>3 DEF Dests
  <2>5. /\ Repaired(Dests, calls)
        /\ \A x \in mesh.elem : LEVEL(x) > 0 /\ Home(x) = Home(EFATHER(x)) => Dest(x) = Dest(EFATHER(x))
    BY <1>1, <1>3, <1>12, AllPushed
  <2>6. RepairInv'
    BY <1>1, <2>1, <2>4, <2>5, RepairedNext DEF RepairInv
  <2>7. FamiliesTogether'
    <3> SUFFICES ASSUME NEW p \in Proc, NEW x \in Masters(p), LEVEL(x) > 0, EMASTER(p, EFATHER(x))
                 PROVE  partition'[p][x] = partition'[p][EFATHER(x)]
      BY <1>2 DEF FamiliesTogether
    <3>1. x \in mesh.elem /\ EFATHER(x) \in mesh.elem /\ p = Home(x) /\ p = Home(EFATHER(x))
      BY <1>4 DEF Masters
    <3>2. Dest(x) = Dest(EFATHER(x))
      BY <2>5, <3>1
    <3> QED  BY <1>6, <2>2, <3>1, <3>2
  <2> QED  BY <1>8, <1>9, <2>1, <2>6, <2>7 DEF PushInv, TogetherInv
<1> QED  BY <1>11, <1>12

-------------------------------------------------------------------------------
(* The invariant as a whole.                                                 *)

LEMMA RepairNext ==
  ASSUME IInv, [Next]_vars
  PROVE  PushInv' /\ LeavesFlagged' /\ Calm' /\ RepairInv' /\ TogetherInv'
<1>1. mesh \in Meshes /\ mesh' = mesh /\ calls \in Nat
  <2>1. mesh' = mesh
    BY DEF Next, vars, Balance, AdaptMultiGrid, SetRestrictionFlags, PushPartitions, UpdateGhostDests,
           TransferGrid, SetGhostObjectPriorities, Adapted
  <2> QED  BY <2>1 DEF IInv, TypeInv
<1>2. TypeInv /\ OverlapInv /\ PushInv /\ LeavesFlagged /\ Calm /\ RepairInv /\ TogetherInv
  BY DEF IInv
<1>3. CASE Balance
  <2>1. pc' = "dests" /\ calls' = 0
    BY <1>2, <1>3 DEF Balance, TypeInv
  <2> QED  BY <2>1 DEF PushInv, LeavesFlagged, Calm, RepairInv, TogetherInv
<1>4. CASE AdaptMultiGrid
  <2>1. CASE pc' = "balance"
    BY <2>1 DEF PushInv, LeavesFlagged, Calm, RepairInv, TogetherInv
  <2>2. CASE StartRestricting /\ calls' = 1
    <3>1. Repaired(Homes', calls' - 1)
      BY <1>1, <2>2, RepairedAtFirst
    <3> QED  BY <1>1, <1>2, <2>2, <3>1, Started
  <2> QED  BY <1>4, <2>1, <2>2 DEF AdaptMultiGrid
<1>5. CASE SetRestrictionFlags
  BY <1>2, <1>5, FlagNext
<1>6. CASE PushPartitions
  BY <1>2, <1>6, PushNext
<1>7. CASE UpdateGhostDests
  <2>1. pc = "dests" /\ pc' = "xfer" /\ calls' = calls /\ prio' = prio
    BY <1>7 DEF UpdateGhostDests
  <2>2. \A x \in mesh.elem : Dest(x)' = Dest(x)
    <3> SUFFICES ASSUME NEW x \in mesh.elem PROVE Dest(x)' = Dest(x)
      OBVIOUS
    <3>1. Home(x) \in Proc /\ EMASTER(Home(x), x) /\ x \in Elem
      BY <1>1, <1>2, HomeIs, ElemFacts DEF OverlapInv
    <3>2. ~EGHOST(Home(x), x)
      BY <1>2, <3>1, CopyKinds
    <3>3. partition'[Home(x)][x] = partition[Home(x)][x]
      BY <1>7, <3>1, <3>2 DEF UpdateGhostDests
    <3> QED  BY <1>1, <2>1, <3>3, SamePrios DEF Dest
  <2>3. Dests' = Dests
    BY <1>1, <2>2 DEF Dests
  <2>4. RepairInv'
    BY <1>1, <1>2, <2>1, <2>3, RepairedNext DEF RepairInv
  <2> QED  BY <2>1, <2>4 DEF PushInv, LeavesFlagged, Calm, TogetherInv
<1>8. CASE TransferGrid
  <2>1. pc = "xfer" /\ pc' = "prios" /\ calls' = calls
    BY <1>8 DEF TransferGrid
  <2>2. Homes' = Dests
    BY <1>1, <1>2, <1>8, TransferOverlap DEF Homes, Dests
  <2>3. RepairInv'
    BY <1>1, <1>2, <2>1, <2>2, RepairedNext DEF RepairInv
  <2> QED  BY <2>1, <2>3 DEF PushInv, LeavesFlagged, Calm, TogetherInv
<1>9. CASE SetGhostObjectPriorities
  <2>1. pc = "prios" /\ Homes' = Homes
    BY <1>1, <1>2, <1>9, GhostPriosOverlap, SameHomes DEF SetGhostObjectPriorities
  <2>2. CASE calls > 0 /\ RestrictAgain /\ StartRestricting /\ calls' = calls + 1
    <3>1. calls' - 1 = calls
      BY <1>1, <2>2
    <3>2. Repaired(Homes', calls' - 1)
      BY <1>2, <2>1, <2>2, <3>1 DEF RepairInv
    <3> QED  BY <1>1, <1>2, <2>2, <3>2, Started
  <2>3. CASE /\ pc' = IF calls = 0 THEN "adapt" ELSE "adapted"
             /\ calls' = calls
    <3>1. RepairInv'
      BY <1>1, <1>2, <2>1, <2>3, RepairedNext DEF RepairInv
    <3> QED  BY <2>3, <3>1 DEF PushInv, LeavesFlagged, Calm, TogetherInv
  <2> QED  BY <1>9, <2>2, <2>3 DEF SetGhostObjectPriorities
<1>10. CASE Adapted
  <2>1. pc' = "balance"
    BY <1>10 DEF Adapted
  <2> QED  BY <2>1 DEF PushInv, LeavesFlagged, Calm, RepairInv, TogetherInv
<1>11. CASE UNCHANGED vars
  <2>1. /\ mesh' = mesh /\ prio' = prio /\ partition' = partition /\ used' = used
        /\ pc' = pc /\ level' = level /\ calls' = calls
    BY <1>11 DEF vars
  <2>2. Homes' = Homes /\ Dests' = Dests
    BY <2>1, SamePrios DEF Homes, Dests, Dest
  <2>3. RepairInv'
    BY <1>2, <2>1, <2>2, RepairedNext DEF RepairInv
  <2>4. /\ Line' = Line
        /\ \A e : LEVEL(e)' = LEVEL(e) /\ EFATHER(e)' = EFATHER(e) /\ (LEAFELEM(e)' <=> LEAFELEM(e))
        /\ \A p, e : EMASTER(p, e)' <=> EMASTER(p, e)
        /\ \A p : Masters(p)' = Masters(p)
        /\ \A e : Home(e)' = Home(e)
    BY <2>1, SameMesh, SamePrios
  <2>5. LeavesFlagged'
    <3>1. \A p, e : Regular(p, e)' = Regular(p, e)
      BY <2>1, <2>4 DEF Regular
    <3>2. \A p, e : Missing(p, e)' = Missing(p, e)
      BY <2>1, <2>4, <3>1 DEF Missing, CoarsenNeeds
    <3> QED  BY <1>2, <2>1, <2>4, <3>2 DEF LeavesFlagged
  <2>6. Calm'
    BY <1>2, <2>1, <2>4 DEF Calm
  <2>7. PushInv'
    <3>1. \A x : Dest(x)' = Dest(x) /\ Target(x)' = Target(x)
      BY <2>1, <2>4 DEF Target, Dest
    <3> QED  BY <1>2, <2>1, <2>4, <3>1 DEF PushInv, MovedUpTo
  <2>8. TogetherInv'
    BY <1>2, <2>1, <2>4 DEF TogetherInv, FamiliesTogether
  <2> QED  BY <2>3, <2>5, <2>6, <2>7, <2>8
<1> QED  BY <1>3, <1>4, <1>5, <1>6, <1>7, <1>8, <1>9, <1>10, <1>11 DEF Next

(* The inductive invariant: the overlap, and how far the repair has come in   *)
(* every phase of a call of RestrictPartitioning.                             *)
THEOREM Invariant == Spec => []IInv
<1>1. Init => IInv
  <2> SUFFICES ASSUME Init PROVE IInv
    OBVIOUS
  <2>1. TypeInv /\ OverlapInv /\ pc = "balance"
    BY OverlapInit DEF Init
  <2> QED  BY <2>1 DEF IInv, PushInv, LeavesFlagged, Calm, RepairInv, TogetherInv
<1>2. IInv /\ [Next]_vars => IInv'
  <2> SUFFICES ASSUME IInv, [Next]_vars PROVE IInv'
    OBVIOUS
  <2>1. TypeInv' /\ OverlapInv'
    BY TypeNext, OverlapNext DEF IInv
  <2> QED  BY <2>1, RepairNext DEF IInv
<1> QED  BY <1>1, <1>2, PTL DEF Spec

(* The assertion of AdaptMultiGrid: one call of RestrictPartitioning for     *)
(* each level repairs every distribution of every hierarchy.                 *)
THEOREM RepairHolds == Spec => []Restricted
<1>1. IInv => Restricted
  <2> SUFFICES ASSUME IInv, pc = "adapted", NEW p \in Proc, NEW e \in Masters(p), LEAFELEM(e), LEVEL(e) > 0,
                      ~EMASTER(p, Regular(p, e)) \/ CoarsenNeeds(p, Regular(p, e)) # {}
               PROVE  FALSE
    BY DEF Restricted, CheckPartitioning
  <2> DEFINE a == Regular(p, e)
  <2>1. /\ TypeInv /\ OneMaster /\ mesh \in Meshes
        /\ calls \in Nat /\ calls > 0 /\ calls >= TOPLEVEL /\ Repaired(Homes, calls)
    BY DEF IInv, TypeInv, OverlapInv, RepairInv
  <2>2. e \in mesh.elem /\ EMASTER(p, e) /\ p = Home(e) /\ LineRight(e)
    BY <2>1, HomeIs, Lines DEF Masters
  <2>3. \A x \in mesh.elem : LEVEL(x) \in Nat /\ LEVEL(x) <= calls
    BY <2>1, ElemFacts, TopLevel
  <2>4. Apart(Homes, e) = {}
    <3>1. \A r \in Line[e] : LEVEL(r) <= calls
      BY <2>2, <2>3 DEF LineRight
    <3>2. Apart(Homes, e) = {} \/ Cardinality(Apart(Homes, e)) <= LEVEL(e) - calls
      BY <2>1, <2>2, <3>1 DEF Repaired
    <3>3. PICK r \in Line[e] : r \in mesh.elem /\ LEVEL(r) = 0
      BY <2>2 DEF LineRight
    <3>4. mesh.class[r] = "RED"
      BY <2>1, <3>3, ElemFacts
    <3>5. IsFiniteSet(Apart(Homes, e)) /\ Cardinality(Apart(Homes, e)) \in Nat
      BY <2>1, <2>2, <3>4, ChainBound
    <3>6. Cardinality(Apart(Homes, e)) = 0 => Apart(Homes, e) = {}
      BY <3>5, FS_EmptySet
    <3> QED  BY <2>1, <2>2, <2>3, <3>2, <3>5, <3>6
  <2>5. EMASTER(p, a)
    BY <2>1, <2>2, <2>4, Interrupted
  <2>6. a \in mesh.elem /\ mesh.class[a] = "RED"
    BY <2>1, <2>2, <2>5, RegularIs DEF LineRight
  <2>7. a \in mesh.coarsen /\ LEVEL(a) > 1 /\ ~EMASTER(p, EFATHER(a))
    BY <2>5 DEF CoarsenNeeds
  <2>8. EFATHER(a) \in mesh.elem
    BY <2>1, <2>3, <2>6, <2>7, ElemFacts
  <2>9. Homes[a] = Homes[EFATHER(a)]
    BY <2>1, <2>3, <2>6, <2>7 DEF Repaired
  <2> QED  BY <2>1, <2>2, <2>5, <2>6, <2>7, <2>8, <2>9, HomeIs DEF Homes
<1> QED  BY <1>1, Invariant, PTL

(* A call of RestrictPartitioning takes nothing apart that is together.      *)
THEOREM TogetherHolds == Spec => []RepairKeepsTogether
<1>1. IInv => RepairKeepsTogether
  <2> SUFFICES ASSUME IInv, pc = "dests", calls > 0, NEW p \in Proc, NEW e \in Masters(p)
               PROVE  LET a    == Regular(p, e)
                          with == {b \in Line[e] : LEVEL(b) >= LEVEL(a)}
                                    \cup (IF a \in mesh.coarsen THEN {EFATHER(a)} ELSE {})
                      IN  EMASTER(p, a) /\ with \subseteq Masters(p) =>
                              \A b \in with : partition[p][b] = partition[p][e]
    BY DEF RepairKeepsTogether
  <2> DEFINE a     == Regular(p, e)
             upto  == {b \in Line[e] : LEVEL(b) >= LEVEL(a)}
             above == IF a \in mesh.coarsen THEN {EFATHER(a)} ELSE {}
  <2> SUFFICES ASSUME upto \cup above \subseteq Masters(p)
               PROVE  \A b \in upto \cup above : partition[p][b] = partition[p][e]
    OBVIOUS
  <2>1. mesh \in Meshes /\ FamiliesTogether /\ e \in mesh.elem
    BY DEF IInv, TypeInv, TogetherInv, Masters
  <2>2. LineRight(e) /\ a \in Line[e]
    BY <2>1, Lines, RegularIs
  <2>3. \A b \in Line[e] : b \in mesh.elem /\ LEVEL(b) \in Nat
    BY <2>1, <2>2, ElemFacts DEF LineRight
  <2> HIDE DEF a
  <2>4. ASSUME NEW b \in upto, partition[p][b] # partition[p][e] PROVE FALSE
    <3> DEFINE Bad == {x \in upto : partition[p][x] # partition[p][e]}
    <3>1. PICK f \in Bad : \A x \in Bad : LEVEL(x) <= LEVEL(f)
      <4>1. Bad \in SUBSET mesh.elem /\ Bad # {}
        BY <2>3, <2>4
      <4> HIDE DEF Bad
      <4> QED  BY <2>1, <4>1, Finest
    <3>2. f \in Line[e] /\ LEVEL(f) >= LEVEL(a) /\ f # e
      BY <3>1
    <3>3. PICK x \in Line[e] : LEVEL(x) > 0 /\ EFATHER(x) = f
      BY <2>2, <3>2 DEF LineRight
    <3>4. LEVEL(x) > LEVEL(f)
      BY <2>1, <2>3, <3>2, <3>3, ElemFacts
    <3>5. x \in upto /\ x \notin Bad
      BY <2>2, <2>3, <3>1, <3>2, <3>3, <3>4
    <3>6. x \in Masters(p) /\ EMASTER(p, f)
      BY <3>2, <3>5 DEF Masters
    <3>7. partition[p][x] = partition[p][f]
      BY <2>1, <3>3, <3>6 DEF FamiliesTogether
    <3> QED  BY <3>1, <3>5, <3>7
  <2>5. ASSUME NEW b \in above PROVE partition[p][b] = partition[p][e]
    <3>1. b = EFATHER(a) /\ b \in Masters(p)
      BY <2>5
    <3>2. a \in upto /\ a \in Masters(p) /\ partition[p][a] = partition[p][e]
      BY <2>2, <2>3, <2>4
    <3>3. EMASTER(p, b) /\ b \in mesh.elem
      BY <3>1 DEF Masters
    <3>4. LEVEL(a) > 0
      BY <2>1, <2>2, <2>3, <3>1, <3>3, ElemFacts
    <3> QED  BY <2>1, <3>1, <3>2, <3>3, <3>4 DEF FamiliesTogether
  <2> QED  BY <2>4, <2>5
<1> QED  BY <1>1, Invariant, PTL
=============================================================================
