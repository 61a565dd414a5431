------------------------------ MODULE Elements ------------------------------
(***************************************************************************)
(* The family relation between a level of elements and the level below it  *)
(* on one processor: the sons of an element are those behind SON in the    *)
(* element list that point back to it.  Grid refinement (gm) creates and   *)
(* disposes families; load balancing (parallel/dddif/trans.cc) moves       *)
(* elements, and the handlers DDD calls (parallel/dddif/handler.cc) rebuild *)
(* the relation from whatever arrives.  The other processors are an        *)
(* environment that sends what the new partition needs here.               *)
(***************************************************************************)
EXTENDS ListParts

CONSTANTS Father,     \* elements of the level below
          FatherOf    \* [Elem -> Father]

\* The field NSONS has five bits, which is enough: MAX_SONS is at most 30.
NSONS_LIMIT == 32
NSons(n)    == n % NSONS_LIMIT

SonsOf(f) == {e \in Elem : FatherOf[e] = f}

ASSUME ElementsAssumption ==
    /\ FatherOf \in [Elem -> Father]
    /\ IsFiniteSet(Elem) /\ Elem \cap Father = {} /\ NULL \notin Elem \cup Father
    /\ \A f \in Father : Cardinality(SonsOf(f)) < NSONS_LIMIT

NoPrio == "none"

Prio2Index(prio) == IF prio = "Master" THEN 0 ELSE 1

\* Elements merge to the greater priority.
Number == [HGhost |-> 1, VGhost |-> 2, VHGhost |-> 3, Master |-> 5]
Merge(p, q) == IF Number[p] >= Number[q] THEN p ELSE q

VARIABLES
    inherit,   \* sons always move with their fathers (InheritPartition)
    grid,      \* elements and fathers here: their list, priorities and pointers
    pc,        \* "user", or the part of DDD_XferEnd: "delete", "unpack"
    todo       \* what is left of the transfer: deletions, handlers to be called

vars == <<inherit, grid, pc, todo>>

Here(u)        == {e \in Elem : u.prio[e] # NoPrio}
FathersHere(u) == {f \in Father : u.fprio[f] # NoPrio}

\* What lies behind the pointer is still there.  Nothing is said of what
\* happens after a father pointer has lost its object.
FatherPointersValid ==
    \A e \in Here(grid) : grid.efather[e] # NULL => grid.efather[e] \in FathersHere(grid)

----------------------------------------------------------------------------
(* Sons. *)

Belongs(u, x, f, i) == u.efather[x] = f /\ Prio2Index(u.prio[x]) = i

\* The elements from x on, up to the first that does not belong to f and i.
RunFrom(u, x, f, i) ==
    LET chain == Chain(u.list, x)
        others == {n \in DOMAIN chain : ~Belongs(u, chain[n], f, i)}
    IN  SubSeq(chain, 1, IF others = {} THEN Len(chain) ELSE Min(others) - 1)

SonsAt(u, f, i) ==
    LET son == u.son[f][i]
    IN  IF son = NULL THEN <<>>
        ELSE <<son>> \o RunFrom(u, u.list.succ[son], f, Prio2Index(u.prio[son]))

GetAllSons(u, f) == IF u.nsons[f] = 0 THEN <<>> ELSE SonsAt(u, f, 0) \o SonsAt(u, f, 1)
FoundSons(u, f)  == ToSet(GetAllSons(u, f))

\* Mutant: the next son does not move up.
SonWithoutNext(u, e) ==
    LET f == u.efather[e]
        i == Prio2Index(u.prio[e])
    IN  IF u.son[f][i] # e THEN u.son ELSE [u.son EXCEPT ![f][i] = NULL]

\* The SON pointers when e leaves its place in the list.
SonWithout(u, e) ==
    LET f == u.efather[e]
        i == Prio2Index(u.prio[e])
        s == u.list.succ[e]
    IN  IF u.son[f][i] # e THEN u.son
        ELSE [u.son EXCEPT ![f][i] = IF s # NULL /\ Belongs(u, s, f, i) THEN s ELSE NULL]

CreateElement(u, f, e) ==
    [u EXCEPT !.list = GridLink(@, e, "Master"),
              !.prio[e] = "Master", !.efather[e] = f,
              !.son[f][0] = IF @ = NULL THEN e ELSE @,
              !.nsons[f] = NSons(@ + 1)]

DisposeElement(u, e) ==
    LET f == u.efather[e]
        gone == [u EXCEPT !.list = GridUnlink(@, e, u.prio[e]),
                          !.prio[e] = NoPrio, !.efather[e] = NULL]
    IN  IF f = NULL THEN gone
        ELSE [gone EXCEPT !.son = SonWithout(u, e), !.nsons[f] = NSons(@ - 1)]

\* The elements of order are created as sons of f, or disposed of, one by one.
CreateElements(u, f, order) ==
    LET made[n \in 0 .. Len(order)] ==
            IF n = 0 THEN u ELSE CreateElement(made[n - 1], f, order[n])
    IN  made[Len(order)]

DisposeElements(u, order) ==
    LET left[n \in 0 .. Len(order)] ==
            IF n = 0 THEN u ELSE DisposeElement(left[n - 1], order[n])
    IN  left[Len(order)]

DisposeFather(u, f) ==
    [u EXCEPT !.efather = [e \in Elem |-> IF e \in FoundSons(u, f) THEN NULL ELSE @[e]],
              !.fprio[f] = NoPrio, !.son[f] = [i \in 0 .. 1 |-> NULL], !.nsons[f] = 0]

----------------------------------------------------------------------------
(* The handlers. *)

\* Link e behind SON.  If there is none, the elements after e that were
\* decoupled from the father are counted again.
LinkToFather(u, e, prio) ==
    LET f == u.efather[e]
        i == Prio2Index(prio)
        after == u.son[f][i]
        linked == [u EXCEPT !.list = GridLinkX(@, e, prio, after)]
    IN  IF after # NULL THEN linked
        ELSE [linked EXCEPT
                !.son[f][i] = e,
                !.nsons[f] = NSons(@ + Len(RunFrom(linked, linked.list.succ[e], f, i)))]

ElementPriorityUpdate(u, e, new) ==
    LET f == u.efather[e]
        lostson == e \notin FoundSons(u, f)
        unlinked == [u EXCEPT !.list = GridUnlink(@, e, u.prio[e])]
    IN  IF f = NULL THEN [unlinked EXCEPT !.list = GridLink(@, e, new)]
        ELSE IF ~lostson /\ new = u.prio[e] THEN u
        ELSE LinkToFather([unlinked EXCEPT !.son = SonWithout(u, e),
                                           !.nsons[f] = IF lostson THEN NSons(@ + 1) ELSE @],
                          e, new)

ElementObjMkCons(u, e, isNew) ==
    LET f == u.efather[e]
        prio == u.prio[e]
        lostson == ~isNew /\ prio # "Master" /\ f # NULL /\ e \notin FoundSons(u, f)
        unlinked == IF isNew THEN u
                    ELSE [u EXCEPT !.list = GridUnlink(@, e, prio), !.son = SonWithout(u, e)]
    IN  IF ~isNew /\ ~lostson THEN u
        ELSE IF f = NULL THEN [u EXCEPT !.list = GridLink(@, e, prio)]
        ELSE [LinkToFather(unlinked, e, prio) EXCEPT !.nsons[f] = NSons(@ + 1)]

\* DDD stores the new priority when the handler has returned.
SetPriority(u, e, new) == [ElementPriorityUpdate(u, e, new) EXCEPT !.prio[e] = new]

----------------------------------------------------------------------------
(* Between transfers. *)

NothingLeft ==
    [del |-> {}, prio |-> <<>>, demoted |-> {}, recv |-> <<>>, new |-> {}, old |-> {}]

Init ==
    /\ inherit \in BOOLEAN
    /\ pc = "user" /\ todo = NothingLeft
    /\ \E masters \in SUBSET Father :
          grid = [list    |-> EmptyList,
                  prio    |-> [e \in Elem |-> NoPrio],
                  efather |-> [e \in Elem |-> NULL],
                  fprio   |-> [f \in Father |-> IF f \in masters THEN "Master" ELSE NoPrio],
                  son     |-> [f \in Father |-> [i \in 0 .. 1 |-> NULL]],
                  nsons   |-> [f \in Father |-> 0]]

Refine(f) ==
    /\ pc = "user"
    /\ grid.fprio[f] = "Master"
    /\ SonsOf(f) \cap Here(grid) = {}
    /\ \E order \in SetToSeqs(SonsOf(f)) : grid' = CreateElements(grid, f, order)
    /\ UNCHANGED <<pc, todo>>

\* AdaptLocalGrid asserts that an element it changes has no vertical ghosts:
\* the masters of its sons are with its master.
Unrefine(f) ==
    /\ pc = "user"
    /\ grid.nsons[f] > 0
    /\ \A e \in SonsOf(f) \cap Here(grid) :
          grid.prio[e] = "Master" <=> grid.fprio[f] = "Master"
    /\ grid' = DisposeElements(grid, GetAllSons(grid, f))
    /\ UNCHANGED <<pc, todo>>

SetGhostObjectPriorities(e, new) ==
    /\ pc = "user"
    /\ grid.prio[e] \notin {NoPrio, "Master", new}
    /\ grid' = SetPriority(grid, e, new)
    /\ UNCHANGED <<pc, todo>>

----------------------------------------------------------------------------
(* A transfer.  part are the elements that get their masters here, near    *)
(* those next to one of them.                                              *)

Inherited(part, near) ==
    \A e \in Elem : /\ e \in part <=> FatherOf[e] \in part
                    /\ e \in near => FatherOf[e] \in part \cup near

\* Local commands and, received later, the copies of the old masters.  The
\* other kinds of ghosts among fathers and new copies make no difference.
XferGridWithOverlap(part, near) ==
    LET needed == part \cup near
        PrioOf(x) == IF x \in part THEN "Master" ELSE "HGhost"
        isMaster == {e \in Elem : grid.prio[e] = "Master"}
        arriving == part \ isMaster
        keptForSons == {f \in Father : FoundSons(grid, f) \cap part # {}}
        sentFathers == {f \in Father : \/ f \in needed /\ grid.fprio[f] # "Master"
                                       \/ SonsOf(f) \cap arriving # {}}
    IN  /\ pc = "user"
        /\ part \cap near = {}
        /\ inherit => Inherited(part, near)
        /\ pc' = "delete"
        /\ todo' = [NothingLeft EXCEPT
               !.del  = (Here(grid) \ needed) \cup (FathersHere(grid) \ (needed \cup keptForSons)),
               !.prio = [e \in isMaster \cap needed |-> PrioOf(e)],
               !.demoted = {f \in Father \ part : grid.fprio[f] = "Master"},
               !.recv = [x \in ((needed \cap Elem) \ isMaster) \cup sentFathers |-> PrioOf(x)]]
        /\ UNCHANGED grid

\* Deletions run in the order they were commanded in: ghosts, and then the
\* masters from the lowest level up.
Rank(x) == IF x \in Father THEN IF grid.fprio[x] = "Master" THEN 1 ELSE 0
           ELSE IF grid.prio[x] = "Master" THEN 2 ELSE 0

ElementDelete(x) ==
    /\ pc = "delete" /\ x \in todo.del
    /\ \A y \in todo.del : Rank(x) <= Rank(y)
    /\ grid' = IF x \in Elem THEN DisposeElement(grid, x) ELSE DisposeFather(grid, x)
    /\ todo' = [todo EXCEPT !.del = @ \ {x}]
    /\ UNCHANGED pc

\* Messages of several senders come in any order, and with them the objects.
CallHandler(e) ==
    /\ e \in DOMAIN todo.prio
    /\ grid' = SetPriority(grid, e, todo.prio[e])
    /\ todo' = [todo EXCEPT !.prio = [x \in DOMAIN @ \ {e} |-> @[x]]]
    /\ UNCHANGED pc

ExecLocalXISetPrio(e) == pc = "delete" /\ todo.del = {} /\ CallHandler(e)

\* All copies are stored and their pointers set before the first handler runs.
AcceptReceivedObjects ==
    LET arrived == DOMAIN todo.recv
        MergedPrio(x, prio) == IF x \notin arrived THEN prio
                               ELSE IF prio = NoPrio THEN todo.recv[x]
                               ELSE Merge(todo.recv[x], prio)
        ghosted == todo.demoted \cap FathersHere(grid)
        fprio == [f \in Father |->
                     MergedPrio(f, IF f \in ghosted THEN "HGhost" ELSE grid.fprio[f])]
        new == (arrived \cap Elem) \ Here(grid)
        old == arrived \cap Here(grid)
    IN  /\ pc = "delete" /\ todo.del = {} /\ DOMAIN todo.prio = {}
        /\ pc' = "unpack"
        /\ grid' = [grid EXCEPT
               !.fprio   = fprio,
               !.prio    = [e \in Elem |-> IF e \in new THEN todo.recv[e] ELSE @[e]],
               !.efather = [e \in Elem |->
                               IF e \in arrived /\ @[e] = NULL /\ fprio[FatherOf[e]] # NoPrio
                               THEN FatherOf[e] ELSE @[e]]]
        /\ todo' = [NothingLeft EXCEPT !.new = new, !.old = old,
                        !.prio = [e \in old |-> MergedPrio(e, grid.prio[e])]]

CallSetPriorityHandler(e) == pc = "unpack" /\ CallHandler(e)

CallObjMkConsHandler(e) ==
    /\ pc = "unpack" /\ DOMAIN todo.prio = {}
    /\ e \in IF todo.new # {} THEN todo.new ELSE todo.old
    /\ grid' = ElementObjMkCons(grid, e, e \in todo.new)
    /\ todo' = [todo EXCEPT !.new = @ \ {e}, !.old = @ \ {e}]
    /\ UNCHANGED pc

XferEndReturns ==
    /\ pc = "unpack" /\ todo = NothingLeft
    /\ pc' = "user"
    /\ UNCHANGED <<grid, todo>>

----------------------------------------------------------------------------
Next ==
    /\ UNCHANGED inherit
    /\ \/ /\ FatherPointersValid
          /\ \/ \E f \in Father : Refine(f) \/ Unrefine(f)
             \/ \E part, near \in SUBSET (Elem \cup Father) : XferGridWithOverlap(part, near)
             \/ \E e \in Elem, new \in {"HGhost", "VHGhost"} : SetGhostObjectPriorities(e, new)
             \/ \E x \in Elem \cup Father : ElementDelete(x)
             \/ \E e \in Elem : \/ ExecLocalXISetPrio(e)
                                \/ CallSetPriorityHandler(e)
                                \/ CallObjMkConsHandler(e)
             \/ AcceptReceivedObjects
             \/ XferEndReturns
       \/ ~FatherPointersValid /\ UNCHANGED <<grid, pc, todo>>

Spec == Init /\ [][Next]_vars

----------------------------------------------------------------------------
(* Properties. *)

Linked == Here(grid) \ todo.new

\* The list has the ghosts and then the masters, whichever handlers have not
\* run yet: the ends of the parts, PRED, SUCC and the counters agree on it
\* (the comment in GRID_LINKX gives the check of the parts up).
ListsInv ==
    LET l == grid.list
        all == Chain(l, IF l.first[0] = NULL THEN l.first[1] ELSE l.first[0])
        InPart(i) == {e \in Linked : Prio2ListPart(grid.prio[e]) = i}
        g == Cardinality(InPart(0))
        n == Cardinality(Linked)
    IN  /\ Len(all) = n
        /\ \A e \in InPart(0) : \E k \in 1 .. g : all[k] = e
        /\ \A e \in InPart(1) : \E k \in (g + 1) .. n : all[k] = e
        /\ l.first[0] = (IF g = 0 THEN NULL ELSE all[1])
        /\ l.first[1] = (IF g = n THEN NULL ELSE all[g + 1])
        /\ l.last[0] = (IF g = 0 THEN NULL ELSE all[g])
        /\ l.last[1] = (IF g = n THEN NULL ELSE all[n])
        /\ \A k \in 1 .. n : l.pred[all[k]] = IF k \in {1, g + 1} THEN NULL ELSE all[k - 1]
        /\ \A p \in Prios : l.count[p] = Cardinality({e \in Linked : grid.prio[e] = p})

\* After each transfer the elements behind SON are those with a father pointer,
\* once each, though handlers have linked them one by one while the pointers of
\* the others were set already.
FamilyInv ==
    pc = "user" =>
        \A f \in FathersHere(grid), i \in 0 .. 1 :
            /\ ToSet(SonsAt(grid, f, i)) = {e \in Here(grid) : Belongs(grid, e, f, i)}
            /\ IsInjective(SonsAt(grid, f, i))

\* If sons move with their fathers, nobody loses its father, and NSONS is the
\* number of sons, so that GetAllSons finds them and a father that goes leaves
\* no pointer behind.
CountsRight ==
    inherit =>
        /\ FatherPointersValid
        /\ pc = "user" =>
              /\ \A e \in Here(grid) : grid.efather[e] = FatherOf[e]
              /\ \A f \in FathersHere(grid) :
                    grid.nsons[f] = Cardinality({e \in Here(grid) : grid.efather[e] = f})

\* The family relation, from both sides.
FamiliesRight == FamilyInv /\ CountsRight
=============================================================================
