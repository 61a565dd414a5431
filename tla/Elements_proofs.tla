--------------------------- MODULE Elements_proofs ---------------------------
(***************************************************************************)
(* Proofs about Elements, for any number of elements and families, and any *)
(* order of handlers.  A list is described by the order of its elements: a *)
(* set R of pairs.  The first part shows what linking and unlinking do to  *)
(* the order, the second what the handlers do to the runs of sons, and the *)
(* third that all steps keep the invariant.                                *)
(***************************************************************************)
EXTENDS Elements, FiniteSetTheorems, WellFoundedInduction, TLAPS

-----------------------------------------------------------------------------
(* The list.                                                                *)

\* What the pointers of the list point to.
Object == Elem \cup {NULL}
ListType == [first : [0 .. 1 -> Object], last : [0 .. 1 -> Object],
             succ  : [Elem -> Object],   pred : [Elem -> Object],
             count : [Prios -> Int]]

\* x comes before y in the order R.
Before(R, x, y) == <<x, y>> \in R

\* R orders the elements of S.
Ordered(S, R) ==
    /\ \A x \in S : ~Before(R, x, x)
    /\ \A x, y, z \in S : Before(R, x, y) /\ Before(R, y, z) => Before(R, x, z)
    /\ \A x, y \in S : x = y \/ Before(R, x, y) \/ Before(R, y, x)

\* y is the next element of S after x, or NULL; the one before; the first; the last.
NextIn(y, x, S, R) ==
    IF y = NULL THEN \A z \in S : ~Before(R, x, z)
    ELSE y \in S /\ Before(R, x, y) /\ \A z \in S : Before(R, x, z) => z = y \/ Before(R, y, z)
PrevIn(y, x, S, R) ==
    IF y = NULL THEN \A z \in S : ~Before(R, z, x)
    ELSE y \in S /\ Before(R, y, x) /\ \A z \in S : Before(R, z, x) => z = y \/ Before(R, z, y)
FirstIn(y, S, R) ==
    IF y = NULL THEN S = {} ELSE y \in S /\ \A z \in S : z = y \/ Before(R, y, z)
LastIn(y, S, R) ==
    IF y = NULL THEN S = {} ELSE y \in S /\ \A z \in S : z = y \/ Before(R, z, y)

\* The pointers of l are those of a list with the ghosts G and the masters M.
ListIs(l, G, M, R) ==
    /\ l \in ListType
    /\ G \subseteq Elem /\ M \subseteq Elem /\ G \cap M = {}
    /\ Ordered(G \cup M, R)
    /\ \A x \in G, y \in M : Before(R, x, y)
    /\ \A x \in G \cup M : NextIn(l.succ[x], x, G \cup M, R)
    /\ \A x \in G : PrevIn(l.pred[x], x, G, R)
    /\ \A x \in M : PrevIn(l.pred[x], x, M, R)
    /\ FirstIn(l.first[0], G, R) /\ FirstIn(l.first[1], M, R)
    /\ LastIn(l.last[0], G, R) /\ LastIn(l.last[1], M, R)

\* k is the list of G and M that l has become, with d more elements of prio.
Result(k, l, G, M, R, prio, d) ==
    ListIs(k, G, M, R) /\ k.count = [l.count EXCEPT ![prio] = @ + d]

\* The null pointer is no object.
LEMMA NoNull == NULL \notin Elem /\ NULL \notin Father
BY ElementsAssumption

\* Unlinking a ghost takes it from the list and leaves the order of the others
\* (dlmgr.t, GRID_UNLINK).
LEMMA UnlinkGhostIs ==
  ASSUME NEW l, NEW G, NEW M, NEW R, ListIs(l, G, M, R), NEW e \in G,
         NEW prio \in Prios, Prio2ListPart(prio) = 0
  PROVE  Result(GridUnlink(l, e, prio), l, G \ {e}, M, R, prio, -1)
<1> DEFINE k == GridUnlink(l, e, prio)
           S == G \cup M
           T == (G \ {e}) \cup M
           last == l.last[0] = e
<1>1. /\ l \in ListType /\ e \in Elem /\ e \in S /\ e # NULL
      /\ l.succ[e] \in Object /\ l.pred[e] \in Object
      /\ T = S \ {e} /\ S \subseteq Elem /\ NULL \notin S
  BY NoNull DEF ListIs, ListType, Object
<1>2. /\ k.first = [l.first EXCEPT ![0] = IF @ # e THEN @ ELSE IF last THEN NULL ELSE l.succ[e]]
      /\ k.last = [l.last EXCEPT ![0] = IF last THEN l.pred[e] ELSE @]
      /\ k.succ = [Put(l.succ, l.pred[e], l.succ[e]) EXCEPT ![e] = NULL]
      /\ k.pred = [IF last THEN l.pred ELSE Put(l.pred, l.succ[e], l.pred[e]) EXCEPT ![e] = NULL]
      /\ k.count = [l.count EXCEPT ![prio] = @ - 1]
      /\ k = [first |-> k.first, last |-> k.last, succ |-> k.succ, pred |-> k.pred, count |-> k.count]
  <2> DEFINE u == UnlinkGhost(l, e)
  <2>1. l = [first |-> l.first, last |-> l.last, succ |-> l.succ, pred |-> l.pred, count |-> l.count]
    BY <1>1 DEF ListType
  <2>2. u = [l EXCEPT !.succ = Put(@, l.pred[e], l.succ[e]),
                      !.pred = IF last THEN @ ELSE Put(@, l.succ[e], l.pred[e]),
                      !.first[0] = IF @ # e THEN @ ELSE IF last THEN NULL ELSE l.succ[e],
                      !.last[0] = IF last THEN l.pred[e] ELSE @]
    BY DEF UnlinkGhost
  <2>3. k = [u EXCEPT !.succ[e] = NULL, !.pred[e] = NULL, !.count[prio] = @ - 1]
    BY DEF GridUnlink
  <2> HIDE DEF k, u
  <2>4. /\ u.first = [l.first EXCEPT ![0] = IF @ # e THEN @ ELSE IF last THEN NULL ELSE l.succ[e]]
        /\ u.last = [l.last EXCEPT ![0] = IF last THEN l.pred[e] ELSE @]
        /\ u.succ = Put(l.succ, l.pred[e], l.succ[e])
        /\ u.pred = IF last THEN l.pred ELSE Put(l.pred, l.succ[e], l.pred[e])
        /\ u.count = l.count
        /\ u = [first |-> u.first, last |-> u.last, succ |-> u.succ, pred |-> u.pred, count |-> u.count]
    BY <2>1, <2>2
  <2> QED  BY <2>3, <2>4
<1> HIDE DEF k, T, S
<1>3. k \in ListType
  <2> DEFINE su == Put(l.succ, l.pred[e], l.succ[e])
             pr == IF last THEN l.pred ELSE Put(l.pred, l.succ[e], l.pred[e])
  <2>1. su \in [Elem -> Object] /\ pr \in [Elem -> Object]
    <3>1. l.succ \in [Elem -> Object] /\ l.pred \in [Elem -> Object]
      BY <1>1 DEF ListType
    <3>2. su \in [Elem -> Object]
      BY <1>1, <3>1, NoNull DEF Put, Object
    <3>3. pr \in [Elem -> Object]
      BY <1>1, <3>1, NoNull DEF Put, Object
    <3> QED  BY <3>2, <3>3
  <2>2. k.succ = [su EXCEPT ![e] = NULL] /\ k.pred = [pr EXCEPT ![e] = NULL]
    BY <1>2
  <2> HIDE DEF su, pr
  <2>3. k.succ \in [Elem -> Object] /\ k.pred \in [Elem -> Object]
    BY <1>1, <2>1, <2>2 DEF Object
  <2>4. k.first \in [0 .. 1 -> Object] /\ k.last \in [0 .. 1 -> Object] /\ k.count \in [Prios -> Int]
    BY <1>1, <1>2 DEF ListType, Object
  <2> QED  BY <1>2, <2>3, <2>4 DEF ListType
<1>4. /\ \A x \in T : k.succ[x] = IF x = l.pred[e] THEN l.succ[e] ELSE l.succ[x]
      /\ \A x \in T : k.pred[x] = IF ~last /\ x = l.succ[e] THEN l.pred[e] ELSE l.pred[x]
  <2> DEFINE su == Put(l.succ, l.pred[e], l.succ[e])
             pr == Put(l.pred, l.succ[e], l.pred[e])
  <2>1. /\ su \in [Elem -> Object] /\ \A y \in Elem : su[y] = IF y = l.pred[e] THEN l.succ[e] ELSE l.succ[y]
        /\ pr \in [Elem -> Object] /\ \A y \in Elem : pr[y] = IF y = l.succ[e] THEN l.pred[e] ELSE l.pred[y]
    <3>1. l.succ \in [Elem -> Object] /\ l.pred \in [Elem -> Object]
      BY <1>1 DEF ListType
    <3>2. su \in [Elem -> Object] /\ \A y \in Elem : su[y] = IF y = l.pred[e] THEN l.succ[e] ELSE l.succ[y]
      BY <1>1, <3>1, NoNull DEF Put, Object
    <3>3. pr \in [Elem -> Object] /\ \A y \in Elem : pr[y] = IF y = l.succ[e] THEN l.pred[e] ELSE l.pred[y]
      BY <1>1, <3>1, NoNull DEF Put, Object
    <3> QED  BY <3>2, <3>3
  <2>2. k.succ = [su EXCEPT ![e] = NULL] /\ k.pred = [IF last THEN l.pred ELSE pr EXCEPT ![e] = NULL]
    BY <1>2
  <2>3. l.pred \in [Elem -> Object]
    BY <1>1 DEF ListType
  <2> HIDE DEF su, pr
  <2> QED  BY <1>1, <2>1, <2>2, <2>3
<1>5. Ordered(S, R) /\ (\A x \in G, y \in M : Before(R, x, y)) /\ G \cap M = {}
      /\ G \subseteq S /\ M \subseteq S /\ e \in G /\ e \notin M /\ S = G \cup M
  BY DEF ListIs, S
<1>6. Ordered(T, R)
  BY <1>1, <1>5 DEF Ordered
<1>7. /\ NextIn(l.succ[e], e, S, R) /\ PrevIn(l.pred[e], e, G, R)
      /\ \A x \in S : NextIn(l.succ[x], x, S, R)
      /\ \A x \in G : PrevIn(l.pred[x], x, G, R)
      /\ \A x \in M : PrevIn(l.pred[x], x, M, R)
      /\ FirstIn(l.first[0], G, R) /\ LastIn(l.last[0], G, R)
      /\ FirstIn(l.first[1], M, R) /\ LastIn(l.last[1], M, R)
  BY DEF ListIs, S
<1>8. ASSUME NEW x \in T PROVE NextIn(k.succ[x], x, T, R)
  <2>1. CASE x = l.pred[e]
    BY <1>1, <1>4, <1>5, <1>7, <2>1 DEF NextIn, PrevIn, Ordered
  <2>2. CASE x # l.pred[e]
    <3>1. l.succ[x] # e
      BY <1>1, <1>5, <1>7, <2>2 DEF NextIn, PrevIn, Ordered
    <3> QED  BY <3>1, <1>1, <1>4, <1>7, <2>2 DEF NextIn
  <2> QED  BY <2>1, <2>2
<1>9. last <=> \A z \in G : ~Before(R, e, z)
  BY <1>1, <1>5, <1>7 DEF LastIn, Ordered
<1>10. ~last => l.succ[e] \in G
  BY <1>1, <1>5, <1>7, <1>9 DEF NextIn, Ordered
<1>11. ASSUME NEW x \in G \ {e} PROVE PrevIn(k.pred[x], x, G \ {e}, R)
  <2>1. x \in T /\ x \in S
    BY <1>1, <1>5
  <2>2. CASE ~last /\ x = l.succ[e]
    BY <1>1, <1>4, <1>5, <1>7, <2>1, <2>2 DEF NextIn, PrevIn, Ordered
  <2>3. CASE ~(~last /\ x = l.succ[e])
    <3>1. l.pred[x] # e
      BY <1>1, <1>5, <1>7, <1>9, <1>10, <2>1, <2>3 DEF NextIn, PrevIn, Ordered
    <3> QED  BY <3>1, <1>1, <1>4, <1>7, <2>1, <2>3 DEF PrevIn
  <2> QED  BY <2>2, <2>3
<1>12. ASSUME NEW x \in M PROVE PrevIn(k.pred[x], x, M, R)
  BY <1>1, <1>4, <1>5, <1>7, <1>10
<1>13. /\ k.first[0] = IF l.first[0] # e THEN l.first[0] ELSE IF last THEN NULL ELSE l.succ[e]
       /\ k.last[0] = IF last THEN l.pred[e] ELSE l.last[0]
       /\ k.first[1] = l.first[1] /\ k.last[1] = l.last[1]
  BY <1>1, <1>2 DEF ListType
<1>14. FirstIn(k.first[0], G \ {e}, R)
  BY <1>1, <1>5, <1>7, <1>9, <1>10, <1>13 DEF FirstIn, NextIn, Ordered
<1>15. LastIn(k.last[0], G \ {e}, R)
  BY <1>1, <1>5, <1>7, <1>9, <1>13 DEF LastIn, PrevIn, Ordered
<1>16. ListIs(k, G \ {e}, M, R)
  <2>1. \A x \in G \ {e}, y \in M : Before(R, x, y)
    BY <1>5
  <2>2. (G \ {e}) \cup M = T /\ G \ {e} \subseteq Elem /\ M \subseteq Elem /\ (G \ {e}) \cap M = {}
    BY <1>1, <1>5 DEF T
  <2> QED  BY <1>3, <1>6, <1>7, <1>8, <1>11, <1>12, <1>13, <1>14, <1>15, <2>1, <2>2 DEF ListIs
<1> QED  BY <1>2, <1>16 DEF k, Result

\* The same of a master.
LEMMA UnlinkMasterIs ==
  ASSUME NEW l, NEW G, NEW M, NEW R, ListIs(l, G, M, R), NEW e \in M,
         NEW prio \in Prios, Prio2ListPart(prio) = 1
  PROVE  Result(GridUnlink(l, e, prio), l, G, M \ {e}, R, prio, -1)
<1> DEFINE k == GridUnlink(l, e, prio)
           S == G \cup M
           T == G \cup (M \ {e})
           before == IF l.pred[e] = NULL THEN l.last[0] ELSE l.pred[e]
<1>1. /\ l \in ListType /\ e \in Elem /\ e \in S /\ e # NULL
      /\ l.succ[e] \in Object /\ l.pred[e] \in Object /\ before \in Object
      /\ T = S \ {e} /\ S \subseteq Elem /\ NULL \notin S
  BY NoNull DEF ListIs, ListType, Object
<1>2. /\ k.first = [l.first EXCEPT ![1] = IF l.pred[e] = NULL THEN l.succ[e] ELSE @]
      /\ k.last = [l.last EXCEPT ![1] = IF l.succ[e] = NULL THEN l.pred[e] ELSE @]
      /\ k.succ = [Put(l.succ, before, l.succ[e]) EXCEPT ![e] = NULL]
      /\ k.pred = [Put(l.pred, l.succ[e], l.pred[e]) EXCEPT ![e] = NULL]
      /\ k.count = [l.count EXCEPT ![prio] = @ - 1]
      /\ k = [first |-> k.first, last |-> k.last, succ |-> k.succ, pred |-> k.pred, count |-> k.count]
  <2> DEFINE u == UnlinkMaster(l, e)
  <2>1. l = [first |-> l.first, last |-> l.last, succ |-> l.succ, pred |-> l.pred, count |-> l.count]
    BY <1>1 DEF ListType
  <2>2. u = [l EXCEPT !.succ = Put(@, before, l.succ[e]),
                      !.pred = Put(@, l.succ[e], l.pred[e]),
                      !.first[1] = IF l.pred[e] = NULL THEN l.succ[e] ELSE @,
                      !.last[1] = IF l.succ[e] = NULL THEN l.pred[e] ELSE @]
    BY DEF UnlinkMaster
  <2>3. k = [u EXCEPT !.succ[e] = NULL, !.pred[e] = NULL, !.count[prio] = @ - 1]
    BY DEF GridUnlink
  <2> HIDE DEF k, u, before
  <2>4. /\ u.first = [l.first EXCEPT ![1] = IF l.pred[e] = NULL THEN l.succ[e] ELSE @]
        /\ u.last = [l.last EXCEPT ![1] = IF l.succ[e] = NULL THEN l.pred[e] ELSE @]
        /\ u.succ = Put(l.succ, before, l.succ[e])
        /\ u.pred = Put(l.pred, l.succ[e], l.pred[e])
        /\ u.count = l.count
        /\ u = [first |-> u.first, last |-> u.last, succ |-> u.succ, pred |-> u.pred, count |-> u.count]
    BY <2>1, <2>2
  <2> QED  BY <2>3, <2>4
<1> HIDE DEF k, T, S
<1>3. k \in ListType
  <2> DEFINE su == Put(l.succ, before, l.succ[e])
             pr == Put(l.pred, l.succ[e], l.pred[e])
  <2>1. su \in [Elem -> Object] /\ pr \in [Elem -> Object]
    <3>1. l.succ \in [Elem -> Object] /\ l.pred \in [Elem -> Object]
      BY <1>1 DEF ListType
    <3>2. su \in [Elem -> Object]
      BY <1>1, <3>1, NoNull DEF Put, Object
    <3>3. pr \in [Elem -> Object]
      BY <1>1, <3>1, NoNull DEF Put, Object
    <3> QED  BY <3>2, <3>3
  <2>2. k.succ = [su EXCEPT ![e] = NULL] /\ k.pred = [pr EXCEPT ![e] = NULL]
    BY <1>2
  <2> HIDE DEF su, pr
  <2>3. k.succ \in [Elem -> Object] /\ k.pred \in [Elem -> Object]
    BY <1>1, <2>1, <2>2 DEF Object
  <2>4. k.first \in [0 .. 1 -> Object] /\ k.last \in [0 .. 1 -> Object] /\ k.count \in [Prios -> Int]
    BY <1>1, <1>2 DEF ListType, Object
  <2> QED  BY <1>2, <2>3, <2>4 DEF ListType
<1>4. /\ \A x \in T : k.succ[x] = IF x = before THEN l.succ[e] ELSE l.succ[x]
      /\ \A x \in T : k.pred[x] = IF x = l.succ[e] THEN l.pred[e] ELSE l.pred[x]
  <2> DEFINE su == Put(l.succ, before, l.succ[e])
             pr == Put(l.pred, l.succ[e], l.pred[e])
  <2>1. /\ su \in [Elem -> Object] /\ \A y \in Elem : su[y] = IF y = before THEN l.succ[e] ELSE l.succ[y]
        /\ pr \in [Elem -> Object] /\ \A y \in Elem : pr[y] = IF y = l.succ[e] THEN l.pred[e] ELSE l.pred[y]
    <3>1. l.succ \in [Elem -> Object] /\ l.pred \in [Elem -> Object]
      BY <1>1 DEF ListType
    <3>2. su \in [Elem -> Object] /\ \A y \in Elem : su[y] = IF y = before THEN l.succ[e] ELSE l.succ[y]
      BY <1>1, <3>1, NoNull DEF Put, Object
    <3>3. pr \in [Elem -> Object] /\ \A y \in Elem : pr[y] = IF y = l.succ[e] THEN l.pred[e] ELSE l.pred[y]
      BY <1>1, <3>1, NoNull DEF Put, Object
    <3> QED  BY <3>2, <3>3
  <2>2. k.succ = [su EXCEPT ![e] = NULL] /\ k.pred = [pr EXCEPT ![e] = NULL]
    BY <1>2
  <2> HIDE DEF su, pr
  <2> QED  BY <1>1, <2>1, <2>2
<1>5. Ordered(S, R) /\ (\A x \in G, y \in M : Before(R, x, y)) /\ G \cap M = {}
      /\ G \subseteq S /\ M \subseteq S /\ e \in M /\ e \notin G /\ S = G \cup M
  BY DEF ListIs, S
<1>6. Ordered(T, R)
  BY <1>1, <1>5 DEF Ordered
<1>7. /\ NextIn(l.succ[e], e, S, R) /\ PrevIn(l.pred[e], e, M, R)
      /\ \A x \in S : NextIn(l.succ[x], x, S, R)
      /\ \A x \in G : PrevIn(l.pred[x], x, G, R)
      /\ \A x \in M : PrevIn(l.pred[x], x, M, R)
      /\ FirstIn(l.first[0], G, R) /\ LastIn(l.last[0], G, R)
      /\ FirstIn(l.first[1], M, R) /\ LastIn(l.last[1], M, R)
  BY DEF ListIs, S
<1>8. PrevIn(before, e, S, R)
  BY <1>1, <1>5, <1>7 DEF PrevIn, LastIn, Ordered
<1> HIDE DEF before
<1>9. ASSUME NEW x \in T PROVE NextIn(k.succ[x], x, T, R)
  <2>1. CASE x = before
    BY <1>1, <1>4, <1>5, <1>7, <1>8, <2>1 DEF NextIn, PrevIn, Ordered
  <2>2. CASE x # before
    <3>1. l.succ[x] # e
      BY <1>1, <1>5, <1>7, <1>8, <2>2 DEF NextIn, PrevIn, Ordered
    <3> QED  BY <3>1, <1>1, <1>4, <1>7, <2>2 DEF NextIn
  <2> QED  BY <2>1, <2>2
<1>10. l.succ[e] # NULL => l.succ[e] \in M
  BY <1>1, <1>5, <1>7 DEF NextIn, Ordered
<1>11. ASSUME NEW x \in M \ {e} PROVE PrevIn(k.pred[x], x, M \ {e}, R)
  <2>1. x \in T /\ x \in S
    BY <1>1, <1>5
  <2>2. CASE x = l.succ[e]
    BY <1>1, <1>4, <1>5, <1>7, <2>1, <2>2 DEF NextIn, PrevIn, Ordered
  <2>3. CASE x # l.succ[e]
    <3>1. l.pred[x] # e
      BY <1>1, <1>5, <1>7, <1>10, <2>1, <2>3 DEF NextIn, PrevIn, Ordered
    <3> QED  BY <3>1, <1>1, <1>4, <1>7, <2>1, <2>3 DEF PrevIn
  <2> QED  BY <2>2, <2>3
<1>12. ASSUME NEW x \in G PROVE PrevIn(k.pred[x], x, G, R)
  BY <1>1, <1>4, <1>5, <1>7, <1>10
<1>13. /\ k.first[1] = IF l.pred[e] = NULL THEN l.succ[e] ELSE l.first[1]
       /\ k.last[1] = IF l.succ[e] = NULL THEN l.pred[e] ELSE l.last[1]
       /\ k.first[0] = l.first[0] /\ k.last[0] = l.last[0]
  BY <1>1, <1>2 DEF ListType
<1>14. FirstIn(k.first[1], M \ {e}, R)
  BY <1>1, <1>5, <1>7, <1>10, <1>13 DEF FirstIn, NextIn, PrevIn, Ordered
<1>15. LastIn(k.last[1], M \ {e}, R)
  BY <1>1, <1>5, <1>7, <1>10, <1>13 DEF LastIn, NextIn, PrevIn, Ordered
<1>16. ListIs(k, G, M \ {e}, R)
  <2>1. \A x \in G, y \in M \ {e} : Before(R, x, y)
    BY <1>5
  <2>2. G \cup (M \ {e}) = T /\ M \ {e} \subseteq Elem /\ G \subseteq Elem /\ G \cap (M \ {e}) = {}
    BY <1>1, <1>5 DEF T
  <2> QED  BY <1>3, <1>6, <1>7, <1>9, <1>11, <1>12, <1>13, <1>14, <1>15, <2>1, <2>2 DEF ListIs
<1> QED  BY <1>2, <1>16 DEF k, Result


\* R2 is R with e put behind the elements of A.
InsertOf(R2, R, S, A, e) ==
    /\ \A x, y \in S : Before(R2, x, y) <=> Before(R, x, y)
    /\ \A x \in S : (Before(R2, x, e) <=> x \in A) /\ (Before(R2, e, x) <=> x \notin A)
    /\ ~Before(R2, e, e)

\* An element can be inserted into an order behind any set of elements.
LEMMA InsertExists ==
  ASSUME NEW R, NEW S, NEW A, NEW e, e \notin S
  PROVE  \E R2 : InsertOf(R2, R, S, A, e)
<1> DEFINE R2 == {p \in (S \cup {e}) \X (S \cup {e}) :
                     \/ p[1] \in S /\ p[2] \in S /\ p \in R
                     \/ p[1] \in S /\ p[2] = e /\ p[1] \in A
                     \/ p[1] = e /\ p[2] \in S /\ p[2] \notin A}
<1>1. \A x, y \in S : Before(R2, x, y) <=> Before(R, x, y)
  BY DEF Before
<1>2. \A x \in S : (Before(R2, x, e) <=> x \in A) /\ (Before(R2, e, x) <=> x \notin A)
  BY DEF Before
<1>3. ~Before(R2, e, e)
  BY DEF Before
<1> QED  BY <1>1, <1>2, <1>3 DEF InsertOf

\* What is inserted behind all elements up to a place is ordered with them.
LEMMA InsertOrdered ==
  ASSUME NEW R, NEW S, NEW A, NEW e, e \notin S, NEW R2, InsertOf(R2, R, S, A, e), Ordered(S, R),
         \A x, y \in S : Before(R, x, y) /\ y \in A => x \in A
  PROVE  Ordered(S \cup {e}, R2)
<1>1. \A x \in S \cup {e} : ~Before(R2, x, x)
  BY DEF Ordered, InsertOf
<1>2. \A x, y \in S \cup {e} : x = y \/ Before(R2, x, y) \/ Before(R2, y, x)
  BY DEF Ordered, InsertOf
<1>3. ASSUME NEW x \in S \cup {e}, NEW y \in S \cup {e}, NEW z \in S \cup {e},
             Before(R2, x, y), Before(R2, y, z)
      PROVE  Before(R2, x, z)
  BY <1>3 DEF Ordered, InsertOf
<1> QED  BY <1>1, <1>2, <1>3 DEF Ordered

\* A ghost is linked in front of everything (dlmgr.t, GRID_LINK).
LEMMA LinkGhostIs ==
  ASSUME NEW l, NEW G, NEW M, NEW R, ListIs(l, G, M, R), NEW e \in Elem, e \notin G \cup M,
         NEW prio \in Prios, Prio2ListPart(prio) = 0, NEW R2, InsertOf(R2, R, G \cup M, {}, e)
  PROVE  Result(GridLink(l, e, prio), l, G \cup {e}, M, R2, prio, 1)
<1> DEFINE k == GridLink(l, e, prio)
           S == G \cup M
           T == (G \cup {e}) \cup M
           head == l.first[0]
           next == IF head = NULL THEN l.first[1] ELSE head
<1>1. /\ l \in ListType /\ e \notin S /\ e # NULL
      /\ head \in Object /\ next \in Object
      /\ T = S \cup {e} /\ S \subseteq Elem /\ NULL \notin S
  BY NoNull DEF ListIs, ListType, Object
<1>2. /\ k.first = [l.first EXCEPT ![0] = e]
      /\ k.last = [l.last EXCEPT ![0] = IF head = NULL THEN e ELSE @]
      /\ k.succ = [l.succ EXCEPT ![e] = next]
      /\ k.pred = Put([l.pred EXCEPT ![e] = NULL], head, e)
      /\ k.count = [l.count EXCEPT ![prio] = @ + 1]
      /\ k = [first |-> k.first, last |-> k.last, succ |-> k.succ, pred |-> k.pred, count |-> k.count]
  <2> DEFINE u == LinkGhost(l, e)
  <2>1. l = [first |-> l.first, last |-> l.last, succ |-> l.succ, pred |-> l.pred, count |-> l.count]
    BY <1>1 DEF ListType
  <2>2. u = [l EXCEPT !.succ[e] = next,
                      !.pred = Put([@ EXCEPT ![e] = NULL], head, e),
                      !.first[0] = e,
                      !.last[0] = IF head = NULL THEN e ELSE @]
    BY DEF LinkGhost
  <2>3. k = [u EXCEPT !.count[prio] = @ + 1]
    BY DEF GridLink
  <2> HIDE DEF k, u, next, head
  <2>4. /\ u.first = [l.first EXCEPT ![0] = e]
        /\ u.last = [l.last EXCEPT ![0] = IF head = NULL THEN e ELSE @]
        /\ u.succ = [l.succ EXCEPT ![e] = next]
        /\ u.pred = Put([l.pred EXCEPT ![e] = NULL], head, e)
        /\ u.count = l.count
        /\ u = [first |-> u.first, last |-> u.last, succ |-> u.succ, pred |-> u.pred, count |-> u.count]
    BY <2>1, <2>2
  <2> QED  BY <2>3, <2>4
<1> HIDE DEF k, T, S, next, head
<1>3. /\ k.pred \in [Elem -> Object]
      /\ \A y \in Elem : k.pred[y] = IF y = head THEN e ELSE IF y = e THEN NULL ELSE l.pred[y]
  <2> DEFINE pr == [l.pred EXCEPT ![e] = NULL]
  <2>1. pr \in [Elem -> Object] /\ \A y \in Elem : pr[y] = IF y = e THEN NULL ELSE l.pred[y]
    BY <1>1 DEF ListType, Object
  <2>2. k.pred = Put(pr, head, e) /\ e \in Object
    BY <1>2 DEF Object
  <2> HIDE DEF pr
  <2>3. k.pred \in [Elem -> Object] /\ \A y \in Elem : k.pred[y] = IF y = head THEN e ELSE pr[y]
    BY <1>1, <2>1, <2>2, NoNull DEF Put, Object
  <2> QED  BY <2>1, <2>3
<1>4. k \in ListType
  <2>1. k.succ \in [Elem -> Object]
    BY <1>1, <1>2 DEF ListType
  <2>2. k.first \in [0 .. 1 -> Object] /\ k.last \in [0 .. 1 -> Object] /\ k.count \in [Prios -> Int]
    BY <1>1, <1>2 DEF ListType, Object
  <2> QED  BY <1>2, <1>3, <2>1, <2>2 DEF ListType
<1>5. \A x \in T : k.succ[x] = IF x = e THEN next ELSE l.succ[x]
  BY <1>1, <1>2 DEF ListType
<1>6. Ordered(S, R) /\ (\A x \in G, y \in M : Before(R, x, y)) /\ G \cap M = {}
      /\ G \subseteq S /\ M \subseteq S /\ e \notin G /\ e \notin M /\ S = G \cup M
  BY <1>1 DEF ListIs, S
<1>7. /\ \A x, y \in S : Before(R2, x, y) <=> Before(R, x, y)
      /\ \A x \in S : ~Before(R2, x, e) /\ Before(R2, e, x)
      /\ ~Before(R2, e, e)
  BY DEF InsertOf, S
<1>8. Ordered(T, R2)
  BY <1>1, <1>6, InsertOrdered DEF S
<1>9. /\ \A x \in S : NextIn(l.succ[x], x, S, R)
      /\ \A x \in G : PrevIn(l.pred[x], x, G, R)
      /\ \A x \in M : PrevIn(l.pred[x], x, M, R)
      /\ FirstIn(head, G, R) /\ LastIn(l.last[0], G, R)
      /\ FirstIn(l.first[1], M, R) /\ LastIn(l.last[1], M, R)
  BY DEF ListIs, S, head
<1>10. FirstIn(next, S, R)
  BY <1>1, <1>6, <1>9 DEF FirstIn, next
<1>11. ASSUME NEW x \in T PROVE NextIn(k.succ[x], x, T, R2)
  <2>1. CASE x = e
    BY <1>1, <1>5, <1>7, <1>10, <2>1 DEF NextIn, FirstIn
  <2>2. CASE x # e
    BY <1>1, <1>5, <1>7, <1>9, <2>2 DEF NextIn
  <2> QED  BY <2>1, <2>2
<1>12. ASSUME NEW x \in G \cup {e} PROVE PrevIn(k.pred[x], x, G \cup {e}, R2)
  <2>1. CASE x = e
    <3>1. k.pred[x] = NULL
      BY <1>1, <1>3, <1>6, <1>9, <2>1 DEF FirstIn
    <3> QED  BY <1>1, <1>6, <1>7, <2>1, <3>1 DEF PrevIn
  <2>2. CASE x = head /\ x # e
    BY <1>1, <1>3, <1>6, <1>7, <1>9, <2>2 DEF PrevIn, FirstIn, Ordered
  <2>3. CASE x # head /\ x # e
    <3>1. k.pred[x] = l.pred[x] /\ x \in G /\ l.pred[x] # NULL
      BY <1>1, <1>3, <1>6, <1>9, <2>3 DEF FirstIn, PrevIn
    <3> QED  BY <1>1, <1>6, <1>7, <1>9, <2>3, <3>1 DEF PrevIn
  <2> QED  BY <2>1, <2>2, <2>3
<1>13. ASSUME NEW x \in M PROVE PrevIn(k.pred[x], x, M, R2)
  <2>1. k.pred[x] = l.pred[x]
    BY <1>1, <1>3, <1>6, <1>9 DEF FirstIn
  <2> QED  BY <1>6, <1>7, <1>9, <2>1 DEF PrevIn
<1>14. /\ k.first[0] = e
       /\ k.last[0] = IF head = NULL THEN e ELSE l.last[0]
       /\ k.first[1] = l.first[1] /\ k.last[1] = l.last[1]
  BY <1>1, <1>2 DEF ListType
<1>15. FirstIn(k.first[0], G \cup {e}, R2) /\ FirstIn(k.first[1], M, R2)
  BY <1>1, <1>6, <1>7, <1>9, <1>14 DEF FirstIn
<1>16. LastIn(k.last[0], G \cup {e}, R2) /\ LastIn(k.last[1], M, R2)
  BY <1>1, <1>6, <1>7, <1>9, <1>14 DEF FirstIn, LastIn
<1>17. ListIs(k, G \cup {e}, M, R2)
  <2>1. \A x \in G \cup {e}, y \in M : Before(R2, x, y)
    BY <1>6, <1>7
  <2>2. (G \cup {e}) \cup M = T /\ G \cup {e} \subseteq Elem /\ M \subseteq Elem /\ (G \cup {e}) \cap M = {}
    BY <1>1, <1>6 DEF T
  <2> QED  BY <1>4, <1>8, <1>11, <1>12, <1>13, <1>15, <1>16, <2>1, <2>2 DEF ListIs
<1> QED  BY <1>2, <1>17 DEF k, Result

\* A master is linked behind everything.
LEMMA LinkMasterIs ==
  ASSUME NEW l, NEW G, NEW M, NEW R, ListIs(l, G, M, R), NEW e \in Elem, e \notin G \cup M,
         NEW prio \in Prios, Prio2ListPart(prio) = 1, NEW R2, InsertOf(R2, R, G \cup M, G \cup M, e)
  PROVE  Result(GridLink(l, e, prio), l, G, M \cup {e}, R2, prio, 1)
<1> DEFINE k == GridLink(l, e, prio)
           S == G \cup M
           T == G \cup (M \cup {e})
           tail == l.last[1]
           before == IF tail = NULL THEN l.last[0] ELSE tail
<1>1. /\ l \in ListType /\ e \notin S /\ e # NULL
      /\ tail \in Object /\ before \in Object
      /\ T = S \cup {e} /\ S \subseteq Elem /\ NULL \notin S
  BY NoNull DEF ListIs, ListType, Object
<1>2. /\ k.first = [l.first EXCEPT ![1] = IF tail = NULL THEN e ELSE @]
      /\ k.last = [l.last EXCEPT ![1] = e]
      /\ k.succ = Put([l.succ EXCEPT ![e] = NULL], before, e)
      /\ k.pred = [l.pred EXCEPT ![e] = tail]
      /\ k.count = [l.count EXCEPT ![prio] = @ + 1]
      /\ k = [first |-> k.first, last |-> k.last, succ |-> k.succ, pred |-> k.pred, count |-> k.count]
  <2> DEFINE u == LinkMaster(l, e)
  <2>1. l = [first |-> l.first, last |-> l.last, succ |-> l.succ, pred |-> l.pred, count |-> l.count]
    BY <1>1 DEF ListType
  <2>2. u = [l EXCEPT !.succ = Put([@ EXCEPT ![e] = NULL], before, e),
                      !.pred[e] = tail,
                      !.first[1] = IF tail = NULL THEN e ELSE @,
                      !.last[1] = e]
    BY DEF LinkMaster
  <2>3. k = [u EXCEPT !.count[prio] = @ + 1]
    BY DEF GridLink
  <2> HIDE DEF k, u, before, tail
  <2>4. /\ u.first = [l.first EXCEPT ![1] = IF tail = NULL THEN e ELSE @]
        /\ u.last = [l.last EXCEPT ![1] = e]
        /\ u.succ = Put([l.succ EXCEPT ![e] = NULL], before, e)
        /\ u.pred = [l.pred EXCEPT ![e] = tail]
        /\ u.count = l.count
        /\ u = [first |-> u.first, last |-> u.last, succ |-> u.succ, pred |-> u.pred, count |-> u.count]
    BY <2>1, <2>2
  <2> QED  BY <2>3, <2>4
<1> HIDE DEF k, T, S, before, tail
<1>3. /\ k.succ \in [Elem -> Object]
      /\ \A y \in Elem : k.succ[y] = IF y = before THEN e ELSE IF y = e THEN NULL ELSE l.succ[y]
  <2> DEFINE su == [l.succ EXCEPT ![e] = NULL]
  <2>1. su \in [Elem -> Object] /\ \A y \in Elem : su[y] = IF y = e THEN NULL ELSE l.succ[y]
    BY <1>1 DEF ListType, Object
  <2>2. k.succ = Put(su, before, e) /\ e \in Object
    BY <1>2 DEF Object
  <2> HIDE DEF su
  <2>3. k.succ \in [Elem -> Object] /\ \A y \in Elem : k.succ[y] = IF y = before THEN e ELSE su[y]
    BY <1>1, <2>1, <2>2, NoNull DEF Put, Object
  <2> QED  BY <2>1, <2>3
<1>4. k \in ListType
  <2>1. k.pred \in [Elem -> Object]
    BY <1>1, <1>2 DEF ListType
  <2>2. k.first \in [0 .. 1 -> Object] /\ k.last \in [0 .. 1 -> Object] /\ k.count \in [Prios -> Int]
    BY <1>1, <1>2 DEF ListType, Object
  <2> QED  BY <1>2, <1>3, <2>1, <2>2 DEF ListType
<1>5. \A x \in T : k.pred[x] = IF x = e THEN tail ELSE l.pred[x]
  BY <1>1, <1>2 DEF ListType
<1>6. Ordered(S, R) /\ (\A x \in G, y \in M : Before(R, x, y)) /\ G \cap M = {}
      /\ G \subseteq S /\ M \subseteq S /\ e \notin G /\ e \notin M /\ S = G \cup M
  BY <1>1 DEF ListIs, S
<1>7. /\ \A x, y \in S : Before(R2, x, y) <=> Before(R, x, y)
      /\ \A x \in S : Before(R2, x, e) /\ ~Before(R2, e, x)
      /\ ~Before(R2, e, e)
  BY DEF InsertOf, S
<1>8. Ordered(T, R2)
  BY <1>1, <1>6, InsertOrdered DEF S
<1>9. /\ \A x \in S : NextIn(l.succ[x], x, S, R)
      /\ \A x \in G : PrevIn(l.pred[x], x, G, R)
      /\ \A x \in M : PrevIn(l.pred[x], x, M, R)
      /\ FirstIn(l.first[0], G, R) /\ LastIn(l.last[0], G, R)
      /\ FirstIn(l.first[1], M, R) /\ LastIn(tail, M, R)
  BY DEF ListIs, S, tail
<1>10. LastIn(before, S, R)
  BY <1>1, <1>6, <1>9 DEF LastIn, before
<1>11. ASSUME NEW x \in T PROVE NextIn(k.succ[x], x, T, R2)
  <2>1. CASE x = e
    <3>1. k.succ[x] = NULL
      BY <1>1, <1>3, <1>10, <2>1 DEF LastIn
    <3> QED  BY <1>1, <1>7, <2>1, <3>1 DEF NextIn
  <2>2. CASE x = before /\ x # e
    BY <1>1, <1>3, <1>6, <1>7, <1>10, <2>2 DEF NextIn, LastIn, Ordered
  <2>3. CASE x # before /\ x # e
    <3>1. k.succ[x] = l.succ[x] /\ x \in S /\ l.succ[x] # NULL
      BY <1>1, <1>3, <1>6, <1>9, <1>10, <2>3 DEF LastIn, NextIn
    <3> QED  BY <1>1, <1>6, <1>7, <1>9, <2>3, <3>1 DEF NextIn
  <2> QED  BY <2>1, <2>2, <2>3
<1>12. ASSUME NEW x \in M \cup {e} PROVE PrevIn(k.pred[x], x, M \cup {e}, R2)
  <2>1. CASE x = e
    BY <1>1, <1>5, <1>6, <1>7, <1>9, <2>1 DEF PrevIn, LastIn
  <2>2. CASE x # e
    BY <1>1, <1>5, <1>6, <1>7, <1>9, <2>2 DEF PrevIn
  <2> QED  BY <2>1, <2>2
<1>13. ASSUME NEW x \in G PROVE PrevIn(k.pred[x], x, G, R2)
  BY <1>1, <1>5, <1>6, <1>7, <1>9 DEF PrevIn
<1>14. /\ k.first[1] = IF tail = NULL THEN e ELSE l.first[1]
       /\ k.last[1] = e
       /\ k.first[0] = l.first[0] /\ k.last[0] = l.last[0]
  BY <1>1, <1>2 DEF ListType
<1>15. FirstIn(k.first[1], M \cup {e}, R2) /\ FirstIn(k.first[0], G, R2)
  BY <1>1, <1>6, <1>7, <1>9, <1>14 DEF FirstIn, LastIn
<1>16. LastIn(k.last[1], M \cup {e}, R2) /\ LastIn(k.last[0], G, R2)
  BY <1>1, <1>6, <1>7, <1>9, <1>14 DEF LastIn
<1>17. ListIs(k, G, M \cup {e}, R2)
  <2>1. \A x \in G, y \in M \cup {e} : Before(R2, x, y)
    BY <1>6, <1>7
  <2>2. G \cup (M \cup {e}) = T /\ M \cup {e} \subseteq Elem /\ G \subseteq Elem /\ G \cap (M \cup {e}) = {}
    BY <1>1, <1>6 DEF T
  <2> QED  BY <1>4, <1>8, <1>11, <1>12, <1>13, <1>15, <1>16, <2>1, <2>2 DEF ListIs
<1> QED  BY <1>2, <1>17 DEF k, Result

\* x and what is before it.
UpTo(x, S, R) == {y \in S : y = x \/ Before(R, y, x)}

\* What linking behind a given element does to the pointers.
LinkedX(k, l, e, prio, after) ==
    /\ k \in ListType
    /\ k.first = l.first
    /\ \A i \in 0 .. 1 : k.last[i] = IF i = Prio2ListPart(prio) /\ l.last[i] = after THEN e ELSE l.last[i]
    /\ \A x \in Elem : k.succ[x] = IF x = e THEN l.succ[after] ELSE IF x = after THEN e ELSE l.succ[x]
    /\ \A x \in Elem : k.pred[x] = IF x = e THEN after
                                   ELSE IF x = l.succ[after] /\ l.pred[x] = after THEN e ELSE l.pred[x]
    /\ k.count = [l.count EXCEPT ![prio] = @ + 1]

\* The pointers GRID_LINKX writes.
LEMMA LinkXFields ==
  ASSUME NEW l \in ListType, NEW e \in Elem, NEW after \in Elem, e # after, l.succ[after] # e,
         NEW prio \in Prios
  PROVE  LinkedX(GridLinkX(l, e, prio, after), l, e, prio, after)
<1> DEFINE part == Prio2ListPart(prio)
           k == GridLinkX(l, e, prio, after)
           next == l.succ[after]
           moved == IF next # NULL /\ l.pred[next] = after THEN Put(l.pred, next, e) ELSE l.pred
<1>1. after # NULL /\ part \in 0 .. 1 /\ next \in Object /\ l.last \in [0 .. 1 -> Object] /\ l.succ \in [Elem -> Object]
      /\ l.pred \in [Elem -> Object] /\ l.count \in [Prios -> Int] /\ l.first \in [0 .. 1 -> Object]
  BY NoNull DEF ListType, Prio2ListPart
<1>2. /\ moved \in [Elem -> Object]
      /\ \A x \in Elem : moved[x] = IF x = next /\ l.pred[next] = after THEN e ELSE l.pred[x]
  BY <1>1, NoNull DEF Put, Object
<1> HIDE DEF moved
<1>3. /\ k.first = l.first
      /\ k.last = [l.last EXCEPT ![part] = IF @ = after THEN e ELSE @]
      /\ k.succ = [l.succ EXCEPT ![e] = next, ![after] = e]
      /\ k.pred = [moved EXCEPT ![e] = after]
      /\ k.count = [l.count EXCEPT ![prio] = @ + 1]
      /\ k = [first |-> k.first, last |-> k.last, succ |-> k.succ, pred |-> k.pred, count |-> k.count]
  <2>1. l = [first |-> l.first, last |-> l.last, succ |-> l.succ, pred |-> l.pred, count |-> l.count]
    BY DEF ListType
  <2>2. k = [l EXCEPT !.succ = [@ EXCEPT ![e] = next, ![after] = e],
                      !.pred = [moved EXCEPT ![e] = after],
                      !.last[part] = IF @ = after THEN e ELSE @,
                      !.count[prio] = @ + 1]
    BY <1>1 DEF GridLinkX, moved
  <2> HIDE DEF k, next, part
  <2> QED  BY <1>1, <2>1, <2>2
<1> HIDE DEF k, next, part
<1>4. k.succ \in [Elem -> Object]
  BY <1>1, <1>3 DEF Object
<1>5. k.pred \in [Elem -> Object]
  BY <1>1, <1>2, <1>3 DEF Object
<1>6. k.last \in [0 .. 1 -> Object] /\ k.count \in [Prios -> Int]
  BY <1>1, <1>3 DEF Object
<1>7. k \in ListType
  BY <1>1, <1>3, <1>4, <1>5, <1>6 DEF ListType
<1>8. \A i \in 0 .. 1 : k.last[i] = IF i = part /\ l.last[i] = after THEN e ELSE l.last[i]
  BY <1>1, <1>3
<1>9. \A x \in Elem : k.succ[x] = IF x = e THEN next ELSE IF x = after THEN e ELSE l.succ[x]
  BY <1>1, <1>3
<1>10. \A x \in Elem : k.pred[x] = IF x = e THEN after
                                   ELSE IF x = next /\ l.pred[x] = after THEN e ELSE l.pred[x]
  BY <1>1, <1>2, <1>3
<1> QED  BY <1>3, <1>7, <1>8, <1>9, <1>10 DEF k, next, part, LinkedX

\* P is part number i of a list of S.
IsPart(P, i, l, S, R) ==
    /\ P \subseteq S /\ S \subseteq Elem /\ Ordered(S, R)
    /\ \A x \in S : NextIn(l.succ[x], x, S, R)
    /\ \A x \in P : PrevIn(l.pred[x], x, P, R)
    /\ \A x, y \in P, z \in S : Before(R, x, z) /\ Before(R, z, y) => z \in P
    /\ LastIn(l.last[i], P, R)

\* What linking behind an element of the same part does to the order.
LEMMA LinkXOrder ==
  ASSUME NEW l, NEW k, NEW S, NEW P, NEW R, NEW after, NEW e, NEW prio, NEW R2,
         IsPart(P, Prio2ListPart(prio), l, S, R), LinkedX(k, l, e, prio, after),
         after \in P, e \in Elem, e \notin S,
         InsertOf(R2, R, S, UpTo(after, S, R), e)
  PROVE  /\ Ordered(S \cup {e}, R2)
         /\ \A x \in S \cup {e} : NextIn(k.succ[x], x, S \cup {e}, R2)
         /\ \A x \in P \cup {e} : PrevIn(k.pred[x], x, P \cup {e}, R2)
         /\ \A x \in S \ P : k.pred[x] = l.pred[x] \/ l.pred[x] = after
         /\ LastIn(k.last[Prio2ListPart(prio)], P \cup {e}, R2)
<1> DEFINE part == Prio2ListPart(prio)
           next == l.succ[after]
           U == UpTo(after, S, R)
<1>1. /\ P \subseteq S /\ S \subseteq Elem /\ Ordered(S, R)
      /\ \A x \in S : NextIn(l.succ[x], x, S, R)
      /\ \A x \in P : PrevIn(l.pred[x], x, P, R)
      /\ \A x, y \in P, z \in S : Before(R, x, z) /\ Before(R, z, y) => z \in P
      /\ LastIn(l.last[part], P, R)
  BY DEF IsPart
<1>2. /\ after \in S /\ after \in Elem /\ e # after /\ NULL \notin S /\ e # NULL /\ after # NULL
      /\ NextIn(next, after, S, R) /\ PrevIn(l.pred[after], after, P, R)
  BY <1>1, NoNull
<1>3. part \in 0 .. 1
  BY DEF Prio2ListPart
<1>4. /\ k \in ListType
      /\ \A i \in 0 .. 1 : k.last[i] = IF i = part /\ l.last[i] = after THEN e ELSE l.last[i]
      /\ \A x \in Elem : k.succ[x] = IF x = e THEN next ELSE IF x = after THEN e ELSE l.succ[x]
      /\ \A x \in Elem : k.pred[x] = IF x = e THEN after
                                     ELSE IF x = next /\ l.pred[x] = after THEN e ELSE l.pred[x]
  BY DEF LinkedX
<1> HIDE DEF next, part
<1>5. /\ \A x, y \in S : Before(R2, x, y) <=> Before(R, x, y)
      /\ \A x \in S : Before(R2, x, e) <=> (x = after \/ Before(R, x, after))
      /\ \A x \in S : Before(R2, e, x) <=> Before(R, after, x)
      /\ ~Before(R2, e, e)
  BY <1>1, <1>2 DEF InsertOf, UpTo, Ordered
<1>6. Ordered(S \cup {e}, R2)
  <2>1. \A x, y \in S : Before(R, x, y) /\ y \in U => x \in U
    BY <1>1, <1>2 DEF UpTo, Ordered
  <2> QED  BY <1>1, <2>1, InsertOrdered
<1>7. ASSUME NEW x \in S \cup {e}  PROVE NextIn(k.succ[x], x, S \cup {e}, R2)
  <2>1. CASE x = e
    BY <1>1, <1>2, <1>4, <1>5, <2>1 DEF NextIn
  <2>2. CASE x = after
    <3>1. k.succ[x] = e
      BY <1>1, <1>2, <1>4, <2>2
    <3> QED  BY <1>1, <1>2, <1>5, <2>2, <3>1 DEF NextIn
  <2>3. CASE x # e /\ x # after
    <3>1. k.succ[x] = l.succ[x] /\ x \in S
      BY <1>1, <1>4, <2>3
    <3>2. ~(l.succ[x] # NULL /\ Before(R2, x, e) /\ ~(l.succ[x] = e \/ Before(R2, l.succ[x], e)))
      <4> SUFFICES ASSUME l.succ[x] # NULL, Before(R2, x, e), ~Before(R2, l.succ[x], e)  PROVE FALSE
        OBVIOUS
      <4>1. Before(R, x, after) /\ l.succ[x] \in S
        BY <1>1, <3>1, <2>3, <1>5 DEF NextIn
      <4>2. l.succ[x] = after \/ Before(R, l.succ[x], after)
        BY <1>1, <1>2, <3>1, <4>1 DEF NextIn
      <4> QED  BY <4>1, <4>2, <1>5
    <3>3. l.succ[x] = NULL => ~Before(R2, x, e)
      BY <1>1, <1>2, <1>5, <2>3, <3>1 DEF NextIn
    <3> QED  BY <1>1, <1>2, <1>5, <3>1, <3>2, <3>3 DEF NextIn
  <2> QED  BY <2>1, <2>2, <2>3
<1>8. next \in P => l.pred[next] = after
  BY <1>1, <1>2 DEF NextIn, PrevIn, Ordered
<1>9. next \in P \/ \A z \in P : ~Before(R, after, z)
  BY <1>1, <1>2 DEF NextIn, Ordered
<1>10. ASSUME NEW x \in P \cup {e}  PROVE PrevIn(k.pred[x], x, P \cup {e}, R2)
  <2>1. CASE x = e
    BY <1>1, <1>2, <1>4, <1>5, <2>1 DEF PrevIn, Ordered
  <2>2. CASE x # e /\ x = next
    <3>1. k.pred[x] = e /\ x \in P /\ Before(R, after, x)
      BY <1>1, <1>2, <1>4, <1>8, <2>2 DEF NextIn
    <3>2. \A z \in P : Before(R, z, x) => z = after \/ Before(R, z, after)
      BY <1>1, <1>2, <1>8, <2>2, <3>1 DEF PrevIn
    <3> QED  BY <1>1, <1>2, <1>5, <3>1, <3>2 DEF PrevIn
  <2>3. CASE x # e /\ x # next
    <3>1. k.pred[x] = l.pred[x] /\ x \in P /\ PrevIn(l.pred[x], x, P, R) /\ x \in S
      BY <1>1, <1>2, <1>4, <2>3
    <3>2. ASSUME Before(R, after, x)  PROVE l.pred[x] # NULL /\ l.pred[x] \in P /\ Before(R, after, l.pred[x])
      <4>1. next \in P /\ next # x /\ Before(R, after, next) /\ Before(R, next, x)
        BY <1>1, <1>2, <1>9, <2>3, <3>1, <3>2 DEF NextIn
      <4>2. l.pred[x] # NULL /\ l.pred[x] \in P /\ (l.pred[x] = next \/ Before(R, next, l.pred[x]))
        BY <1>1, <1>2, <3>1, <4>1 DEF PrevIn
      <4> QED  BY <1>1, <1>2, <4>1, <4>2 DEF Ordered
    <3> QED  BY <1>1, <1>2, <1>5, <3>1, <3>2 DEF PrevIn
  <2> QED  BY <2>1, <2>2, <2>3
<1>11. \A x \in S \ P : k.pred[x] = l.pred[x] \/ l.pred[x] = after
  BY <1>1, <1>2, <1>4
<1>12. LastIn(k.last[part], P \cup {e}, R2)
  <2>1. k.last[part] = IF l.last[part] = after THEN e ELSE l.last[part]
    BY <1>1, <1>3, <1>4
  <2>2. l.last[part] \in P /\ l.last[part] # NULL /\ \A z \in P : z = l.last[part] \/ Before(R, z, l.last[part])
    BY <1>1, <1>2 DEF LastIn, part
  <2> QED  BY <1>1, <1>2, <1>5, <2>1, <2>2 DEF LastIn
<1> QED  BY <1>6, <1>7, <1>10, <1>11, <1>12 DEF part

\* GRID_LINKX puts a ghost behind the given ghost.
LEMMA LinkGhostXIs ==
  ASSUME NEW l, NEW G, NEW M, NEW R, ListIs(l, G, M, R), NEW e \in Elem, e \notin G \cup M,
         NEW after \in G, NEW prio \in Prios, Prio2ListPart(prio) = 0,
         NEW R2, InsertOf(R2, R, G \cup M, UpTo(after, G \cup M, R), e)
  PROVE  Result(GridLinkX(l, e, prio, after), l, G \cup {e}, M, R2, prio, 1)
<1> DEFINE k == GridLinkX(l, e, prio, after)
           S == G \cup M
<1>1. /\ l \in ListType /\ Ordered(S, R) /\ (\A x \in G, y \in M : Before(R, x, y)) /\ G \cap M = {}
      /\ G \subseteq S /\ M \subseteq S /\ e \notin S /\ S = G \cup M /\ S \subseteq Elem
      /\ \A x \in S : NextIn(l.succ[x], x, S, R)
      /\ \A x \in G : PrevIn(l.pred[x], x, G, R)
      /\ \A x \in M : PrevIn(l.pred[x], x, M, R)
      /\ FirstIn(l.first[0], G, R) /\ LastIn(l.last[0], G, R)
      /\ FirstIn(l.first[1], M, R) /\ LastIn(l.last[1], M, R)
      /\ after \in S /\ after \in Elem /\ NULL \notin S
  BY NoNull DEF ListIs
<1>2. \A x, y \in G, z \in S : Before(R, x, z) /\ Before(R, z, y) => z \in G
  BY <1>1 DEF Ordered
<1>3. InsertOf(R2, R, S, UpTo(after, S, R), e)
  OBVIOUS
<1>4. /\ LinkedX(k, l, e, prio, after)
      /\ k \in ListType /\ k.first = l.first /\ k.last[1] = l.last[1]
      /\ k.count = [l.count EXCEPT ![prio] = @ + 1]
  <2>1. l.succ[after] # e /\ e # after
    BY <1>1, NoNull DEF NextIn
  <2>2. LinkedX(k, l, e, prio, after)
    BY <1>1, <2>1, LinkXFields
  <2> QED  BY <2>2 DEF LinkedX, Prio2ListPart
<1> HIDE DEF S
<1>5. /\ Ordered(S \cup {e}, R2)
      /\ \A x \in S \cup {e} : NextIn(k.succ[x], x, S \cup {e}, R2)
      /\ \A x \in G \cup {e} : PrevIn(k.pred[x], x, G \cup {e}, R2)
      /\ \A x \in S \ G : k.pred[x] = l.pred[x] \/ l.pred[x] = after
      /\ LastIn(k.last[0], G \cup {e}, R2)
  <2>1. IsPart(G, Prio2ListPart(prio), l, S, R)
    BY <1>1, <1>2 DEF IsPart
  <2>2. LinkedX(k, l, e, prio, after) /\ after \in G /\ e \in Elem /\ e \notin S
    BY <1>1, <1>4
  <2>3. /\ Ordered(S \cup {e}, R2)
        /\ \A x \in S \cup {e} : NextIn(k.succ[x], x, S \cup {e}, R2)
        /\ \A x \in G \cup {e} : PrevIn(k.pred[x], x, G \cup {e}, R2)
        /\ \A x \in S \ G : k.pred[x] = l.pred[x] \/ l.pred[x] = after
        /\ LastIn(k.last[Prio2ListPart(prio)], G \cup {e}, R2)
    <3> HIDE DEF k
    <3> QED  BY ONLY <1>3, <2>1, <2>2, LinkXOrder
  <2> QED  BY <2>3
<1> HIDE DEF k
<1>6. /\ \A x, y \in S : Before(R2, x, y) <=> Before(R, x, y)
      /\ \A x \in S : Before(R2, x, e) <=> (x = after \/ Before(R, x, after))
      /\ \A x \in S : Before(R2, e, x) <=> Before(R, after, x)
  BY <1>1, <1>3 DEF InsertOf, UpTo, Ordered
<1>7. \A x \in M : PrevIn(k.pred[x], x, M, R2)
  <2> TAKE x \in M
  <2>1. k.pred[x] = l.pred[x]
    BY <1>1, <1>5 DEF PrevIn
  <2> QED  BY <1>1, <1>6, <2>1 DEF PrevIn
<1>8. \A x \in G \cup {e}, y \in M : Before(R2, x, y)
  BY <1>1, <1>6
<1>9. FirstIn(k.first[0], G \cup {e}, R2)
  BY <1>1, <1>4, <1>6 DEF FirstIn, Ordered
<1>10. FirstIn(k.first[1], M, R2) /\ LastIn(k.last[1], M, R2)
  BY <1>1, <1>4, <1>6 DEF FirstIn, LastIn
<1>11. (G \cup {e}) \cup M = S \cup {e} /\ G \cup {e} \subseteq Elem /\ M \subseteq Elem /\ (G \cup {e}) \cap M = {}
  BY <1>1
<1>12. ListIs(k, G \cup {e}, M, R2)
  BY <1>4, <1>5, <1>7, <1>8, <1>9, <1>10, <1>11 DEF ListIs
<1> QED  BY <1>4, <1>12 DEF k, Result

\* GRID_LINKX puts a master behind the given master.
LEMMA LinkMasterXIs ==
  ASSUME NEW l, NEW G, NEW M, NEW R, ListIs(l, G, M, R), NEW e \in Elem, e \notin G \cup M,
         NEW after \in M, NEW prio \in Prios, Prio2ListPart(prio) = 1,
         NEW R2, InsertOf(R2, R, G \cup M, UpTo(after, G \cup M, R), e)
  PROVE  Result(GridLinkX(l, e, prio, after), l, G, M \cup {e}, R2, prio, 1)
<1> DEFINE k == GridLinkX(l, e, prio, after)
           S == G \cup M
<1>1. /\ l \in ListType /\ Ordered(S, R) /\ (\A x \in G, y \in M : Before(R, x, y)) /\ G \cap M = {}
      /\ G \subseteq S /\ M \subseteq S /\ e \notin S /\ S = G \cup M /\ S \subseteq Elem
      /\ \A x \in S : NextIn(l.succ[x], x, S, R)
      /\ \A x \in G : PrevIn(l.pred[x], x, G, R)
      /\ \A x \in M : PrevIn(l.pred[x], x, M, R)
      /\ FirstIn(l.first[0], G, R) /\ LastIn(l.last[0], G, R)
      /\ FirstIn(l.first[1], M, R) /\ LastIn(l.last[1], M, R)
      /\ after \in S /\ after \in Elem /\ NULL \notin S
  BY NoNull DEF ListIs
<1>2. \A x, y \in M, z \in S : Before(R, x, z) /\ Before(R, z, y) => z \in M
  BY <1>1 DEF Ordered
<1>3. InsertOf(R2, R, S, UpTo(after, S, R), e)
  OBVIOUS
<1>4. /\ LinkedX(k, l, e, prio, after)
      /\ k \in ListType /\ k.first = l.first /\ k.last[0] = l.last[0]
      /\ k.count = [l.count EXCEPT ![prio] = @ + 1]
  <2>1. l.succ[after] # e /\ e # after
    BY <1>1, NoNull DEF NextIn
  <2>2. LinkedX(k, l, e, prio, after)
    BY <1>1, <2>1, LinkXFields
  <2> QED  BY <2>2 DEF LinkedX
<1> HIDE DEF S
<1>5. /\ Ordered(S \cup {e}, R2)
      /\ \A x \in S \cup {e} : NextIn(k.succ[x], x, S \cup {e}, R2)
      /\ \A x \in M \cup {e} : PrevIn(k.pred[x], x, M \cup {e}, R2)
      /\ \A x \in S \ M : k.pred[x] = l.pred[x] \/ l.pred[x] = after
      /\ LastIn(k.last[1], M \cup {e}, R2)
  <2>1. IsPart(M, Prio2ListPart(prio), l, S, R)
    BY <1>1, <1>2 DEF IsPart
  <2>2. LinkedX(k, l, e, prio, after) /\ after \in M /\ e \in Elem /\ e \notin S
    BY <1>1, <1>4
  <2>3. /\ Ordered(S \cup {e}, R2)
        /\ \A x \in S \cup {e} : NextIn(k.succ[x], x, S \cup {e}, R2)
        /\ \A x \in M \cup {e} : PrevIn(k.pred[x], x, M \cup {e}, R2)
        /\ \A x \in S \ M : k.pred[x] = l.pred[x] \/ l.pred[x] = after
        /\ LastIn(k.last[Prio2ListPart(prio)], M \cup {e}, R2)
    <3> HIDE DEF k
    <3> QED  BY ONLY <1>3, <2>1, <2>2, LinkXOrder
  <2> QED  BY <2>3
<1> HIDE DEF k
<1>6. /\ \A x, y \in S : Before(R2, x, y) <=> Before(R, x, y)
      /\ \A x \in S : Before(R2, x, e) <=> (x = after \/ Before(R, x, after))
      /\ \A x \in S : Before(R2, e, x) <=> Before(R, after, x)
  BY <1>1, <1>3 DEF InsertOf, UpTo, Ordered
<1>7. \A x \in G : PrevIn(k.pred[x], x, G, R2)
  <2> TAKE x \in G
  <2>1. k.pred[x] = l.pred[x]
    BY <1>1, <1>5 DEF PrevIn
  <2> QED  BY <1>1, <1>6, <2>1 DEF PrevIn
<1>8. \A x \in G, y \in M \cup {e} : Before(R2, x, y)
  BY <1>1, <1>6
<1>9. FirstIn(k.first[1], M \cup {e}, R2)
  BY <1>1, <1>4, <1>6 DEF FirstIn, Ordered
<1>10. FirstIn(k.first[0], G, R2) /\ LastIn(k.last[0], G, R2)
  BY <1>1, <1>4, <1>6 DEF FirstIn, LastIn
<1>11. G \cup (M \cup {e}) = S \cup {e} /\ M \cup {e} \subseteq Elem /\ G \subseteq Elem /\ G \cap (M \cup {e}) = {}
  BY <1>1
<1>12. ListIs(k, G, M \cup {e}, R2)
  BY <1>4, <1>5, <1>7, <1>8, <1>9, <1>10, <1>11 DEF ListIs
<1> QED  BY <1>4, <1>12 DEF k, Result

-----------------------------------------------------------------------------
(* The order and the positions in it: what SUCC leads to.                   *)

\* A set of numbers has a smallest member.
LEMMA Smallest ==
  ASSUME NEW S \in SUBSET Nat, S # {}
  PROVE  \E n \in S : \A m \in S : n <= m
<1> DEFINE Less == {pair \in Nat \X Nat : pair[1] < pair[2]}
<1>1. OpToRel(<, Nat) = Less
  BY DEF OpToRel
<1>2. IsWellFoundedOn(Less, Nat)
  BY <1>1, NatLessThanWellFounded
<1>3. PICK n \in S : \A m \in S : ~ (<<m, n>> \in Less)
  BY <1>2, WFMin
<1>4. \A m \in S : ~ (m < n)
  BY <1>3
<1> QED  BY <1>4

\* Nth satisfies its recursive definition.
LEMMA NthRec ==
  ASSUME NEW l, NEW x
  PROVE  /\ Nth(l, x)[0] = x
         /\ \A m \in 1 .. Cardinality(Elem) : Nth(l, x)[m] = IF Nth(l, x)[m - 1] = NULL THEN NULL ELSE l.succ[Nth(l, x)[m - 1]]
         /\ DOMAIN Nth(l, x) = 0 .. Cardinality(Elem)
<1> DEFINE N == Cardinality(Elem)
           Rec(f, k) == f = [m \in 0 .. k |-> IF m = 0 THEN x ELSE IF f[m - 1] = NULL THEN NULL ELSE l.succ[f[m - 1]]]
           Bad == {k \in 0 .. N : ~ \E f : Rec(f, k)}
<1>1. N \in Nat
  BY ElementsAssumption, FS_CardinalityType
<1> HIDE DEF N
<1>2. Bad = {}
  <2> SUFFICES ASSUME Bad # {}  PROVE FALSE
    OBVIOUS
  <2>1. PICK k \in Bad : \A m \in Bad : k <= m
    <3>1. Bad \in SUBSET Nat
      BY <1>1
    <3> HIDE DEF Bad
    <3> QED  BY <3>1, Smallest
  <2>2. CASE k = 0
    <3> DEFINE f == [m \in 0 .. 0 |-> x]
    <3>1. f = [m \in 0 .. 0 |-> IF m = 0 THEN x ELSE IF f[m - 1] = NULL THEN NULL ELSE l.succ[f[m - 1]]]
      OBVIOUS
    <3>2. Rec(f, k)
      BY <2>2, <3>1
    <3> HIDE DEF f, Rec
    <3> QED  BY <3>2, <2>1
  <2>3. CASE k # 0
    <3>1. k - 1 \in 0 .. N /\ ~(k - 1 \in Bad) /\ k \in Nat
      <4>1. Bad \subseteq 0 .. N
        OBVIOUS
      <4> HIDE DEF Bad, Rec
      <4>2. k \in 0 .. N
        BY <2>1, <4>1
      <4> QED  BY <1>1, <2>1, <2>3, <4>2
    <3>2. PICK g : Rec(g, k - 1)
      BY <3>1
    <3> DEFINE f == [m \in 0 .. k |-> IF m = k THEN IF g[k - 1] = NULL THEN NULL ELSE l.succ[g[k - 1]] ELSE g[m]]
    <3>3. \A m \in 0 .. (k - 1) : f[m] = g[m] /\ g[m] = IF m = 0 THEN x ELSE IF g[m - 1] = NULL THEN NULL ELSE l.succ[g[m - 1]]
      BY <3>1, <3>2
    <3>4. f[k] = IF f[k - 1] = NULL THEN NULL ELSE l.succ[f[k - 1]]
      <4>1. f[k] = IF g[k - 1] = NULL THEN NULL ELSE l.succ[g[k - 1]]
        BY <3>1
      <4>2. f[k - 1] = g[k - 1]
        BY <2>3, <3>1, <3>3
      <4> HIDE DEF f
      <4> QED  BY <4>1, <4>2
    <3>5. ASSUME NEW m \in 0 .. k  PROVE f[m] = IF m = 0 THEN x ELSE IF f[m - 1] = NULL THEN NULL ELSE l.succ[f[m - 1]]
      <4> HIDE DEF f
      <4>1. CASE m = k
        BY <4>1, <3>4, <2>3
      <4>2. CASE m # k
        <5>1. m \in 0 .. (k - 1) /\ (m # 0 => m - 1 \in 0 .. (k - 1))
          BY <3>1, <4>2
        <5> QED  BY <5>1, <3>3
      <4> QED  BY <4>1, <4>2
    <3>6. Rec(f, k)
      <4>1. f = [m \in 0 .. k |-> f[m]]
        OBVIOUS
      <4> HIDE DEF f
      <4> QED  BY <4>1, <3>5
    <3> HIDE DEF f, Rec
    <3> QED  BY <3>6, <2>1
  <2> QED  BY <2>2, <2>3
<1>3. \E f : Rec(f, N)
  BY <1>1, <1>2
<1> DEFINE T == CHOOSE f : Rec(f, N)
<1>4. Rec(T, N)
  <2> HIDE DEF Rec
  <2> QED  BY <1>3
<1>5. T = [m \in 0 .. N |-> IF m = 0 THEN x ELSE IF T[m - 1] = NULL THEN NULL ELSE l.succ[T[m - 1]]]
  BY <1>4
<1>6. Nth(l, x) = T
  BY DEF Nth, N
<1> HIDE DEF T
<1>7. DOMAIN T = 0 .. N /\ T[0] = x /\ \A m \in 1 .. N : T[m] = IF T[m - 1] = NULL THEN NULL ELSE l.succ[T[m - 1]]
  <2>1. DOMAIN T = 0 .. N
    BY <1>5
  <2>2. \A m \in 0 .. N : T[m] = IF m = 0 THEN x ELSE IF T[m - 1] = NULL THEN NULL ELSE l.succ[T[m - 1]]
    BY <1>5
  <2> QED  BY <1>1, <2>1, <2>2
<1> QED  BY <1>6, <1>7 DEF N

\* How many elements of S are before x.
Pos(x, S, R) == Cardinality({y \in S : Before(R, y, x)})

\* Sets of elements are finite.
LEMMA FiniteElems == ASSUME NEW S, S \subseteq Elem  PROVE IsFiniteSet(S) /\ Cardinality(S) \in Nat /\ Cardinality(S) <= Cardinality(Elem)
<1>1. IsFiniteSet(Elem)
  BY ElementsAssumption
<1> QED  BY <1>1, FS_Subset, FS_CardinalityType

\* Positions are numbers below the length of the list.
LEMMA PosIn ==
  ASSUME NEW S, NEW R, S \subseteq Elem, Ordered(S, R), NEW x \in S
  PROVE  Pos(x, S, R) \in Nat /\ Pos(x, S, R) < Cardinality(S)
<1> DEFINE B == {y \in S : Before(R, y, x)}
<1>1. B \subseteq S /\ x \notin B /\ IsFiniteSet(S) /\ B \subseteq Elem
  BY FiniteElems DEF Ordered
<1>2. Cardinality(B) \in Nat /\ Cardinality(B) <= Cardinality(S) /\ (Cardinality(B) = Cardinality(S) => B = S)
  BY <1>1, FS_Subset, FiniteElems
<1>3. B # S /\ Cardinality(S) \in Nat
  BY <1>1, FiniteElems
<1> QED  BY <1>2, <1>3 DEF Pos

\* Positions respect the order.
LEMMA PosBefore ==
  ASSUME NEW S, NEW R, S \subseteq Elem, Ordered(S, R), NEW x \in S, NEW y \in S, Before(R, x, y)
  PROVE  Pos(x, S, R) < Pos(y, S, R)
<1> DEFINE B == {z \in S : Before(R, z, x)}
           C == {z \in S : Before(R, z, y)}
<1>1. B \subseteq C /\ x \in C /\ x \notin B
  BY DEF Ordered
<1>2. IsFiniteSet(C) /\ Cardinality(C) \in Nat
  BY FiniteElems
<1>3. Cardinality(B) \in Nat /\ Cardinality(B) <= Cardinality(C) /\ (Cardinality(B) = Cardinality(C) => B = C)
  <2>1. B \subseteq Elem
    OBVIOUS
  <2> QED  BY <1>1, <1>2, <2>1, FS_Subset, FiniteElems
<1> QED  BY <1>1, <1>2, <1>3 DEF Pos

\* The position tells the element.
LEMMA PosTells ==
  ASSUME NEW S, NEW R, S \subseteq Elem, Ordered(S, R), NEW x \in S, NEW y \in S
  PROVE  /\ Pos(x, S, R) = Pos(y, S, R) => x = y
         /\ Pos(x, S, R) < Pos(y, S, R) => Before(R, x, y)
<1>1. Pos(x, S, R) \in Nat /\ Pos(y, S, R) \in Nat
  BY PosIn
<1>2. x = y \/ Before(R, x, y) \/ Before(R, y, x)
  BY DEF Ordered
<1> QED  BY <1>1, <1>2, PosBefore

\* The next element is one position further, or there is none behind the last.
LEMMA PosNext ==
  ASSUME NEW S, NEW R, S \subseteq Elem, Ordered(S, R), NEW x \in S, NEW y, NextIn(y, x, S, R)
  PROVE  Pos(x, S, R) + 1 = IF y = NULL THEN Cardinality(S) ELSE Pos(y, S, R)
<1> DEFINE B == {z \in S : Before(R, z, x)}
           C == {z \in S : Before(R, z, y)}
<1>1. IsFiniteSet(B) /\ x \notin B /\ Cardinality(B) \in Nat
  BY FiniteElems DEF Ordered
<1>2. Cardinality(B \cup {x}) = Cardinality(B) + 1
  BY <1>1, FS_AddElement
<1>3. CASE y = NULL
  <2>1. B \cup {x} = S
    BY <1>3 DEF NextIn, Ordered
  <2> QED  BY <1>2, <1>3, <2>1 DEF Pos
<1>4. CASE y # NULL
  <2>1. B \cup {x} = C
    <3>1. \A z \in C : z \in B \cup {x}
      BY <1>4 DEF NextIn, Ordered
    <3>2. \A z \in B \cup {x} : z \in C
      BY <1>4 DEF NextIn, Ordered
    <3> QED  BY <3>1, <3>2
  <2> QED  BY <1>2, <1>4, <2>1 DEF Pos
<1> QED  BY <1>3, <1>4

\* SUCC leads from x of position i to the elements of the positions after i.
LEMMA NthIs ==
  ASSUME NEW l, NEW S, NEW R, S \subseteq Elem, Ordered(S, R),
         \A y \in S : NextIn(l.succ[y], y, S, R), NEW x \in S,
         NEW n \in 0 .. Cardinality(Elem)
  PROVE  IF Pos(x, S, R) + n < Cardinality(S)
         THEN Nth(l, x)[n] \in S /\ Pos(Nth(l, x)[n], S, R) = Pos(x, S, R) + n
         ELSE Nth(l, x)[n] = NULL
<1> DEFINE N == Cardinality(Elem)
           T == Nth(l, x)
           i == Pos(x, S, R)
           c == Cardinality(S)
           Good(m) == IF i + m < c THEN T[m] \in S /\ Pos(T[m], S, R) = i + m ELSE T[m] = NULL
           Bad == {m \in 0 .. N : ~Good(m)}
<1>1. /\ T[0] = x
      /\ \A m \in 1 .. N : T[m] = IF T[m - 1] = NULL THEN NULL ELSE l.succ[T[m - 1]]
  BY NthRec
<1>2. N \in Nat /\ i \in Nat /\ i < c /\ c \in Nat /\ NULL \notin S
  BY PosIn, FiniteElems, NoNull
<1> HIDE DEF T, i, c, N
<1>3. Bad = {}
  <2> SUFFICES ASSUME Bad # {}  PROVE FALSE
    OBVIOUS
  <2>1. PICK m \in Bad : \A k \in Bad : m <= k
    <3>1. Bad \in SUBSET Nat
      BY <1>2
    <3> HIDE DEF Bad
    <3> QED  BY <3>1, Smallest
  <2>2. m # 0
    <3>1. Good(0)
      BY <1>1, <1>2 DEF i
    <3> QED  BY <2>1, <3>1
  <2>3. m - 1 \in 0 .. N /\ m \in 1 .. N /\ ~(m - 1 \in Bad) /\ m \in Nat
    BY <1>2, <2>1, <2>2
  <2>4. Good(m - 1)
    BY <2>3
  <2>5. CASE i + (m - 1) < c
    <3> DEFINE y == T[m - 1]
    <3>1. y \in S /\ Pos(y, S, R) = i + (m - 1) /\ NextIn(l.succ[y], y, S, R) /\ T[m] = l.succ[y]
      BY <1>1, <1>2, <2>3, <2>4, <2>5
    <3> HIDE DEF y
    <3>2. Pos(y, S, R) + 1 = IF T[m] = NULL THEN c ELSE Pos(T[m], S, R)
      BY <3>1, PosNext DEF c
    <3>3. T[m] # NULL => T[m] \in S
      BY <3>1 DEF NextIn
    <3>4. T[m] # NULL => Pos(T[m], S, R) < c
      BY <3>3, PosIn DEF c
    <3>5. Good(m)
      BY <1>2, <2>3, <3>1, <3>2, <3>3, <3>4
    <3> QED  BY <2>1, <3>5
  <2>6. CASE ~(i + (m - 1) < c)
    <3>1. T[m - 1] = NULL
      BY <2>4, <2>6
    <3>2. T[m] = NULL
      BY <1>1, <2>3, <3>1
    <3>3. Good(m)
      BY <1>2, <2>3, <2>6, <3>2
    <3> QED  BY <2>1, <3>3
  <2> QED  BY <2>5, <2>6
<1>4. Good(n)
  BY <1>3 DEF N
<1> QED  BY <1>4 DEF T, i, c

\* c are the elements of S from x on, in their order.
IsChain(c, x, S, R) ==
    LET m == Cardinality(S) - Pos(x, S, R)
    IN  /\ m \in Nat /\ m >= 1
        /\ c \in [1 .. m -> S]
        /\ Len(c) = m
        /\ \A k \in 1 .. m : Pos(c[k], S, R) = Pos(x, S, R) + k - 1

\* SUCC leads from an element to all the elements behind it, in their order.
LEMMA ChainIs ==
  ASSUME NEW l, NEW S, NEW R, S \subseteq Elem, Ordered(S, R),
         \A y \in S : NextIn(l.succ[y], y, S, R), NEW x \in S
  PROVE  IsChain(Chain(l, x), x, S, R)
<1> DEFINE N == Cardinality(Elem)
           T == Nth(l, x)
           i == Pos(x, S, R)
           c == Cardinality(S)
           m == c - i
           C == Chain(l, x)
<1>1. N \in Nat /\ c \in Nat /\ c <= N /\ i \in Nat /\ i < c /\ NULL \notin S
  BY PosIn, FiniteElems, NoNull
<1>2. \A n \in 0 .. N : IF i + n < c THEN T[n] \in S /\ Pos(T[n], S, R) = i + n ELSE T[n] = NULL
  BY NthIs
<1>3. DOMAIN T = 0 .. N
  BY NthRec
<1> HIDE DEF T, i, c, N
<1>4. {k \in DOMAIN T : T[k] # NULL} = 0 .. (m - 1)
  BY <1>1, <1>2, <1>3
<1>5. Cardinality(0 .. (m - 1)) = m
  BY <1>1, FS_Interval
<1>6. C = [n \in 1 .. m |-> T[n - 1]]
  <2>1. C = [n \in 1 .. Cardinality({k \in DOMAIN T : T[k] # NULL}) |-> T[n - 1]]
    BY DEF Chain, T
  <2> HIDE DEF C
  <2> QED  BY <2>1, <1>4, <1>5
<1> HIDE DEF C
<1>7. \A k \in 1 .. m : k - 1 \in 0 .. N /\ i + (k - 1) < c /\ C[k] = T[k - 1]
  BY <1>1, <1>6
<1>8. \A k \in 1 .. m : C[k] \in S /\ Pos(C[k], S, R) = i + k - 1
  BY <1>1, <1>2, <1>7
<1>9. m \in Nat /\ m >= 1
  BY <1>1
<1> HIDE DEF m
<1>10. C \in [1 .. m -> S]
  BY <1>6, <1>8
<1>11. Len(C) = m
  BY <1>6, <1>9
<1> QED  BY <1>8, <1>9, <1>10, <1>11 DEF C, m, i, c, IsChain

\* Nothing follows the null pointer.
LEMMA ChainOfNull ==
  ASSUME NEW l
  PROVE  Chain(l, NULL) = <<>>
<1> DEFINE T == Nth(l, NULL)
           N == Cardinality(Elem)
           Bad == {m \in 0 .. N : T[m] # NULL}
<1>1. /\ T[0] = NULL /\ DOMAIN T = 0 .. N
      /\ \A m \in 1 .. N : T[m] = IF T[m - 1] = NULL THEN NULL ELSE l.succ[T[m - 1]]
  BY NthRec
<1>2. N \in Nat
  BY FiniteElems
<1> HIDE DEF T, N
<1>3. Bad = {}
  <2> SUFFICES ASSUME Bad # {}  PROVE FALSE
    OBVIOUS
  <2>1. PICK m \in Bad : \A k \in Bad : m <= k
    <3>1. Bad \in SUBSET Nat
      BY <1>2
    <3> HIDE DEF Bad
    <3> QED  BY <3>1, Smallest
  <2>2. m # 0
    BY <1>1, <2>1
  <2>3. m - 1 \in 0 .. N /\ m \in 1 .. N /\ ~(m - 1 \in Bad)
    BY <1>2, <2>1, <2>2
  <2>4. T[m - 1] = NULL
    BY <2>3
  <2> QED  BY <1>1, <2>1, <2>3, <2>4
<1>4. {k \in DOMAIN T : T[k] # NULL} = {}
  BY <1>1, <1>3
<1>5. Chain(l, NULL) = [n \in 1 .. 0 |-> T[n - 1]]
  BY <1>4, FS_EmptySet DEF Chain, T
<1> QED  BY <1>5

\* The positions of the ghosts come before those of the masters.
LEMMA PosParts ==
  ASSUME NEW l, NEW G, NEW M, NEW R, ListIs(l, G, M, R)
  PROVE  /\ Cardinality(G \cup M) = Cardinality(G) + Cardinality(M)
         /\ \A x \in G : Pos(x, G \cup M, R) < Cardinality(G)
         /\ \A x \in M : Pos(x, G \cup M, R) >= Cardinality(G)
<1> DEFINE S == G \cup M
<1>1. /\ G \cap M = {} /\ S \subseteq Elem /\ G \subseteq Elem /\ M \subseteq Elem
      /\ Ordered(S, R) /\ (\A x \in G, y \in M : Before(R, x, y))
  BY DEF ListIs
<1>2. IsFiniteSet(G) /\ IsFiniteSet(M) /\ Cardinality(G) \in Nat /\ Cardinality(M) \in Nat
  BY <1>1, FiniteElems
<1>3. Cardinality(S) = Cardinality(G) + Cardinality(M)
  <2>1. Cardinality(G \cap M) = 0
    BY <1>1, FS_EmptySet
  <2>2. Cardinality(G \cup M) = Cardinality(G) + Cardinality(M) - Cardinality(G \cap M)
    BY <1>2, FS_Union
  <2> QED  BY <1>2, <2>1, <2>2
<1>4. ASSUME NEW x \in G PROVE Pos(x, S, R) < Cardinality(G)
  <2>1. {y \in S : Before(R, y, x)} = {y \in G : Before(R, y, x)}
    BY <1>1 DEF Ordered
  <2>2. Ordered(G, R)
    BY <1>1 DEF Ordered
  <2>3. Pos(x, G, R) < Cardinality(G)
    BY <1>1, <2>2, PosIn
  <2> QED  BY <2>1, <2>3 DEF Pos
<1>5. ASSUME NEW x \in M PROVE Pos(x, S, R) >= Cardinality(G)
  <2> DEFINE B == {y \in S : Before(R, y, x)}
  <2>1. G \subseteq B /\ B \subseteq Elem
    BY <1>1
  <2>2. IsFiniteSet(B) /\ Cardinality(B) \in Nat
    BY <2>1, FiniteElems
  <2>3. Cardinality(G) <= Cardinality(B)
    BY <2>1, <2>2, FS_Subset
  <2> QED  BY <1>2, <2>2, <2>3 DEF Pos
<1> QED  BY <1>3, <1>4, <1>5

\* Where the ends of the parts are.
EndsAt(l, G, M, R) ==
    /\ G # {} => Pos(l.first[0], G \cup M, R) = 0
    /\ M # {} => Pos(l.first[1], G \cup M, R) = Cardinality(G)
    /\ G # {} => Pos(l.last[0], G \cup M, R) = Cardinality(G) - 1
    /\ M # {} => Pos(l.last[1], G \cup M, R) = Cardinality(G \cup M) - 1

\* The ends of the parts are at the first and last positions of the parts.
LEMMA PosEnds ==
  ASSUME NEW l, NEW G, NEW M, NEW R, ListIs(l, G, M, R)
  PROVE  EndsAt(l, G, M, R)
<1> DEFINE S == G \cup M
<1>1. /\ G \cap M = {} /\ S \subseteq Elem /\ G \subseteq Elem /\ M \subseteq Elem
      /\ Ordered(S, R) /\ (\A x \in G, y \in M : Before(R, x, y))
      /\ FirstIn(l.first[0], G, R) /\ LastIn(l.last[0], G, R)
      /\ FirstIn(l.first[1], M, R) /\ LastIn(l.last[1], M, R)
  BY DEF ListIs
<1>2. IsFiniteSet(G) /\ IsFiniteSet(S) /\ Cardinality(G) \in Nat /\ Cardinality(S) \in Nat
  BY <1>1, FiniteElems
<1>3. ASSUME G # {}  PROVE Pos(l.first[0], S, R) = 0
  <2>1. {y \in S : Before(R, y, l.first[0])} = {}
    BY <1>1, <1>3 DEF FirstIn, Ordered
  <2> QED  BY <2>1, FS_EmptySet DEF Pos
<1>4. ASSUME M # {}  PROVE Pos(l.first[1], S, R) = Cardinality(G)
  <2>1. {y \in S : Before(R, y, l.first[1])} = G
    BY <1>1, <1>4 DEF FirstIn, Ordered
  <2> QED  BY <2>1 DEF Pos
<1>5. ASSUME G # {}  PROVE Pos(l.last[0], S, R) = Cardinality(G) - 1
  <2>1. {y \in S : Before(R, y, l.last[0])} = G \ {l.last[0]} /\ l.last[0] \in G
    BY <1>1, <1>5 DEF LastIn, Ordered
  <2> QED  BY <1>2, <2>1, FS_RemoveElement DEF Pos
<1>6. ASSUME M # {}  PROVE Pos(l.last[1], S, R) = Cardinality(S) - 1
  <2>1. {y \in S : Before(R, y, l.last[1])} = S \ {l.last[1]} /\ l.last[1] \in S
    BY <1>1, <1>6 DEF LastIn, Ordered
  <2> HIDE DEF S
  <2>2. Cardinality(S \ {l.last[1]}) = Cardinality(S) - 1
    BY <1>2, <2>1, FS_RemoveElement
  <2> QED  BY <2>1, <2>2 DEF Pos
<1> QED  BY <1>3, <1>4, <1>5, <1>6 DEF EndsAt

InPart(i) == {e \in Linked : Prio2ListPart(grid.prio[e]) = i}

CountsAre(count, prio, S) == \A p \in Prios : count[p] = Cardinality({e \in S : prio[e] = p})

\* The list that ListsInv describes.
LEMMA ListIsInv ==
  ASSUME NEW R, ListIs(grid.list, InPart(0), InPart(1), R), Linked \subseteq Elem,
         \A e \in Linked : Prio2ListPart(grid.prio[e]) \in 0 .. 1,
         CountsAre(grid.list.count, grid.prio, Linked)
  PROVE  ListsInv
<1> DEFINE l == grid.list
           G == InPart(0)
           M == InPart(1)
           S == G \cup M
           start == IF l.first[0] = NULL THEN l.first[1] ELSE l.first[0]
           all == Chain(l, start)
           g == Cardinality(G)
           n == Cardinality(Linked)
<1>1. S = Linked
  BY DEF InPart
<1>2. /\ ListIs(l, G, M, R) /\ Ordered(S, R) /\ S \subseteq Elem /\ G \cap M = {} /\ S = G \cup M
      /\ \A y \in S : NextIn(l.succ[y], y, S, R)
      /\ FirstIn(l.first[0], G, R) /\ LastIn(l.last[0], G, R)
      /\ FirstIn(l.first[1], M, R) /\ LastIn(l.last[1], M, R)
      /\ \A x \in G : PrevIn(l.pred[x], x, G, R)
      /\ \A x \in M : PrevIn(l.pred[x], x, M, R)
      /\ \A x \in G, y \in M : Before(R, x, y)
      /\ G \subseteq Elem /\ M \subseteq Elem /\ NULL \notin S
  BY NoNull DEF ListIs
<1>3. /\ n = g + Cardinality(M) /\ g \in Nat /\ n \in Nat /\ Cardinality(M) \in Nat
      /\ \A x \in G : Pos(x, S, R) \in Nat /\ Pos(x, S, R) < g
      /\ \A x \in M : Pos(x, S, R) \in Nat /\ Pos(x, S, R) >= g /\ Pos(x, S, R) < n
  <2>1. n = g + Cardinality(M) /\ (\A x \in G : Pos(x, S, R) < g) /\ \A x \in M : Pos(x, S, R) >= g
    BY <1>1, <1>2, PosParts
  <2>2. \A x \in S : Pos(x, S, R) \in Nat /\ Pos(x, S, R) < n
    BY <1>1, <1>2, PosIn
  <2>3. g \in Nat /\ n \in Nat /\ Cardinality(M) \in Nat
    BY <1>1, <1>2, FiniteElems
  <2> QED  BY <1>2, <2>1, <2>2, <2>3
<1>4. /\ G = {} <=> g = 0
      /\ M = {} <=> g = n
  <2>1. IsFiniteSet(G) /\ IsFiniteSet(M)
    BY <1>2, FiniteElems
  <2>2. (G = {} <=> g = 0) /\ (M = {} <=> Cardinality(M) = 0)
    BY <2>1, FS_EmptySet
  <2> QED  BY <1>3, <2>2
<1>5. /\ G # {} => Pos(l.first[0], S, R) = 0 /\ Pos(l.last[0], S, R) = g - 1
      /\ M # {} => Pos(l.first[1], S, R) = g /\ Pos(l.last[1], S, R) = n - 1
  <2>1. ListIs(l, G, M, R)
    BY <1>2
  <2>2. g = Cardinality(G) /\ n = Cardinality(G \cup M)
    BY <1>1
  <2> HIDE DEF l, G, M, g, n
  <2>3. EndsAt(l, G, M, R)
    BY <2>1, PosEnds
  <2> QED  BY <2>2, <2>3 DEF EndsAt
<1> HIDE DEF S, G, M
<1>6. S = G \cup M /\ S \subseteq Elem /\ Ordered(S, R) /\ NULL \notin S /\ n = Cardinality(S)
  BY <1>1, <1>2
<1>7. FirstIn(l.first[0], G, R) /\ FirstIn(l.first[1], M, R)
  BY <1>2
<1>8. /\ Len(all) = n
      /\ \A k \in 1 .. n : all[k] \in S /\ Pos(all[k], S, R) = k - 1
  <2>1. CASE S = {}
    <3>1. start = NULL /\ n = 0
      BY <1>1, <1>2, <2>1, FS_EmptySet DEF FirstIn
    <3>2. all = <<>>
      BY <3>1, ChainOfNull
    <3> QED  BY <3>1, <3>2
  <2>2. CASE S # {}
    <3>1. start \in S /\ Pos(start, S, R) = 0
      <4>1. CASE G # {}
        BY <1>5, <1>6, <1>7, <4>1 DEF FirstIn
      <4>2. CASE G = {}
        BY <1>4, <1>5, <1>6, <1>7, <2>2, <4>2 DEF FirstIn
      <4> QED  BY <4>1, <4>2
    <3> HIDE DEF start
    <3>2. /\ Len(all) = n - 0 /\ all \in [1 .. (n - 0) -> S]
          /\ \A k \in 1 .. (n - 0) : Pos(all[k], S, R) = 0 + k - 1
      <4>1. IsChain(all, start, S, R)
        BY <1>2, <3>1, ChainIs
      <4> QED  BY <1>6, <3>1, <4>1 DEF IsChain
    <3> QED  BY <1>3, <3>2
  <2> QED  BY <2>1, <2>2
<1> HIDE DEF all, start, g, n
<1>9. ASSUME NEW k \in 1 .. n, NEW x \in S, Pos(x, S, R) = k - 1  PROVE all[k] = x
  BY <1>2, <1>8, <1>9, PosTells
<1>10. ASSUME NEW e \in G  PROVE \E k \in 1 .. g : all[k] = e
  <2>1. Pos(e, S, R) + 1 \in 1 .. g /\ Pos(e, S, R) + 1 \in 1 .. n /\ e \in S
    <3>1. Pos(e, S, R) \in Nat /\ Pos(e, S, R) < g /\ g <= n
      BY <1>3
    <3> QED  BY <1>3, <1>6, <3>1
  <2>2. all[Pos(e, S, R) + 1] = e
    <3>1. Pos(e, S, R) = (Pos(e, S, R) + 1) - 1
      BY <1>3
    <3> QED  BY <2>1, <3>1, <1>9
  <2> QED  BY <2>1, <2>2
<1>11. ASSUME NEW e \in M  PROVE \E k \in (g + 1) .. n : all[k] = e
  <2>1. Pos(e, S, R) + 1 \in (g + 1) .. n /\ Pos(e, S, R) + 1 \in 1 .. n /\ e \in S
    <3>1. Pos(e, S, R) \in Nat /\ Pos(e, S, R) >= g /\ Pos(e, S, R) < n
      BY <1>3
    <3> QED  BY <1>3, <1>6, <3>1
  <2>2. all[Pos(e, S, R) + 1] = e
    <3>1. Pos(e, S, R) = (Pos(e, S, R) + 1) - 1
      BY <1>3
    <3> QED  BY <2>1, <3>1, <1>9
  <2> QED  BY <2>1, <2>2
<1>12. /\ G # {} => l.first[0] \in G /\ l.last[0] \in G /\ Pos(l.first[0], S, R) = 0 /\ Pos(l.last[0], S, R) = g - 1
       /\ M # {} => l.first[1] \in M /\ l.last[1] \in M /\ Pos(l.first[1], S, R) = g /\ Pos(l.last[1], S, R) = n - 1
       /\ G = {} => l.first[0] = NULL /\ l.last[0] = NULL
       /\ M = {} => l.first[1] = NULL /\ l.last[1] = NULL
  <2>1. /\ G # {} => Pos(l.first[0], S, R) = 0 /\ Pos(l.last[0], S, R) = g - 1
        /\ M # {} => Pos(l.first[1], S, R) = g /\ Pos(l.last[1], S, R) = n - 1
    BY <1>5 DEF g, n
  <2> QED  BY <1>2, <2>1 DEF FirstIn, LastIn
<1>13. /\ l.first[0] = (IF g = 0 THEN NULL ELSE all[1])
       /\ l.first[1] = (IF g = n THEN NULL ELSE all[g + 1])
       /\ l.last[0] = (IF g = 0 THEN NULL ELSE all[g])
       /\ l.last[1] = (IF g = n THEN NULL ELSE all[n])
  <2>1. g # 0 => 1 \in 1 .. n /\ g \in 1 .. n
    BY <1>3
  <2>2. g # n => n \in 1 .. n /\ g + 1 \in 1 .. n
    BY <1>3
  <2>3. ASSUME g # 0  PROVE l.first[0] = all[1] /\ l.last[0] = all[g]
    BY <1>4, <1>6, <1>9, <1>12, <2>1, <2>3
  <2>4. ASSUME g # n  PROVE l.first[1] = all[g + 1] /\ l.last[1] = all[n]
    <3>1. Pos(l.first[1], S, R) = (g + 1) - 1 /\ l.first[1] \in S /\ l.last[1] \in S /\ Pos(l.last[1], S, R) = n - 1
      BY <1>3, <1>4, <1>6, <1>12, <2>4
    <3> QED  BY <1>9, <2>2, <2>4, <3>1
  <2> QED  BY <1>4, <1>12, <2>3, <2>4
<1>14. ASSUME NEW k \in 1 .. n  PROVE l.pred[all[k]] = IF k \in {1, g + 1} THEN NULL ELSE all[k - 1]
  <2> DEFINE x == all[k]
             p == l.pred[x]
  <2>1. x \in S /\ Pos(x, S, R) = k - 1
    BY <1>8
  <2> HIDE DEF x
  <2>2. (p # NULL /\ p \in S /\ NextIn(x, p, S, R)) => k - 1 \in 1 .. n /\ p = all[k - 1]
    <3> SUFFICES ASSUME p # NULL, p \in S, NextIn(x, p, S, R)  PROVE k - 1 \in 1 .. n /\ p = all[k - 1]
      OBVIOUS
    <3> HIDE DEF p
    <3>1. Pos(p, S, R) + 1 = Pos(x, S, R)
      BY <1>2, <2>1, PosNext
    <3>2. Pos(p, S, R) \in Nat /\ Pos(p, S, R) < n
      BY <1>1, <1>2, PosIn DEF n
    <3>3. k - 1 \in 1 .. n /\ Pos(p, S, R) = (k - 1) - 1
      BY <1>3, <2>1, <3>1, <3>2
    <3> QED  BY <3>3, <1>9
  <2>3. CASE x \in G
    <3>1. PrevIn(p, x, G, R) /\ k <= g
      <4>1. PrevIn(p, x, G, R)
        BY <1>2, <2>3
      <4>2. Pos(x, S, R) \in Nat /\ Pos(x, S, R) < g
        BY <1>3, <2>3
      <4> QED  BY <1>3, <2>1, <4>1, <4>2
    <3>2. p # NULL => p \in S /\ NextIn(x, p, S, R)
      BY <1>2, <2>3, <3>1 DEF PrevIn, NextIn, Ordered
    <3>3. p = NULL => k = 1
      <4> SUFFICES ASSUME p = NULL  PROVE k = 1
        OBVIOUS
      <4>1. {y \in S : Before(R, y, x)} = {}
        BY <1>2, <2>3, <3>1 DEF PrevIn, Ordered
      <4>2. Pos(x, S, R) = 0
        BY <4>1, FS_EmptySet DEF Pos
      <4> QED  BY <2>1, <4>2
    <3> HIDE DEF p
    <3>4. p # NULL => k # 1
      BY <2>2, <3>2, <1>3
    <3>5. p = IF k \in {1, g + 1} THEN NULL ELSE all[k - 1]
      BY <1>3, <2>2, <3>1, <3>2, <3>3, <3>4
    <3> QED  BY <3>5 DEF p, x
  <2>4. CASE x \in M
    <3>1. PrevIn(p, x, M, R) /\ k >= g + 1
      BY <1>2, <1>3, <2>1, <2>4
    <3>2. p # NULL => p \in M /\ p \in S /\ NextIn(x, p, S, R)
      BY <1>2, <2>4, <3>1 DEF PrevIn, NextIn, Ordered
    <3>3. p = NULL => k = g + 1
      <4> SUFFICES ASSUME p = NULL  PROVE k = g + 1
        OBVIOUS
      <4>1. {y \in S : Before(R, y, x)} = G
        BY <1>2, <2>4, <3>1 DEF PrevIn, Ordered
      <4>2. Pos(x, S, R) = g
        BY <4>1 DEF Pos, g
      <4> QED  BY <1>3, <2>1, <4>2
    <3> HIDE DEF p
    <3>4. p # NULL => k # g + 1
      <4> SUFFICES ASSUME p # NULL  PROVE k # g + 1
        OBVIOUS
      <4>1. Pos(p, S, R) >= g /\ Pos(p, S, R) \in Nat /\ Pos(p, S, R) < Pos(x, S, R)
        <5>1. Before(R, p, x) /\ p \in S /\ p \in M
          BY <1>6, <3>2, <2>1 DEF NextIn
        <5> QED  BY <1>2, <1>3, <2>1, <5>1, PosBefore
      <4> QED  BY <1>3, <2>1, <4>1
    <3>5. p = IF k \in {1, g + 1} THEN NULL ELSE all[k - 1]
      BY <1>3, <2>2, <3>1, <3>2, <3>3, <3>4
    <3> QED  BY <3>5 DEF p, x
  <2> QED  BY <1>2, <2>1, <2>3, <2>4
<1>15. /\ Len(all) = n
       /\ \A e \in G : \E k \in 1 .. g : all[k] = e
       /\ \A e \in M : \E k \in (g + 1) .. n : all[k] = e
       /\ \A k \in 1 .. n : l.pred[all[k]] = IF k \in {1, g + 1} THEN NULL ELSE all[k - 1]
       /\ \A p \in Prios : l.count[p] = Cardinality({e \in Linked : grid.prio[e] = p})
  BY <1>8, <1>10, <1>11, <1>14 DEF CountsAre
<1> QED  BY <1>13, <1>15 DEF ListsInv, G, M, InPart, all, start, g, n

-----------------------------------------------------------------------------
(* The families.                                                            *)

\* SON leads to a son.
SonInv(u, S) ==
    \A f \in Father, i \in 0 .. 1 :
        u.son[f][i] # NULL => u.son[f][i] \in S /\ Belongs(u, u.son[f][i], f, i)

\* From SON to x there are only sons.
Attached(u, x, S, R) ==
    LET f == u.efather[x]
        i == Prio2Index(u.prio[x])
        s == u.son[f][i]
    IN  \/ s = x
        \/ s # NULL /\ Before(R, s, x) /\ \A y \in S : Before(R, s, y) /\ Before(R, y, x) => Belongs(u, y, f, i)

\* The handlers for the elements of P have still to run.
Family(u, S, R, P) ==
    /\ SonInv(u, S)
    /\ \A x \in S \ P : u.efather[x] # NULL => Attached(u, x, S, R)

SonType == [Father -> [0 .. 1 -> Object]]

\* u and v have the same elements in S.
SameOn(S, u, v) == \A x \in S : v.efather[x] = u.efather[x] /\ v.prio[x] = u.prio[x]

\* There are two lists of sons.
LEMMA IndexIs == ASSUME NEW p  PROVE Prio2Index(p) \in 0 .. 1
BY DEF Prio2Index

\* The families do not miss an element without father.
LEMMA DetachOrphan ==
  ASSUME NEW u, NEW v, NEW S, NEW R, NEW P, S \subseteq Elem, NEW e \in S,
         u.efather \in [Elem -> Father \cup {NULL}], u.efather[e] = NULL,
         Family(u, S, R, P), SameOn(S \ {e}, u, v), v.son = u.son
  PROVE  Family(v, S \ {e}, R, P)
<1>1. \A x \in S \ {e} : v.efather[x] = u.efather[x] /\ v.prio[x] = u.prio[x]
  BY DEF SameOn
<1>2. SonInv(v, S \ {e})
  BY <1>1, NoNull DEF Family, SonInv, Belongs
<1>3. ASSUME NEW x \in (S \ {e}) \ P, v.efather[x] # NULL  PROVE Attached(v, x, S \ {e}, R)
  <2> DEFINE f == u.efather[x]
             i == Prio2Index(u.prio[x])
  <2>1. Attached(u, x, S, R) /\ f \in Father /\ v.efather[x] = f /\ v.prio[x] = u.prio[x] /\ i \in 0 .. 1
    BY <1>1, <1>3, IndexIs DEF Family
  <2> QED  BY <1>1, <1>2, <2>1 DEF Attached, Belongs, SonInv
<1> QED  BY <1>2, <1>3 DEF Family

\* SonWithout keeps the sons of a father behind SON when one of them is
\* unlinked (handler.cc, ugm.cc).
LEMMA Detach ==
  ASSUME NEW u, NEW v, NEW S, NEW R, NEW P, S \subseteq Elem, NEW e \in S, Ordered(S, R),
         u.efather \in [Elem -> Father \cup {NULL}], u.efather[e] # NULL, u.son \in SonType,
         NextIn(u.list.succ[e], e, S, R),
         Family(u, S, R, P), SameOn(S \ {e}, u, v), v.son = SonWithout(u, e)
  PROVE  Family(v, S \ {e}, R, P) /\ v.son \in SonType
<1> DEFINE T == S \ {e}
           f0 == u.efather[e]
           i0 == Prio2Index(u.prio[e])
           s0 == u.list.succ[e]
           next == IF s0 # NULL /\ Belongs(u, s0, f0, i0) THEN s0 ELSE NULL
<1>1. \A x \in T : v.efather[x] = u.efather[x] /\ v.prio[x] = u.prio[x]
  BY DEF SameOn
<1>2. f0 \in Father /\ i0 \in 0 .. 1 /\ e # NULL /\ NULL \notin S
  BY IndexIs, NoNull
<1>3. s0 # NULL => s0 \in T /\ Before(R, e, s0) /\ \A z \in S : Before(R, e, z) => z = s0 \/ Before(R, s0, z)
  BY DEF NextIn, Ordered
<1>4. s0 = NULL => \A z \in S : ~Before(R, e, z)
  BY DEF NextIn
<1>5. next \in Object
  BY <1>3 DEF Object
<1>6. /\ v.son \in SonType
      /\ \A f \in Father, i \in 0 .. 1 :
            v.son[f][i] = IF f = f0 /\ i = i0 /\ u.son[f][i] = e THEN next ELSE u.son[f][i]
  <2>1. v.son = IF u.son[f0][i0] # e THEN u.son ELSE [u.son EXCEPT ![f0][i0] = next]
    BY DEF SonWithout
  <2> HIDE DEF f0, i0, next
  <2> QED  BY <1>2, <1>5, <2>1 DEF SonType
<1>7. \A f \in Father, i \in 0 .. 1 : u.son[f][i] # NULL => u.son[f][i] \in S /\ Belongs(u, u.son[f][i], f, i)
  BY DEF Family, SonInv
<1>8. \A f \in Father, i \in 0 .. 1 : u.son[f][i] = e => f = f0 /\ i = i0
  BY <1>2, <1>7 DEF Belongs
<1> HIDE DEF T
<1>9. SonInv(v, T)
  <2> SUFFICES ASSUME NEW f \in Father, NEW i \in 0 .. 1, v.son[f][i] # NULL
               PROVE  v.son[f][i] \in T /\ Belongs(v, v.son[f][i], f, i)
    BY DEF SonInv
  <2>1. CASE u.son[f][i] = e
    <3>1. f = f0 /\ i = i0 /\ v.son[f][i] = next
      BY <1>6, <1>8, <2>1
    <3>2. v.son[f][i] = s0 /\ s0 # NULL /\ Belongs(u, s0, f, i)
      BY <3>1
    <3> QED  BY <1>1, <1>3, <3>2 DEF Belongs
  <2>2. CASE u.son[f][i] # e
    <3>1. v.son[f][i] = u.son[f][i]
      BY <1>6, <2>2
    <3>2. v.son[f][i] \in T /\ Belongs(u, v.son[f][i], f, i)
      BY <1>7, <2>2, <3>1 DEF T
    <3> QED  BY <1>1, <3>2 DEF Belongs
  <2> QED  BY <2>1, <2>2
<1>10. ASSUME NEW x \in T \ P, v.efather[x] # NULL  PROVE Attached(v, x, T, R)
  <2> DEFINE f == u.efather[x]
             i == Prio2Index(u.prio[x])
             s == u.son[f][i]
  <2>1. Attached(u, x, S, R) /\ f \in Father /\ v.efather[x] = f /\ v.prio[x] = u.prio[x] /\ i \in 0 .. 1 /\ x \in S /\ x # e
    BY <1>1, <1>10, IndexIs DEF Family, T
  <2>2. s = x \/ (s # NULL /\ Before(R, s, x) /\ \A y \in S : Before(R, s, y) /\ Before(R, y, x) => Belongs(u, y, f, i))
    BY <2>1 DEF Attached
  <2>3. s # NULL /\ s \in S
    BY <1>2, <1>7, <2>1, <2>2
  <2> HIDE DEF s, f, i
  <2>4. CASE s # e
    <3>1. v.son[f][i] = s
      BY <1>6, <2>1, <2>4 DEF s
    <3>2. \A y \in T : Belongs(u, y, f, i) => Belongs(v, y, f, i)
      BY <1>1 DEF Belongs
    <3> QED  BY <2>1, <2>2, <2>3, <3>1, <3>2 DEF Attached, i, T
  <2>5. CASE s = e
    <3>1. f = f0 /\ i = i0 /\ v.son[f][i] = next
      BY <1>6, <1>8, <2>1, <2>5 DEF s
    <3>2. Before(R, e, x) /\ \A y \in S : Before(R, e, y) /\ Before(R, y, x) => Belongs(u, y, f, i)
      BY <2>1, <2>2, <2>5
    <3>3. s0 # NULL /\ s0 \in S /\ s0 \in T /\ Before(R, e, s0) /\ (x = s0 \/ Before(R, s0, x))
      BY <1>3, <1>4, <2>1, <3>2 DEF T
    <3>4. Belongs(u, s0, f, i)
      BY <2>1, <3>2, <3>3 DEF Belongs, f, i
    <3>5. v.son[f][i] = s0
      BY <3>1, <3>3, <3>4
    <3>6. \A y \in T : Before(R, s0, y) /\ Before(R, y, x) => Belongs(v, y, f, i)
      BY <1>1, <3>2, <3>3 DEF Belongs, T, Ordered
    <3> QED  BY <2>1, <3>3, <3>5, <3>6 DEF Attached, i
  <2> QED  BY <2>4, <2>5
<1> QED  BY <1>6, <1>9, <1>10 DEF Family, T

\* An element that joins a family has SON before it, or becomes SON; one without
\* father comes to an end of the list.
Joins(u, v, S, R, e, f, i, A) ==
    /\ v.efather[e] = f /\ Prio2Index(v.prio[e]) = i
    /\ IF f = NULL THEN v.son = u.son /\ A \in {{}, S}
       ELSE IF u.son[f][i] = NULL THEN v.son = [u.son EXCEPT ![f][i] = e] /\ A \in {{}, S}
       ELSE v.son = u.son /\ A = UpTo(u.son[f][i], S, R)

\* An element that is linked behind SON, or becomes SON itself, is one of the
\* sons behind SON (handler.cc, ugm.cc).
LEMMA Attach ==
  ASSUME NEW u, NEW v, NEW S, NEW R, NEW P, NEW e \in Elem, e \notin S, S \subseteq Elem, Ordered(S, R),
         u.efather \in [Elem -> Father \cup {NULL}], u.son \in SonType,
         Family(u, S, R, P), SameOn(S, u, v),
         NEW f0 \in Father \cup {NULL}, NEW i0 \in 0 .. 1,
         NEW A, NEW R2, InsertOf(R2, R, S, A, e), Joins(u, v, S, R, e, f0, i0, A)
  PROVE  Family(v, S \cup {e}, R2, P \ {e}) /\ v.son \in SonType
<1> USE DEF Joins
<1> DEFINE T == S \cup {e}
           new == f0 # NULL /\ u.son[f0][i0] = NULL
<1>1. \A x \in S : v.efather[x] = u.efather[x] /\ v.prio[x] = u.prio[x] /\ x # e
  BY DEF SameOn
<1>2. e # NULL /\ NULL \notin S /\ (f0 # NULL => f0 \in Father)
  BY NoNull
<1>3. /\ v.son \in SonType
      /\ \A f \in Father, i \in 0 .. 1 :
            v.son[f][i] = IF new /\ f = f0 /\ i = i0 THEN e ELSE u.son[f][i]
  <2>1. v.son = IF new THEN [u.son EXCEPT ![f0][i0] = e] ELSE u.son
    OBVIOUS
  <2>2. CASE new
    BY <1>2, <2>1, <2>2 DEF SonType, Object
  <2>3. CASE ~new
    BY <2>1, <2>3, NoNull
  <2> QED  BY <2>2, <2>3
<1>4. \A f \in Father, i \in 0 .. 1 : u.son[f][i] # NULL => u.son[f][i] \in S /\ Belongs(u, u.son[f][i], f, i)
  BY DEF Family, SonInv
<1>5. \A y \in S : \A f, i : Belongs(u, y, f, i) <=> Belongs(v, y, f, i)
  BY <1>1 DEF Belongs
<1>6. f0 # NULL => Belongs(v, e, f0, i0)
  BY DEF Belongs
<1>7. /\ \A x, y \in S : Before(R2, x, y) <=> Before(R, x, y)
      /\ \A x \in S : (Before(R2, x, e) <=> x \in A) /\ (Before(R2, e, x) <=> x \notin A)
  BY DEF InsertOf
<1>8. SonInv(v, T)
  <2> SUFFICES ASSUME NEW f \in Father, NEW i \in 0 .. 1, v.son[f][i] # NULL
               PROVE  v.son[f][i] \in T /\ Belongs(v, v.son[f][i], f, i)
    BY DEF SonInv
  <2>1. CASE new /\ f = f0 /\ i = i0
    BY <1>3, <1>6, <2>1
  <2>2. CASE ~(new /\ f = f0 /\ i = i0)
    BY <1>3, <1>4, <1>5, <2>2
  <2> QED  BY <2>1, <2>2
<1>9. ASSUME f0 # NULL  PROVE Attached(v, e, T, R2)
  <2> DEFINE s == u.son[f0][i0]
  <2>1. CASE s = NULL
    <3>1. v.son[f0][i0] = e
      BY <1>2, <1>3, <1>9, <2>1
    <3> QED  BY <3>1 DEF Attached
  <2>2. CASE s # NULL
    <3>1. v.son[f0][i0] = s /\ s \in S /\ A = UpTo(s, S, R)
      BY <1>2, <1>3, <1>4, <1>9, <2>2
    <3>2. Before(R2, s, e)
      BY <1>7, <3>1 DEF UpTo
    <3>3. \A y \in T : ~(Before(R2, s, y) /\ Before(R2, y, e))
      BY <1>7, <3>1 DEF UpTo, Ordered, InsertOf
    <3> QED  BY <2>2, <3>1, <3>2, <3>3 DEF Attached
  <2> QED  BY <2>1, <2>2
<1>10. ASSUME NEW x \in S, x \notin P, v.efather[x] # NULL  PROVE Attached(v, x, T, R2)
  <2> DEFINE f == u.efather[x]
             i == Prio2Index(u.prio[x])
             s == u.son[f][i]
  <2>1. Attached(u, x, S, R) /\ f \in Father /\ v.efather[x] = f /\ v.prio[x] = u.prio[x] /\ i \in 0 .. 1
    BY <1>1, <1>10, IndexIs DEF Family
  <2>2. s = x \/ (s # NULL /\ Before(R, s, x) /\ \A y \in S : Before(R, s, y) /\ Before(R, y, x) => Belongs(u, y, f, i))
    BY <2>1 DEF Attached
  <2>3. s # NULL /\ s \in S
    BY <1>2, <1>4, <2>1, <2>2
  <2>4. v.son[f][i] = s
    BY <1>3, <2>1, <2>3
  <2>5. Belongs(u, x, f, i)
    BY DEF Belongs
  <2> HIDE DEF s, f, i
  <2>6. CASE s = x
    BY <2>1, <2>4, <2>6 DEF Attached, i
  <2>7. CASE s # x
    <3>1. Before(R2, s, x)
      BY <1>7, <2>2, <2>3, <2>7
    <3>2. ASSUME NEW y \in S, Before(R2, s, y), Before(R2, y, x)  PROVE Belongs(v, y, f, i)
      BY <1>5, <1>7, <2>2, <2>3, <2>7, <3>2
    <3>3. ASSUME Before(R2, s, e), Before(R2, e, x)  PROVE Belongs(v, e, f, i)
      <4>1. s \in A /\ x \notin A
        BY <1>7, <2>3, <3>3
      <4>2. f0 # NULL /\ u.son[f0][i0] # NULL /\ A = UpTo(u.son[f0][i0], S, R)
        BY <4>1, <2>3
      <4> DEFINE after == u.son[f0][i0]
      <4>3. after \in S /\ Belongs(u, after, f0, i0)
        BY <1>2, <1>4, <4>2
      <4>4. (s = after \/ Before(R, s, after)) /\ ~(x = after \/ Before(R, x, after))
        BY <4>1, <4>2 DEF UpTo
      <4>5. Before(R, after, x)
        BY <4>3, <4>4 DEF Ordered
      <4>6. Belongs(u, after, f, i)
        BY <1>4, <2>1, <2>2, <2>3, <2>7, <4>3, <4>4, <4>5 DEF s
      <4>7. f = f0 /\ i = i0
        BY <4>3, <4>6 DEF Belongs
      <4> QED  BY <1>6, <4>2, <4>7
    <3> QED  BY <2>1, <2>3, <2>4, <3>1, <3>2, <3>3 DEF Attached, i
  <2> QED  BY <2>6, <2>7
<1> QED  BY <1>3, <1>8, <1>9, <1>10 DEF Family

\* RunFrom returns the sons at the beginning of a chain.
LEMMA RunFromIs ==
  ASSUME NEW u, NEW x, NEW f, NEW i, NEW S, NEW m \in Nat,
         Chain(u.list, x) \in [1 .. m -> S], Len(Chain(u.list, x)) = m
  PROVE  \E r \in 0 .. m :
            /\ RunFrom(u, x, f, i) = [k \in 1 .. r |-> Chain(u.list, x)[k]]
            /\ \A k \in 1 .. r : Belongs(u, Chain(u.list, x)[k], f, i)
            /\ r < m => ~Belongs(u, Chain(u.list, x)[r + 1], f, i)
<1> DEFINE c == Chain(u.list, x)
           others == {n \in DOMAIN c : ~Belongs(u, c[n], f, i)}
           r == IF others = {} THEN Len(c) ELSE Min(others) - 1
<1>1. RunFrom(u, x, f, i) = SubSeq(c, 1, r)
  BY DEF RunFrom
<1>2. DOMAIN c = 1 .. m /\ Len(c) = m /\ others \subseteq 1 .. m
  OBVIOUS
<1> HIDE DEF c
<1>3. /\ r \in 0 .. m
      /\ \A k \in 1 .. r : Belongs(u, c[k], f, i)
      /\ r < m => ~Belongs(u, c[r + 1], f, i)
  <2>1. CASE others = {}
    BY <1>2, <2>1
  <2>2. CASE others # {}
    <3>1. Min(others) \in others /\ \A n \in others : Min(others) <= n
      <4>1. others \in SUBSET Nat
        BY <1>2
      <4> HIDE DEF others
      <4>2. \E n \in others : \A k \in others : n <= k
        BY <2>2, <4>1, Smallest
      <4> QED  BY <4>2 DEF Min
    <3>2. Min(others) \in 1 .. m /\ r = Min(others) - 1
      BY <1>2, <2>2, <3>1
    <3>3. \A k \in 1 .. r : k \in 1 .. m /\ ~(k \in others)
      <4> HIDE DEF others, r
      <4> TAKE k \in 1 .. r
      <4>1. k \in 1 .. m /\ k < Min(others)
        BY <3>2
      <4> QED  BY <3>1, <3>2, <4>1
    <3>4. r + 1 = Min(others)
      BY <3>2
    <3> QED  BY <1>2, <3>1, <3>2, <3>3, <3>4
  <2> QED  BY <2>1, <2>2
<1> HIDE DEF r
<1>4. SubSeq(c, 1, r) = [k \in 1 .. r |-> c[k]]
  BY <1>2, <1>3
<1> QED  BY <1>1, <1>3, <1>4 DEF c

\* No sons follow the null pointer.
LEMMA RunFromNull ==
  ASSUME NEW u, NEW f, NEW i
  PROVE  RunFrom(u, NULL, f, i) = <<>>
<1> DEFINE c == Chain(u.list, NULL)
           others == {n \in DOMAIN c : ~Belongs(u, c[n], f, i)}
<1>1. c = <<>>
  BY ChainOfNull
<1>2. others = {} /\ Len(c) = 0
  BY <1>1
<1>3. RunFrom(u, NULL, f, i) = SubSeq(c, 1, IF others = {} THEN Len(c) ELSE Min(others) - 1)
  BY DEF RunFrom
<1> HIDE DEF c, others
<1> QED  BY <1>1, <1>2, <1>3

\* q are the elements found from SON of f and i, in their order.
IsRun(q, u, f, i, S, R) ==
    /\ q \in Seq(S)
    /\ \A k \in 1 .. Len(q) : Belongs(u, q[k], f, i) /\ Attached(u, q[k], S, R)
    /\ \A j, k \in 1 .. Len(q) : j < k => Before(R, q[j], q[k])
    /\ \A x \in S : Belongs(u, x, f, i) /\ Attached(u, x, S, R) => \E k \in 1 .. Len(q) : q[k] = x

\* SonsAt returns SON and the sons that follow it without a gap.
LEMMA SonsAtIs ==
  ASSUME NEW u, NEW S, NEW R, S \subseteq Elem, Ordered(S, R),
         \A y \in S : NextIn(u.list.succ[y], y, S, R), SonInv(u, S),
         NEW f \in Father, NEW i \in 0 .. 1
  PROVE  IsRun(SonsAt(u, f, i), u, f, i, S, R)
<1> DEFINE son == u.son[f][i]
           next == u.list.succ[son]
           c == Chain(u.list, next)
           run == RunFrom(u, next, f, i)
           n == Cardinality(S)
<1>1. NULL \notin S /\ n \in Nat
  BY NoNull, FiniteElems
<1>2. CASE son = NULL
  <2>1. SonsAt(u, f, i) = <<>>
    BY <1>2 DEF SonsAt
  <2>2. \A x \in S : ~(Belongs(u, x, f, i) /\ Attached(u, x, S, R))
    BY <1>1, <1>2 DEF Belongs, Attached
  <2> QED  BY <2>1, <2>2 DEF IsRun
<1>3. CASE son # NULL
  <2>1. son \in S /\ Belongs(u, son, f, i) /\ Prio2Index(u.prio[son]) = i
    BY <1>3 DEF SonInv, Belongs
  <2>2. SonsAt(u, f, i) = <<son>> \o run
    BY <1>3, <2>1 DEF SonsAt
  <2>3. Pos(son, S, R) \in Nat /\ Pos(son, S, R) < n
    BY <2>1, PosIn
  <2> DEFINE p0 == Pos(son, S, R)
  <2>4. \E r \in Nat : /\ run \in [1 .. r -> S]
                       /\ \A k \in 1 .. r : Belongs(u, run[k], f, i) /\ Pos(run[k], S, R) = p0 + k
                       /\ \A x \in S : Pos(x, S, R) = p0 + r + 1 => ~Belongs(u, x, f, i)
    <3>1. CASE next = NULL
      <4>1. run = <<>>
        BY <3>1, RunFromNull
      <4>2. p0 + 1 = n
        BY <2>1, <3>1, PosNext
      <4>3. \A x \in S : Pos(x, S, R) < n
        BY PosIn
      <4> HIDE DEF run, p0, n
      <4>4. run \in [1 .. 0 -> S]
        BY <4>1
      <4>5. \A x \in S : Pos(x, S, R) # p0 + 0 + 1
        BY <1>1, <2>3, <4>2, <4>3, PosIn DEF p0
      <4>6. \A k \in 1 .. 0 : Belongs(u, run[k], f, i) /\ Pos(run[k], S, R) = p0 + k
        OBVIOUS
      <4>7. 0 \in Nat
        OBVIOUS
      <4> QED  BY <4>4, <4>5, <4>6, <4>7
    <3>2. CASE next # NULL
      <4>1. next \in S
        BY <2>1, <3>2 DEF NextIn
      <4>2. p0 + 1 = Pos(next, S, R)
        BY <2>1, <3>2, PosNext
      <4> DEFINE m == n - Pos(next, S, R)
      <4>3. /\ m \in Nat /\ c \in [1 .. m -> S] /\ Len(c) = m
            /\ \A k \in 1 .. m : Pos(c[k], S, R) = Pos(next, S, R) + k - 1
        <5>1. IsChain(c, next, S, R)
          BY <4>1, ChainIs
        <5> QED  BY <5>1 DEF IsChain
      <4> HIDE DEF m
      <4>4. PICK r \in 0 .. m : /\ run = [k \in 1 .. r |-> c[k]]
                                /\ \A k \in 1 .. r : Belongs(u, c[k], f, i)
                                /\ r < m => ~Belongs(u, c[r + 1], f, i)
        BY <4>3, RunFromIs
      <4>5. r \in Nat
        BY <4>3
      <4> HIDE DEF run, c, p0, n, next, son
      <4>6. run \in [1 .. r -> S] /\ \A k \in 1 .. r : run[k] = c[k] /\ k \in 1 .. m
        <5>1. \A k \in 1 .. r : k \in 1 .. m
          BY <4>3
        <5>2. \A k \in 1 .. r : c[k] \in S
          BY <4>3, <5>1
        <5>3. run = [k \in 1 .. r |-> c[k]]
          BY <4>4
        <5> QED  BY <5>1, <5>2, <5>3
      <4>7. \A k \in 1 .. r : Belongs(u, run[k], f, i) /\ Pos(run[k], S, R) = p0 + k
        BY <2>3, <4>2, <4>3, <4>4, <4>6 DEF p0
      <4>8. ASSUME NEW x \in S, Pos(x, S, R) = p0 + r + 1  PROVE ~Belongs(u, x, f, i)
        <5>1. Pos(x, S, R) < n
          BY PosIn DEF n
        <5>2. r < m
          BY <1>1, <2>3, <4>2, <4>3, <4>5, <4>8, <5>1 DEF p0, m
        <5>3. r + 1 \in 1 .. m /\ c[r + 1] \in S /\ Pos(c[r + 1], S, R) = Pos(x, S, R)
          BY <2>3, <4>2, <4>3, <4>5, <4>8, <5>2 DEF p0
        <5>4. c[r + 1] = x
          BY <5>3, PosTells
        <5> QED  BY <4>4, <5>2, <5>4
      <4> QED  BY <4>5, <4>6, <4>7, <4>8
    <3> QED  BY <3>1, <3>2
  <2>5. PICK r \in Nat : /\ run \in [1 .. r -> S]
                         /\ \A k \in 1 .. r : Belongs(u, run[k], f, i) /\ Pos(run[k], S, R) = p0 + k
                         /\ \A x \in S : Pos(x, S, R) = p0 + r + 1 => ~Belongs(u, x, f, i)
    BY <2>4
  <2> DEFINE q == SonsAt(u, f, i)
  <2> HIDE DEF run, p0, next, son
  <2>6. /\ q \in Seq(S) /\ Len(q) = r + 1
        /\ q[1] = son /\ \A k \in 2 .. (r + 1) : k - 1 \in 1 .. r /\ q[k] = run[k - 1]
    BY <2>1, <2>2, <2>5
  <2> HIDE DEF q
  <2>7. \A k \in 1 .. (r + 1) : q[k] \in S /\ Belongs(u, q[k], f, i) /\ Pos(q[k], S, R) = p0 + k - 1
    <3> TAKE k \in 1 .. (r + 1)
    <3>1. CASE k = 1
      BY <2>1, <2>3, <2>6, <3>1 DEF p0
    <3>2. CASE k # 1
      <4>1. k \in 2 .. (r + 1)
        BY <2>5, <3>2
      <4> QED  BY <2>3, <2>5, <2>6, <4>1 DEF p0
    <3> QED  BY <3>1, <3>2
  <2>8. \A j, k \in 1 .. (r + 1) : j < k => Before(R, q[j], q[k])
    <3> TAKE j, k \in 1 .. (r + 1)
    <3>1. j < k => Pos(q[j], S, R) < Pos(q[k], S, R)
      BY <2>3, <2>7 DEF p0
    <3> QED  BY <2>7, <3>1, PosTells
  <2>9. ASSUME NEW x \in S, Pos(x, S, R) >= p0, Pos(x, S, R) <= p0 + r
        PROVE  \E k \in 1 .. (r + 1) : q[k] = x
    <3>1. Pos(x, S, R) \in Nat
      BY PosIn
    <3> DEFINE k == Pos(x, S, R) - p0 + 1
    <3>2. k \in 1 .. (r + 1) /\ p0 + k - 1 = Pos(x, S, R)
      BY <2>3, <2>5, <2>9, <3>1 DEF p0
    <3> HIDE DEF k
    <3>3. q[k] = x
      BY <2>7, <3>2, PosTells
    <3> QED  BY <3>2, <3>3
  <2>10. ASSUME NEW k \in 1 .. (r + 1)  PROVE Attached(u, q[k], S, R)
    <3>1. u.efather[q[k]] = f /\ Prio2Index(u.prio[q[k]]) = i /\ q[k] \in S
      BY <2>7 DEF Belongs
    <3>2. CASE k = 1
      BY <2>6, <3>1, <3>2 DEF Attached, son
    <3>3. CASE k # 1
      <4>1. Before(R, son, q[k])
        BY <2>5, <2>6, <2>8, <3>3
      <4>2. ASSUME NEW y \in S, Before(R, son, y), Before(R, y, q[k])  PROVE Belongs(u, y, f, i)
        <5>1. Pos(y, S, R) \in Nat /\ p0 < Pos(y, S, R) /\ Pos(y, S, R) < Pos(q[k], S, R)
          BY <2>1, <3>1, <4>2, PosBefore, PosIn DEF p0
        <5>2. Pos(y, S, R) <= p0 + r
          BY <2>3, <2>5, <2>7, <5>1 DEF p0
        <5>3. PICK j \in 1 .. (r + 1) : q[j] = y
          BY <2>3, <2>9, <5>1, <5>2 DEF p0
        <5> QED  BY <2>7, <5>3
      <4> QED  BY <1>3, <3>1, <4>1, <4>2 DEF Attached, son
    <3> QED  BY <3>2, <3>3
  <2>11. ASSUME NEW x \in S, Belongs(u, x, f, i), Attached(u, x, S, R)
         PROVE  \E k \in 1 .. (r + 1) : q[k] = x
    <3>1. \/ son = x
          \/ Before(R, son, x) /\ \A y \in S : Before(R, son, y) /\ Before(R, y, x) => Belongs(u, y, f, i)
      BY <2>11 DEF Attached, Belongs, son
    <3>2. Pos(x, S, R) \in Nat /\ Pos(x, S, R) >= p0
      BY <2>1, <2>3, <3>1, PosBefore, PosIn DEF p0
    <3>3. Pos(x, S, R) <= p0 + r
      <4> SUFFICES ASSUME Pos(x, S, R) > p0 + r  PROVE FALSE
        BY <2>3, <2>5, <3>2 DEF p0
      <4>1. \E y \in S : Pos(y, S, R) = p0 + r + 1
        <5>1. Pos(x, S, R) < n
          BY PosIn
        <5>2. CASE next = NULL
          <6>1. p0 + 1 = n
            BY <2>1, <5>2, PosNext DEF p0, next
          <6> QED  BY <1>1, <2>3, <2>5, <3>2, <5>1, <6>1 DEF p0
        <5>3. CASE next # NULL
          <6>1. next \in S /\ p0 + 1 = Pos(next, S, R)
            BY <2>1, <5>3, PosNext DEF p0, next, NextIn
          <6>2. IsChain(c, next, S, R)
            BY <6>1, ChainIs
          <6> HIDE DEF c, n
          <6>3. r + 1 \in 1 .. (n - Pos(next, S, R))
            BY <1>1, <2>3, <2>5, <3>2, <5>1, <6>1 DEF p0
          <6>4. c[r + 1] \in S /\ Pos(c[r + 1], S, R) = p0 + r + 1
            BY <2>3, <2>5, <6>1, <6>2, <6>3 DEF IsChain, n, p0
          <6> QED  BY <6>4
        <5> QED  BY <5>2, <5>3
      <4>2. PICK y \in S : Pos(y, S, R) = p0 + r + 1
        BY <4>1
      <4>3. ~Belongs(u, y, f, i)
        BY <2>5, <4>2
      <4>4. Before(R, son, y)
        BY <2>1, <2>3, <2>5, <4>2, PosTells DEF p0
      <4>5. y = x \/ Before(R, y, x)
        BY <2>3, <2>5, <3>2, <4>2, PosTells DEF p0
      <4>6. son # x
        BY <2>3, <2>5 DEF p0
      <4> QED  BY <2>11, <3>1, <4>3, <4>4, <4>5, <4>6
    <3> QED  BY <2>9, <3>2, <3>3
  <2>12. IsRun(q, u, f, i, S, R)
    BY <2>6, <2>7, <2>8, <2>10, <2>11 DEF IsRun
  <2> QED  BY <2>12 DEF q
<1> QED  BY <1>2, <1>3

-----------------------------------------------------------------------------
(* The grid: its list, the counters and the families together.              *)

\* The grid of the model as a record.
GridType ==
    [list    : ListType,
     prio    : [Elem -> Prios \cup {NoPrio}],
     efather : [Elem -> Father \cup {NULL}],
     fprio   : [Father -> Prios \cup {NoPrio}],
     son     : SonType,
     nsons   : [Father -> Int]]

\* The elements of S that belong to part i of the list.
PartOf(u, S, i) == {e \in S : Prio2ListPart(u.prio[e]) = i}

\* The elements of S are those in the list.
Listed(u, S, R) ==
    /\ u.list \in ListType /\ S \subseteq Elem
    /\ \A e \in S : u.prio[e] \in Prios
    /\ ListIs(u.list, PartOf(u, S, 0), PartOf(u, S, 1), R)
    /\ CountsAre(u.list.count, u.prio, S)

\* Masters are in the second part of the list and in the first list of sons.
LEMMA PartIs == ASSUME NEW p  PROVE Prio2ListPart(p) \in 0 .. 1 /\ (Prio2ListPart(p) = 1 <=> Prio2Index(p) = 0)
BY DEF Prio2ListPart, Prio2Index

\* A level has one order of its ghosts and masters together.
LEMMA ListedIs ==
  ASSUME NEW u, NEW S, NEW R, Listed(u, S, R)
  PROVE  /\ PartOf(u, S, 0) \cup PartOf(u, S, 1) = S
         /\ Ordered(S, R) /\ S \subseteq Elem
         /\ \A x \in S : NextIn(u.list.succ[x], x, S, R)
<1>1. PartOf(u, S, 0) \cup PartOf(u, S, 1) = S
  BY PartIs DEF PartOf
<1>2. ListIs(u.list, PartOf(u, S, 0), PartOf(u, S, 1), R)
  BY DEF Listed
<1>3. Ordered(S, R) /\ \A x \in S : NextIn(u.list.succ[x], x, S, R)
  BY <1>1, <1>2 DEF ListIs
<1> QED  BY <1>1, <1>3 DEF Listed

\* Unlinking one element leaves the list of the others.
LEMMA Unlinked ==
  ASSUME NEW u, NEW v, NEW S, NEW R, Listed(u, S, R), NEW e \in S, SameOn(S \ {e}, u, v),
         v.list = GridUnlink(u.list, e, u.prio[e])
  PROVE  Listed(v, S \ {e}, R)
<1> DEFINE T == S \ {e}
           p == u.prio[e]
           G == PartOf(u, S, 0)
           M == PartOf(u, S, 1)
<1>1. /\ u.list \in ListType /\ S \subseteq Elem /\ p \in Prios
      /\ ListIs(u.list, G, M, R) /\ CountsAre(u.list.count, u.prio, S)
  BY DEF Listed
<1>2. \A x \in T : v.prio[x] = u.prio[x]
  BY DEF SameOn
<1>3. v.list.count = [u.list.count EXCEPT ![p] = @ + (-1)] /\ ListIs(v.list, PartOf(v, T, 0), PartOf(v, T, 1), R)
  <2>1. CASE Prio2ListPart(p) = 0
    <3>1. e \in G /\ PartOf(v, T, 0) = G \ {e} /\ PartOf(v, T, 1) = M
      BY <1>2, <2>1 DEF PartOf
    <3> HIDE DEF G, M, p
    <3>2. Result(GridUnlink(u.list, e, p), u.list, G \ {e}, M, R, p, -1)
      BY <1>1, <2>1, <3>1, UnlinkGhostIs
    <3> QED  BY <3>1, <3>2 DEF p, Result
  <2>2. CASE Prio2ListPart(p) = 1
    <3>1. e \in M /\ PartOf(v, T, 0) = G /\ PartOf(v, T, 1) = M \ {e}
      BY <1>2, <2>2 DEF PartOf
    <3> HIDE DEF G, M, p
    <3>2. Result(GridUnlink(u.list, e, p), u.list, G, M \ {e}, R, p, -1)
      BY <1>1, <2>2, <3>1, UnlinkMasterIs
    <3> QED  BY <3>1, <3>2 DEF p, Result
  <2> QED  BY <2>1, <2>2, PartIs
<1>4. CountsAre(v.list.count, v.prio, T)
  <2> SUFFICES ASSUME NEW q \in Prios  PROVE v.list.count[q] = Cardinality({x \in T : v.prio[x] = q})
    BY DEF CountsAre
  <2> DEFINE A == {x \in S : u.prio[x] = q}
  <2>1. u.list.count[q] = Cardinality(A) /\ IsFiniteSet(A) /\ u.list.count \in [Prios -> Int]
    BY <1>1, FiniteElems DEF CountsAre, ListType
  <2>2. {x \in T : v.prio[x] = q} = A \ {e}
    BY <1>2
  <2>3. CASE q = p
    <3>1. e \in A
      BY <2>3
    <3> HIDE DEF A
    <3>2. Cardinality(A \ {e}) = Cardinality(A) - 1
      BY <2>1, <3>1, FS_RemoveElement
    <3> QED  BY <1>1, <1>3, <2>1, <2>2, <2>3, <3>2
  <2>4. CASE q # p
    <3>1. A \ {e} = A
      BY <2>4
    <3> HIDE DEF A
    <3> QED  BY <1>1, <1>3, <2>1, <2>2, <2>4, <3>1
  <2> QED  BY <2>3, <2>4
<1>5. v.list \in ListType
  BY <1>3 DEF ListIs
<1>6. T \subseteq Elem /\ \A x \in T : v.prio[x] \in Prios
  BY <1>2 DEF Listed
<1> QED  BY <1>3, <1>4, <1>5, <1>6 DEF Listed

\* Link e at the end for its priority, or behind an element of the same index.
LEMMA LinkedIs ==
  ASSUME NEW u, NEW v, NEW S, NEW R, Listed(u, S, R), NEW e \in Elem, e \notin S, SameOn(S, u, v),
         v.prio[e] \in Prios, NEW after, NEW A, NEW R2, InsertOf(R2, R, S, A, e),
         IF after = NULL THEN A = IF Prio2ListPart(v.prio[e]) = 0 THEN {} ELSE S
         ELSE after \in S /\ Prio2Index(v.prio[e]) = Prio2Index(u.prio[after]) /\ A = UpTo(after, S, R),
         v.list = GridLinkX(u.list, e, v.prio[e], after)
  PROVE  Listed(v, S \cup {e}, R2)
<1> DEFINE T == S \cup {e}
           p == v.prio[e]
           G == PartOf(u, S, 0)
           M == PartOf(u, S, 1)
<1>1. /\ u.list \in ListType /\ S \subseteq Elem /\ p \in Prios
      /\ ListIs(u.list, G, M, R) /\ CountsAre(u.list.count, u.prio, S) /\ G \cup M = S /\ e \notin G \cup M /\ e \in Elem
  BY ListedIs DEF Listed
<1>2. \A x \in S : v.prio[x] = u.prio[x] /\ x # e
  BY DEF SameOn
<1>3. v.list.count = [u.list.count EXCEPT ![p] = @ + 1] /\ ListIs(v.list, PartOf(v, T, 0), PartOf(v, T, 1), R2)
  <2>1. CASE Prio2ListPart(p) = 0
    <3>1. PartOf(v, T, 0) = G \cup {e} /\ PartOf(v, T, 1) = M
      BY <1>2, <2>1 DEF PartOf
    <3>2. CASE after = NULL
      <4>1. v.list = GridLink(u.list, e, p) /\ A = {}
        BY <2>1, <3>2 DEF GridLinkX
      <4>2. InsertOf(R2, R, G \cup M, {}, e)
        BY <1>1, <4>1
      <4> HIDE DEF G, M, p
      <4>3. Result(GridLink(u.list, e, p), u.list, G \cup {e}, M, R2, p, 1)
        BY <1>1, <2>1, <4>2, LinkGhostIs
      <4> QED  BY <3>1, <4>1, <4>3 DEF p, Result
    <3>3. CASE after # NULL
      <4>1. Prio2ListPart(u.prio[after]) = 0 /\ after \in S
        BY <2>1, <3>3, PartIs
      <4>2. after \in G
        BY <4>1 DEF PartOf
      <4>3. InsertOf(R2, R, G \cup M, UpTo(after, G \cup M, R), e)
        BY <1>1, <3>3
      <4> HIDE DEF G, M, p
      <4>4. Result(GridLinkX(u.list, e, p, after), u.list, G \cup {e}, M, R2, p, 1)
        BY <1>1, <2>1, <4>2, <4>3, LinkGhostXIs
      <4> QED  BY <3>1, <4>4 DEF p, Result
    <3> QED  BY <3>2, <3>3
  <2>2. CASE Prio2ListPart(p) = 1
    <3>1. PartOf(v, T, 0) = G /\ PartOf(v, T, 1) = M \cup {e}
      BY <1>2, <2>2 DEF PartOf
    <3>2. CASE after = NULL
      <4>1. v.list = GridLink(u.list, e, p) /\ A = S
        BY <2>2, <3>2 DEF GridLinkX
      <4>2. InsertOf(R2, R, G \cup M, G \cup M, e)
        BY <1>1, <4>1
      <4> HIDE DEF G, M, p
      <4>3. Result(GridLink(u.list, e, p), u.list, G, M \cup {e}, R2, p, 1)
        BY <1>1, <2>2, <4>2, LinkMasterIs
      <4> QED  BY <3>1, <4>1, <4>3 DEF p, Result
    <3>3. CASE after # NULL
      <4>1. Prio2ListPart(u.prio[after]) = 1 /\ after \in S
        BY <2>2, <3>3, PartIs
      <4>2. after \in M
        BY <4>1 DEF PartOf
      <4>3. InsertOf(R2, R, G \cup M, UpTo(after, G \cup M, R), e)
        BY <1>1, <3>3
      <4> HIDE DEF G, M, p
      <4>4. Result(GridLinkX(u.list, e, p, after), u.list, G, M \cup {e}, R2, p, 1)
        BY <1>1, <2>2, <4>2, <4>3, LinkMasterXIs
      <4> QED  BY <3>1, <4>4 DEF p, Result
    <3> QED  BY <3>2, <3>3
  <2> QED  BY <2>1, <2>2, PartIs
<1>4. CountsAre(v.list.count, v.prio, T)
  <2> SUFFICES ASSUME NEW q \in Prios  PROVE v.list.count[q] = Cardinality({x \in T : v.prio[x] = q})
    BY DEF CountsAre
  <2> DEFINE A0 == {x \in S : u.prio[x] = q}
  <2>1. /\ u.list.count[q] = Cardinality(A0) /\ IsFiniteSet(A0) /\ u.list.count \in [Prios -> Int] /\ e \notin A0
    BY <1>1, FiniteElems DEF CountsAre, ListType
  <2>2. CASE q = p
    <3>1. {x \in T : v.prio[x] = q} = A0 \cup {e}
      BY <1>2, <2>2
    <3> HIDE DEF A0
    <3>2. Cardinality(A0 \cup {e}) = Cardinality(A0) + 1
      BY <2>1, FS_AddElement
    <3> QED  BY <1>1, <1>3, <2>1, <2>2, <3>1, <3>2
  <2>3. CASE q # p
    <3>1. {x \in T : v.prio[x] = q} = A0
      BY <1>2, <2>3
    <3> HIDE DEF A0
    <3> QED  BY <1>1, <1>3, <2>1, <2>3, <3>1
  <2> QED  BY <2>2, <2>3
<1>5. v.list \in ListType
  BY <1>3 DEF ListIs
<1>6. T \subseteq Elem /\ \A x \in T : v.prio[x] \in Prios
  BY <1>2 DEF Listed
<1> QED  BY <1>3, <1>4, <1>5, <1>6 DEF Listed

\* The list and the families; the handlers for the elements of P have still to run.
Level(u, S, R, P) ==
    /\ Listed(u, S, R) /\ Family(u, S, R, P)
    /\ u.efather \in [Elem -> Father \cup {NULL}] /\ u.son \in SonType

\* An element is taken from the list and from its father.
LEMMA Detached ==
  ASSUME NEW u, NEW v, NEW S, NEW R, NEW P, Level(u, S, R, P), NEW e \in S, SameOn(S \ {e}, u, v),
         v.efather \in [Elem -> Father \cup {NULL}],
         v.list = GridUnlink(u.list, e, u.prio[e]),
         v.son = IF u.efather[e] = NULL THEN u.son ELSE SonWithout(u, e)
  PROVE  Level(v, S \ {e}, R, P)
<1>1. /\ Listed(u, S, R) /\ Family(u, S, R, P) /\ Ordered(S, R) /\ S \subseteq Elem
      /\ NextIn(u.list.succ[e], e, S, R)
      /\ u.efather \in [Elem -> Father \cup {NULL}] /\ u.son \in SonType
  BY ListedIs DEF Level
<1>2. Listed(v, S \ {e}, R)
  BY <1>1, Unlinked
<1>3. Family(v, S \ {e}, R, P) /\ v.son \in SonType
  <2>1. CASE u.efather[e] = NULL
    BY <1>1, <2>1, DetachOrphan
  <2>2. CASE u.efather[e] # NULL
    BY <1>1, <2>2, Detach
  <2> QED  BY <2>1, <2>2
<1> QED  BY <1>2, <1>3 DEF Level

\* e is linked behind SON of its father, or at the end for its priority.
JoinsList(v, u, e) ==
    LET f == v.efather[e]
        i == Prio2Index(v.prio[e])
        after == IF f = NULL THEN NULL ELSE u.son[f][i]
    IN  /\ v.list = GridLinkX(u.list, e, v.prio[e], after)
        /\ v.son = IF f # NULL /\ after = NULL THEN [u.son EXCEPT ![f][i] = e] ELSE u.son

\* An element enters the list behind its father's SON, or as SON.
LEMMA Joined ==
  ASSUME NEW u, NEW v, NEW S, NEW R, NEW P, Level(u, S, R, P), NEW e \in Elem, e \notin S, SameOn(S, u, v),
         v.efather \in [Elem -> Father \cup {NULL}], v.prio[e] \in Prios,
         JoinsList(v, u, e)
  PROVE  \E R2 : Level(v, S \cup {e}, R2, P \ {e})
<1> USE DEF JoinsList
<1> DEFINE f == v.efather[e]
           i == Prio2Index(v.prio[e])
           after == IF f = NULL THEN NULL ELSE u.son[f][i]
           A == IF after = NULL THEN IF Prio2ListPart(v.prio[e]) = 0 THEN {} ELSE S
                ELSE UpTo(after, S, R)
<1>1. /\ Listed(u, S, R) /\ Family(u, S, R, P) /\ Ordered(S, R) /\ S \subseteq Elem
      /\ u.efather \in [Elem -> Father \cup {NULL}] /\ u.son \in SonType
  BY ListedIs DEF Level
<1>2. PICK R2 : InsertOf(R2, R, S, A, e)
  BY InsertExists
<1>3. f \in Father \cup {NULL} /\ i \in 0 .. 1
  BY IndexIs
<1>4. after # NULL => after \in S /\ Prio2Index(v.prio[e]) = Prio2Index(u.prio[after])
  BY <1>1, <1>3 DEF Family, SonInv, Belongs
<1>5. Listed(v, S \cup {e}, R2)
  BY <1>1, <1>2, <1>4, LinkedIs
<1>6. Family(v, S \cup {e}, R2, P \ {e}) /\ v.son \in SonType
  <2>1. Joins(u, v, S, R, e, f, i, A)
    BY DEF Joins
  <2> HIDE DEF A
  <2> QED  BY <1>1, <1>2, <1>3, <2>1, Attach
<1> QED  BY <1>5, <1>6 DEF Level

\* What GetAllSons finds.
LEMMA FoundSonsIs ==
  ASSUME NEW u, NEW S, NEW R, NEW P, Level(u, S, R, P), NEW f \in Father, NEW x
  PROVE  x \in FoundSons(u, f) <=> u.nsons[f] # 0 /\ x \in S /\ u.efather[x] = f /\ Attached(u, x, S, R)
<1> DEFINE q(i) == SonsAt(u, f, i)
<1>1. \A i \in 0 .. 1 : IsRun(q(i), u, f, i, S, R)
  BY ListedIs, SonsAtIs DEF Level, Family
<1>2. IsRun(q(0), u, f, 0, S, R) /\ IsRun(q(1), u, f, 1, S, R)
  BY <1>1
<1>3. q(0) \in Seq(S) /\ q(1) \in Seq(S)
  BY <1>2 DEF IsRun
<1> HIDE DEF q
<1>4. x \in ToSet(q(0) \o q(1)) <=> (\E k \in 1 .. Len(q(0)) : q(0)[k] = x) \/ \E k \in 1 .. Len(q(1)) : q(1)[k] = x
  <2> DEFINE a == q(0)
             b == q(1)
             c == a \o b
  <2>1. /\ c \in Seq(S) /\ Len(c) = Len(a) + Len(b) /\ Len(a) \in Nat /\ Len(b) \in Nat
        /\ \A k \in 1 .. Len(a) : c[k] = a[k]
        /\ \A k \in 1 .. Len(b) : c[Len(a) + k] = b[k]
        /\ \A k \in (Len(a) + 1) .. (Len(a) + Len(b)) : c[k] = b[k - Len(a)]
    BY <1>3
  <2> HIDE DEF a, b, c
  <2>2. x \in ToSet(c) <=> \E k \in 1 .. Len(c) : c[k] = x
    <3>1. DOMAIN c = 1 .. Len(c)
      BY <2>1
    <3> QED  BY <3>1 DEF ToSet
  <2>3. ASSUME NEW k \in 1 .. Len(c), c[k] = x
        PROVE  (\E j \in 1 .. Len(a) : a[j] = x) \/ \E j \in 1 .. Len(b) : b[j] = x
    <3>1. CASE k <= Len(a)
      BY <2>1, <2>3, <3>1
    <3>2. CASE k > Len(a)
      <4>1. k - Len(a) \in 1 .. Len(b) /\ b[k - Len(a)] = x
        BY <2>1, <2>3, <3>2
      <4> QED  BY <4>1
    <3> QED  BY <2>1, <3>1, <3>2
  <2>4. ASSUME NEW j \in 1 .. Len(a), a[j] = x  PROVE \E k \in 1 .. Len(c) : c[k] = x
    BY <2>1, <2>4
  <2>5. ASSUME NEW j \in 1 .. Len(b), b[j] = x  PROVE \E k \in 1 .. Len(c) : c[k] = x
    <3>1. Len(a) + j \in 1 .. Len(c) /\ c[Len(a) + j] = x
      BY <2>1, <2>5
    <3> QED  BY <3>1
  <2>6. x \in ToSet(c) <=> (\E k \in 1 .. Len(a) : a[k] = x) \/ \E k \in 1 .. Len(b) : b[k] = x
    BY <2>2, <2>3, <2>4, <2>5
  <2> QED  BY <2>6 DEF a, b, c
<1>5. \A i \in 0 .. 1 : (\E k \in 1 .. Len(q(i)) : q(i)[k] = x) <=> x \in S /\ Belongs(u, x, f, i) /\ Attached(u, x, S, R)
  <2> TAKE i \in 0 .. 1
  <2>1. IsRun(q(i), u, f, i, S, R)
    BY <1>1 DEF q
  <2>2. \A k \in 1 .. Len(q(i)) : q(i)[k] \in S /\ Belongs(u, q(i)[k], f, i) /\ Attached(u, q(i)[k], S, R)
    BY <2>1 DEF IsRun
  <2>3. x \in S /\ Belongs(u, x, f, i) /\ Attached(u, x, S, R) => \E k \in 1 .. Len(q(i)) : q(i)[k] = x
    BY <2>1 DEF IsRun
  <2> QED  BY <2>2, <2>3
<1>6. x \in ToSet(q(0) \o q(1)) <=> x \in S /\ u.efather[x] = f /\ Attached(u, x, S, R)
  <2>1. 0 \in 0 .. 1 /\ 1 \in 0 .. 1 /\ \A j \in 0 .. 1 : j = 0 \/ j = 1
    OBVIOUS
  <2>2. Prio2Index(u.prio[x]) \in 0 .. 1
    BY IndexIs
  <2> QED  BY <1>4, <1>5, <2>1, <2>2 DEF Belongs
<1>7. CASE u.nsons[f] = 0
  <2>1. FoundSons(u, f) = {}
    BY <1>7 DEF FoundSons, GetAllSons, ToSet
  <2> QED  BY <1>7, <2>1
<1>8. CASE u.nsons[f] # 0
  <2>1. FoundSons(u, f) = ToSet(q(0) \o q(1))
    BY <1>8 DEF FoundSons, GetAllSons, q
  <2> QED  BY <1>6, <1>8, <2>1
<1> QED  BY <1>7, <1>8

\* How many elements follow e that belong to f.
RunAfter(z, e, f, i, S) ==
    LET n == Len(RunFrom(z, z.list.succ[e], f, i))
    IN  n \in Nat /\ ((\A y \in S \ {e} : ~Belongs(z, y, f, i)) => n = 0)

\* How many sons LinkToFather counts behind a new SON.
LEMMA RunLen ==
  ASSUME NEW v, NEW S, NEW R, Listed(v, S, R), NEW e \in S, NEW z, z.list = v.list, NEW f, NEW i
  PROVE  RunAfter(z, e, f, i, S)
<1> DEFINE y == z.list.succ[e]
           c == Chain(z.list, y)
           run == RunFrom(z, y, f, i)
           m == Cardinality(S) - Pos(y, S, R)
<1>1. S \subseteq Elem /\ Ordered(S, R) /\ \A x \in S : NextIn(z.list.succ[x], x, S, R)
  BY ListedIs
<1>2. CASE y = NULL
  <2>1. run = <<>>
    BY <1>2, RunFromNull
  <2> QED  BY <2>1 DEF RunAfter
<1>3. CASE y # NULL
  <2>1. y \in S /\ y # e
    BY <1>1, <1>3 DEF NextIn, Ordered
  <2>2. IsChain(c, y, S, R)
    BY <1>1, <2>1, ChainIs
  <2>3. m \in Nat /\ m >= 1 /\ c \in [1 .. m -> S] /\ Len(c) = m /\ \A k \in 1 .. m : Pos(c[k], S, R) = Pos(y, S, R) + k - 1
    BY <2>2 DEF IsChain
  <2>4. c[1] = y
    <3>1. Pos(y, S, R) \in Nat
      BY <1>1, <2>1, PosIn
    <3>2. c[1] \in S /\ Pos(c[1], S, R) = Pos(y, S, R)
      BY <2>3, <3>1
    <3> QED  BY <1>1, <2>1, <3>2, PosTells
  <2> HIDE DEF m, c, run
  <2>5. PICK r \in 0 .. m : /\ run = [k \in 1 .. r |-> c[k]]
                            /\ \A k \in 1 .. r : Belongs(z, c[k], f, i)
    BY <2>3, RunFromIs DEF c, run
  <2>6. Len(run) = r
    BY <2>3, <2>5
  <2>7. r # 0 => Belongs(z, y, f, i)
    BY <2>3, <2>4, <2>5
  <2>8. r \in Nat
    BY <2>3
  <2> QED  BY <2>1, <2>6, <2>7, <2>8 DEF run, RunAfter
<1> QED  BY <1>2, <1>3

-----------------------------------------------------------------------------
(* The handlers.                                                            *)

\* u has the fields of a grid and no others.
IsGrid(u) == u = [list |-> u.list, prio |-> u.prio, efather |-> u.efather,
                  fprio |-> u.fprio, son |-> u.son, nsons |-> u.nsons]

\* NSONS has the number of sons.
SonsIn(u, S, f) == {e \in S : u.efather[e] = f}
Counted(u, S)   == \A f \in Father : u.nsons[f] = Cardinality(SonsIn(u, S, f))
FatherRight(u, S) == \A e \in S : u.efather[e] \in {NULL, FatherOf[e]}

\* A father has fewer sons than NSONS can count.
LEMMA FewSons ==
  ASSUME NEW u, NEW S, S \subseteq Elem, FatherRight(u, S), NEW f \in Father
  PROVE  /\ IsFiniteSet(SonsIn(u, S, f)) /\ Cardinality(SonsIn(u, S, f)) \in 0 .. (NSONS_LIMIT - 1)
         /\ \A n \in 0 .. (NSONS_LIMIT - 1) : NSons(n) = n
<1>1. SonsIn(u, S, f) \subseteq SonsOf(f)
  BY NoNull DEF SonsIn, SonsOf, FatherRight
<1>2. SonsOf(f) \subseteq Elem
  BY DEF SonsOf
<1>3. IsFiniteSet(SonsOf(f)) /\ Cardinality(SonsOf(f)) \in Nat /\ Cardinality(SonsOf(f)) < NSONS_LIMIT
  BY <1>2, FiniteElems, ElementsAssumption
<1>4. /\ IsFiniteSet(SonsIn(u, S, f)) /\ Cardinality(SonsIn(u, S, f)) \in Nat
      /\ Cardinality(SonsIn(u, S, f)) <= Cardinality(SonsOf(f))
  BY <1>1, <1>3, FS_Subset, FS_CardinalityType
<1>5. \A n \in 0 .. 31 : n % 32 = n
  OBVIOUS
<1> QED  BY <1>3, <1>4, <1>5 DEF NSons, NSONS_LIMIT

\* What NSONS holds is a number.
LEMMA NSonsType == ASSUME NEW n \in Int  PROVE NSons(n) \in Int
BY DEF NSons, NSONS_LIMIT

\* NSONS after LinkToFather.
NSonsAfter(nsons, list, w, e, prio) ==
    LET f == w.efather[e]
        i == Prio2Index(prio)
    IN  \E z : /\ z.list = list /\ z.prio = w.prio /\ z.efather = w.efather
               /\ nsons = IF w.son[f][i] # NULL THEN w.nsons
                          ELSE [w.nsons EXCEPT ![f] = NSons(@ + Len(RunFrom(z, z.list.succ[e], f, i)))]

\* What LinkToFather does to the fields of w.
LinkedTo(v, w, e, prio) ==
    LET f == w.efather[e]
        i == Prio2Index(prio)
        after == w.son[f][i]
    IN  /\ IsGrid(v) /\ v.prio = w.prio /\ v.efather = w.efather /\ v.fprio = w.fprio
        /\ v.list = GridLinkX(w.list, e, prio, after)
        /\ v.son = IF after = NULL THEN [w.son EXCEPT ![f][i] = e] ELSE w.son
        /\ NSonsAfter(v.nsons, v.list, w, e, prio)

\* The fields LinkToFather writes.
LEMMA LinkToFatherIs ==
  ASSUME NEW w, IsGrid(w), NEW e, NEW prio
  PROVE  LinkedTo(LinkToFather(w, e, prio), w, e, prio)
<1> DEFINE f == w.efather[e]
           i == Prio2Index(prio)
           after == w.son[f][i]
           z == [w EXCEPT !.list = GridLinkX(@, e, prio, after)]
           v == LinkToFather(w, e, prio)
<1>1. /\ IsGrid(z) /\ z.list = GridLinkX(w.list, e, prio, after) /\ z.prio = w.prio
      /\ z.efather = w.efather /\ z.fprio = w.fprio /\ z.son = w.son /\ z.nsons = w.nsons
  <2> DEFINE k == GridLinkX(w.list, e, prio, after)
  <2>1. z = [w EXCEPT !.list = k]
    OBVIOUS
  <2> HIDE DEF k, z
  <2>2. /\ IsGrid(z) /\ z.list = k /\ z.prio = w.prio
        /\ z.efather = w.efather /\ z.fprio = w.fprio /\ z.son = w.son /\ z.nsons = w.nsons
    BY <2>1 DEF IsGrid
  <2> QED  BY <2>2 DEF k
<1>2. v = IF after # NULL THEN z
          ELSE [z EXCEPT !.son[f][i] = e,
                         !.nsons[f] = NSons(@ + Len(RunFrom(z, z.list.succ[e], f, i)))]
  BY DEF LinkToFather
<1> HIDE DEF z, v
<1>3. ASSUME after # NULL  PROVE LinkedTo(v, w, e, prio)
  <2>1. v = z
    BY <1>2, <1>3
  <2>2. NSonsAfter(v.nsons, v.list, w, e, prio)
    BY <1>1, <1>3, <2>1 DEF NSonsAfter
  <2>3. v.son = IF after = NULL THEN [w.son EXCEPT ![f][i] = e] ELSE w.son
    BY <1>1, <1>3, <2>1
  <2> QED  BY <1>1, <2>1, <2>2, <2>3 DEF LinkedTo
<1>4. ASSUME after = NULL  PROVE LinkedTo(v, w, e, prio)
  <2> DEFINE n == Len(RunFrom(z, z.list.succ[e], f, i))
  <2>1. v = [z EXCEPT !.son[f][i] = e, !.nsons[f] = NSons(@ + n)]
    BY <1>2, <1>4
  <2> HIDE DEF n
  <2>2. /\ IsGrid(v) /\ v.list = z.list /\ v.prio = z.prio /\ v.efather = z.efather /\ v.fprio = z.fprio
        /\ v.son = [z.son EXCEPT ![f][i] = e] /\ v.nsons = [z.nsons EXCEPT ![f] = NSons(@ + n)]
    BY <1>1, <2>1 DEF IsGrid
  <2>3. v.nsons = IF after # NULL THEN w.nsons
                  ELSE [w.nsons EXCEPT ![f] = NSons(@ + Len(RunFrom(z, z.list.succ[e], f, i)))]
    BY <1>1, <1>4, <2>2 DEF n
  <2>4. NSonsAfter(v.nsons, v.list, w, e, prio)
    BY <1>1, <2>2, <2>3 DEF NSonsAfter
  <2>5. v.son = IF after = NULL THEN [w.son EXCEPT ![f][i] = e] ELSE w.son
    BY <1>1, <1>4, <2>2
  <2>6. /\ IsGrid(v) /\ v.prio = w.prio /\ v.efather = w.efather /\ v.fprio = w.fprio
        /\ v.list = GridLinkX(w.list, e, prio, after)
    BY <1>1, <2>2
  <2> QED  BY <2>4, <2>5, <2>6 DEF LinkedTo
<1> QED  BY <1>3, <1>4 DEF v

\* NSONS of a family that nobody has left in a wrong place does not change.
Rejoined(v, nsons, w, e, S, P) ==
    /\ \E R : Level(v, S \cup {e}, R, P \ {e})
    /\ nsons \in [Father -> Int]
    /\ P = {} /\ w.nsons[w.efather[e]] \in 0 .. (NSONS_LIMIT - 1) => nsons = w.nsons

\* Unlinking an element and linking it to its father again keeps the families,
\* and NSONS too unless others wait for their handlers (handler.cc).
LEMMA Relinked ==
  ASSUME NEW w, NEW v, NEW k, NEW S, NEW R, NEW P, Level(w, S, R, P), NEW e \in Elem, e \notin S,
         NEW prio \in Prios, w.efather[e] # NULL, LinkedTo(k, w, e, prio),
         v.list = k.list, v.son = k.son, v.efather = k.efather,
         \A x \in S : v.prio[x] = k.prio[x], v.prio[e] = prio, w.nsons \in [Father -> Int]
  PROVE  Rejoined(v, k.nsons, w, e, S, P)
<1> DEFINE f == w.efather[e]
           i == Prio2Index(prio)
           after == w.son[f][i]
<1>1. /\ w.efather \in [Elem -> Father \cup {NULL}] /\ w.son \in SonType /\ Family(w, S, R, P) /\ S \subseteq Elem
      /\ f \in Father /\ i \in 0 .. 1
  BY IndexIs DEF Level, Listed
<1>2. /\ k.prio = w.prio /\ k.efather = w.efather
      /\ k.list = GridLinkX(w.list, e, prio, after)
      /\ k.son = IF after = NULL THEN [w.son EXCEPT ![f][i] = e] ELSE w.son
  BY DEF LinkedTo
<1>3. PICK z : /\ z.list = k.list /\ z.prio = w.prio /\ z.efather = w.efather
               /\ k.nsons = IF after # NULL THEN w.nsons
                            ELSE [w.nsons EXCEPT ![f] = NSons(@ + Len(RunFrom(z, z.list.succ[e], f, i)))]
  BY DEF LinkedTo, NSonsAfter
<1>4. PICK R2 : Level(v, S \cup {e}, R2, P \ {e})
  <2>1. SameOn(S, w, v) /\ v.efather \in [Elem -> Father \cup {NULL}] /\ v.prio[e] \in Prios
    BY <1>1, <1>2 DEF SameOn
  <2>2. v.list = GridLinkX(w.list, e, v.prio[e], IF f = NULL THEN NULL ELSE w.son[f][i])
    BY <1>2
  <2>3. v.son = IF f # NULL /\ (IF f = NULL THEN NULL ELSE w.son[f][i]) = NULL
                THEN [w.son EXCEPT ![f][i] = e] ELSE w.son
    BY <1>2
  <2>4. f = v.efather[e] /\ i = Prio2Index(v.prio[e])
    BY <1>2
  <2> HIDE DEF f, i, after
  <2>5. JoinsList(v, w, e)
    BY <2>2, <2>3, <2>4 DEF JoinsList
  <2> QED  BY <2>1, <2>5, Joined
<1> DEFINE n == Len(RunFrom(z, z.list.succ[e], f, i))
<1>5. n \in Nat /\ ((\A y \in S : ~Belongs(z, y, f, i)) => n = 0)
  <2>1. Listed(v, S \cup {e}, R2) /\ z.list = v.list /\ e \in S \cup {e}
    BY <1>3, <1>4 DEF Level
  <2>2. RunAfter(z, e, f, i, S \cup {e})
    BY <2>1, RunLen
  <2> QED  BY <2>2 DEF RunAfter
<1>6. k.nsons = IF after # NULL THEN w.nsons ELSE [w.nsons EXCEPT ![f] = NSons(@ + n)]
  BY <1>3
<1> HIDE DEF n
<1>7. k.nsons \in [Father -> Int]
  <2>1. NSons(w.nsons[f] + n) \in Int
    BY <1>1, <1>5, NSonsType
  <2> QED  BY <1>1, <1>6, <2>1
<1>8. ASSUME P = {}, w.nsons[f] \in 0 .. (NSONS_LIMIT - 1)  PROVE k.nsons = w.nsons
  <2>1. CASE after # NULL
    BY <1>6, <2>1
  <2>2. CASE after = NULL
    <3>1. \A y \in S : ~Belongs(z, y, f, i)
      <4> SUFFICES ASSUME NEW y \in S, Belongs(z, y, f, i)  PROVE FALSE
        OBVIOUS
      <4>1. w.efather[y] = f /\ Prio2Index(w.prio[y]) = i /\ y # NULL
        BY <1>1, <1>3, NoNull DEF Belongs
      <4>2. Attached(w, y, S, R)
        BY <1>1, <1>8, <4>1, NoNull DEF Family
      <4> QED  BY <2>2, <4>1, <4>2 DEF Attached
    <3>2. n = 0
      BY <1>5, <3>1
    <3>3. NSons(w.nsons[f] + 0) = w.nsons[f]
      BY <1>8 DEF NSons, NSONS_LIMIT
    <3> QED  BY <1>1, <1>6, <2>2, <3>2, <3>3
  <2> QED  BY <2>1, <2>2
<1> QED  BY <1>4, <1>7, <1>8 DEF Rejoined

\* The fields of a grid.
LEMMA GridIs ==
  ASSUME NEW u \in GridType
  PROVE  /\ IsGrid(u) /\ u.list \in ListType /\ u.prio \in [Elem -> Prios \cup {NoPrio}]
         /\ u.efather \in [Elem -> Father \cup {NULL}] /\ u.fprio \in [Father -> Prios \cup {NoPrio}]
         /\ u.son \in SonType /\ u.nsons \in [Father -> Int]
BY DEF GridType, IsGrid

\* A record with these fields is a grid.
LEMMA IsGridType ==
  ASSUME NEW u, IsGrid(u), u.list \in ListType, u.prio \in [Elem -> Prios \cup {NoPrio}],
         u.efather \in [Elem -> Father \cup {NULL}], u.fprio \in [Father -> Prios \cup {NoPrio}],
         u.son \in SonType, u.nsons \in [Father -> Int]
  PROVE  u \in GridType
BY DEF GridType, IsGrid

\* A son in its place is found.
LEMMA SonFound ==
  ASSUME NEW u, NEW S, NEW R, Level(u, S, R, {}), Counted(u, S), NEW e \in S, u.efather[e] # NULL
  PROVE  e \in FoundSons(u, u.efather[e])
<1> DEFINE f == u.efather[e]
<1>1. f \in Father /\ S \subseteq Elem
  BY DEF Level, Listed
<1>2. Attached(u, e, S, R)
  BY DEF Level, Family
<1>3. u.nsons[f] # 0
  <2>1. SonsIn(u, S, f) \subseteq Elem /\ e \in SonsIn(u, S, f)
    BY <1>1 DEF SonsIn
  <2>2. Cardinality(SonsIn(u, S, f)) # 0
    BY <2>1, FiniteElems, FS_EmptySet
  <2> QED  BY <1>1, <2>2 DEF Counted
<1> HIDE DEF f
<1> QED  BY <1>1, <1>2, <1>3, FoundSonsIs DEF f

\* v is u after the priority of e has become new.
PriorityChanged(v, u, e, new, S, P) ==
    /\ v \in GridType
    /\ v.prio = [u.prio EXCEPT ![e] = new] /\ v.efather = u.efather /\ v.fprio = u.fprio
    /\ \E R : Level(v, S, R, P \ {e})
    /\ P = {} /\ Counted(u, S) /\ FatherRight(u, S) => v.nsons = u.nsons

\* The priority handler moves an element to its other place in the list and in
\* the family (handler.cc, ElementPriorityUpdate).
LEMMA SetPriorityIs ==
  ASSUME NEW u \in GridType, NEW S, NEW R, NEW P, Level(u, S, R, P), NEW e \in S, NEW new \in Prios
  PROVE  PriorityChanged(SetPriority(u, e, new), u, e, new, S, P)
<1> DEFINE f == u.efather[e]
           p == u.prio[e]
           k == GridUnlink(u.list, e, p)
           v == SetPriority(u, e, new)
           lostson == e \notin FoundSons(u, f)
           n == IF lostson THEN NSons(u.nsons[f] + 1) ELSE u.nsons[f]
           T == S \ {e}
<1>1. /\ IsGrid(u) /\ u.list \in ListType /\ u.prio \in [Elem -> Prios \cup {NoPrio}]
      /\ u.efather \in [Elem -> Father \cup {NULL}] /\ u.fprio \in [Father -> Prios \cup {NoPrio}]
      /\ u.son \in SonType /\ u.nsons \in [Father -> Int]
      /\ e \in Elem /\ T \cup {e} = S /\ S \subseteq Elem /\ f \in Father \cup {NULL} /\ Listed(u, S, R)
  BY GridIs DEF Level, Listed
<1>2. v = [ElementPriorityUpdate(u, e, new) EXCEPT !.prio[e] = new]
  BY DEF SetPriority
<1>3. CASE f = NULL
  <2> DEFINE w == [u EXCEPT !.list = k]
             l == GridLink(k, e, new)
  <2>1. ElementPriorityUpdate(u, e, new) = [w EXCEPT !.list = GridLink(@, e, new)]
    BY <1>3 DEF ElementPriorityUpdate
  <2> HIDE DEF k, v
  <2>2. /\ w.list = k /\ w.prio = u.prio /\ w.efather = u.efather /\ w.son = u.son /\ w.nsons = u.nsons /\ w.fprio = u.fprio
        /\ IsGrid(w)
    BY <1>1 DEF IsGrid
  <2> HIDE DEF w
  <2>3. v = [w EXCEPT !.list = l, !.prio[e] = new]
    BY <1>2, <2>1, <2>2 DEF IsGrid
  <2> HIDE DEF l
  <2>4. /\ v.list = l /\ v.prio = [u.prio EXCEPT ![e] = new] /\ v.efather = u.efather /\ v.son = u.son
        /\ v.nsons = u.nsons /\ v.fprio = u.fprio /\ IsGrid(v)
    BY <2>2, <2>3 DEF IsGrid
  <2>5. Level(w, T, R, P)
    <3>1. SameOn(T, u, w)
      BY <2>2 DEF SameOn
    <3> QED  BY <1>1, <1>3, <2>2, <3>1, Detached DEF k
  <2>6. \E R2 : Level(v, T \cup {e}, R2, P \ {e})
    <3>1. SameOn(T, w, v) /\ v.prio[e] = new /\ v.efather[e] = NULL
      BY <1>1, <1>3, <2>2, <2>4 DEF SameOn
    <3>2. v.list = GridLinkX(w.list, e, v.prio[e], NULL)
      BY <2>2, <2>4, <3>1 DEF GridLinkX, l
    <3>3. JoinsList(v, w, e)
      BY <2>2, <2>4, <3>1, <3>2 DEF JoinsList
    <3>4. e \notin T /\ v.efather \in [Elem -> Father \cup {NULL}]
      BY <1>1, <2>4
    <3> HIDE DEF T
    <3> QED  BY <1>1, <2>5, <3>1, <3>3, <3>4, Joined
  <2>7. PICK R2 : Level(v, S, R2, P \ {e})
    BY <1>1, <2>6
  <2>8. v \in GridType
    <3>1. v.list \in ListType /\ v.prio \in [Elem -> Prios \cup {NoPrio}]
      BY <1>1, <2>4, <2>7 DEF Level, Listed
    <3> QED  BY <1>1, <2>4, <3>1, IsGridType
  <2> QED  BY <2>4, <2>7, <2>8 DEF PriorityChanged, v
<1>4. CASE f # NULL /\ ~lostson /\ new = p
  <2>1. v = [u EXCEPT !.prio[e] = new]
    BY <1>2, <1>4 DEF ElementPriorityUpdate
  <2>2. v = u /\ u.prio = [u.prio EXCEPT ![e] = new]
    BY <1>1, <1>4, <2>1 DEF IsGrid
  <2>3. Attached(u, e, S, R)
    BY <1>1, <1>4, FoundSonsIs
  <2>4. Level(u, S, R, P \ {e})
    BY <2>3 DEF Level, Family
  <2> HIDE DEF v
  <2> QED  BY <2>2, <2>4 DEF PriorityChanged, v
<1>5. CASE f # NULL /\ ~(~lostson /\ new = p)
  <2> DEFINE w == [u EXCEPT !.list = k, !.son = SonWithout(u, e), !.nsons[f] = n]
             y == LinkToFather(w, e, new)
  <2>1. ElementPriorityUpdate(u, e, new) = y
    <3>1. ElementPriorityUpdate(u, e, new)
             = LinkToFather([[u EXCEPT !.list = GridUnlink(@, e, u.prio[e])]
                               EXCEPT !.son = SonWithout(u, e), !.nsons[f] = IF lostson THEN NSons(@ + 1) ELSE @],
                            e, new)
      BY <1>5 DEF ElementPriorityUpdate
    <3>2. [[u EXCEPT !.list = GridUnlink(@, e, u.prio[e])]
             EXCEPT !.son = SonWithout(u, e), !.nsons[f] = IF lostson THEN NSons(@ + 1) ELSE @] = w
      <4> HIDE DEF lostson
      <4> QED  BY <1>1, <1>5 DEF IsGrid
    <3> QED  BY <3>1, <3>2
  <2> DEFINE s == SonWithout(u, e)
  <2>2. w = [u EXCEPT !.list = k, !.son = s, !.nsons[f] = n]
    OBVIOUS
  <2> HIDE DEF k, n, v, w, s
  <2>3. /\ w.list = k /\ w.prio = u.prio /\ w.efather = u.efather /\ w.son = SonWithout(u, e)
        /\ w.nsons = [u.nsons EXCEPT ![f] = n] /\ w.fprio = u.fprio /\ IsGrid(w)
    <3>1. /\ w.list = k /\ w.prio = u.prio /\ w.efather = u.efather /\ w.son = s
          /\ w.nsons = [u.nsons EXCEPT ![f] = n] /\ w.fprio = u.fprio /\ IsGrid(w)
      BY <1>1, <2>2 DEF IsGrid
    <3> QED  BY <3>1 DEF s
  <2>4. LinkedTo(y, w, e, new)
    BY <2>3, LinkToFatherIs
  <2>5. /\ y.prio = u.prio /\ y.efather = u.efather /\ y.fprio = u.fprio /\ IsGrid(y)
    BY <2>3, <2>4 DEF LinkedTo
  <2> HIDE DEF y
  <2>6. /\ v.list = y.list /\ v.prio = [u.prio EXCEPT ![e] = new] /\ v.efather = u.efather /\ v.son = y.son
        /\ v.nsons = y.nsons /\ v.fprio = u.fprio /\ IsGrid(v)
    BY <1>2, <2>1, <2>5 DEF IsGrid
  <2>7. Level(w, T, R, P)
    <3>1. SameOn(T, u, w)
      BY <2>3 DEF SameOn
    <3> QED  BY <1>1, <1>5, <2>3, <3>1, Detached DEF k
  <2>8. n \in Int /\ w.nsons \in [Father -> Int]
    <3>1. n \in Int
      BY <1>1, <1>5, NSonsType DEF n
    <3> QED  BY <1>1, <1>5, <2>3, <3>1
  <2>9. Rejoined(v, y.nsons, w, e, T, P)
    <3>1. /\ e \in Elem /\ e \notin T /\ w.efather[e] # NULL
          /\ v.list = y.list /\ v.son = y.son /\ v.efather = y.efather
          /\ v.prio[e] = new
      BY <1>1, <1>5, <2>3, <2>5, <2>6
    <3>2. \A x \in T : v.prio[x] = y.prio[x]
      BY <1>1, <2>5, <2>6
    <3> HIDE DEF T
    <3> QED  BY <2>4, <2>7, <2>8, <3>1, <3>2, Relinked
  <2>10. PICK R2 : Level(v, S, R2, P \ {e})
    BY <1>1, <2>9 DEF Rejoined
  <2>11. v \in GridType
    <3>1. v.list \in ListType /\ v.son \in SonType /\ v.prio \in [Elem -> Prios \cup {NoPrio}]
      BY <1>1, <2>6, <2>10 DEF Level, Listed
    <3> QED  BY <1>1, <2>6, <2>9, <3>1, IsGridType DEF Rejoined
  <2>12. ASSUME P = {}, Counted(u, S), FatherRight(u, S)  PROVE v.nsons = u.nsons
    <3>1. ~lostson
      BY <1>5, <2>12, SonFound
    <3>2. w.nsons = u.nsons
      BY <1>1, <1>5, <2>3, <3>1 DEF n
    <3>3. u.nsons[f] \in 0 .. (NSONS_LIMIT - 1)
      BY <1>1, <1>5, <2>12, FewSons DEF Counted
    <3> QED  BY <2>3, <2>6, <2>9, <2>12, <3>2, <3>3 DEF Rejoined
  <2> QED  BY <2>6, <2>10, <2>11, <2>12 DEF PriorityChanged, v
<1> QED  BY <1>3, <1>4, <1>5

\* A new object: it was not in the list.
NewLinked(v, u, e, S) ==
    /\ v \in GridType
    /\ v.prio = u.prio /\ v.efather = u.efather /\ v.fprio = u.fprio
    /\ \E R : Level(v, S \cup {e}, R, {})
    /\ Counted(u, S) /\ FatherRight(u, S \cup {e}) => Counted(v, S \cup {e})

\* A new object is linked to its father and counted (handler.cc,
\* ElementObjMkCons with newness).
LEMMA NewObjectIs ==
  ASSUME NEW u \in GridType, NEW S, NEW R, Level(u, S, R, {}), NEW e \in Elem, e \notin S,
         u.prio[e] \in Prios
  PROVE  NewLinked(ElementObjMkCons(u, e, TRUE), u, e, S)
<1> DEFINE f == u.efather[e]
           p == u.prio[e]
           v == ElementObjMkCons(u, e, TRUE)
           T == S \cup {e}
<1>1. /\ IsGrid(u) /\ u.list \in ListType /\ u.prio \in [Elem -> Prios \cup {NoPrio}]
      /\ u.efather \in [Elem -> Father \cup {NULL}] /\ u.fprio \in [Father -> Prios \cup {NoPrio}]
      /\ u.son \in SonType /\ u.nsons \in [Father -> Int]
      /\ S \subseteq Elem /\ T \subseteq Elem /\ f \in Father \cup {NULL}
  BY GridIs DEF Level, Listed
<1>2. CASE f = NULL
  <2> DEFINE l == GridLink(u.list, e, p)
  <2>1. v = [u EXCEPT !.list = l]
    BY <1>2 DEF ElementObjMkCons
  <2> HIDE DEF l, v
  <2>2. /\ v.list = l /\ v.prio = u.prio /\ v.efather = u.efather /\ v.son = u.son
        /\ v.nsons = u.nsons /\ v.fprio = u.fprio /\ IsGrid(v)
    BY <1>1, <2>1 DEF IsGrid
  <2>3. PICK R2 : Level(v, T, R2, {})
    <3>1. SameOn(S, u, v)
      BY <2>2 DEF SameOn
    <3>2. v.list = GridLinkX(u.list, e, v.prio[e], NULL)
      BY <2>2 DEF GridLinkX, l
    <3>3. JoinsList(v, u, e)
      BY <1>2, <2>2, <3>2 DEF JoinsList
    <3>4. \E R2 : Level(v, S \cup {e}, R2, {} \ {e})
      BY <1>1, <2>2, <3>1, <3>3, Joined
    <3> QED  BY <3>4
  <2>4. v \in GridType
    <3>1. v.list \in ListType
      BY <2>3 DEF Level, Listed
    <3> QED  BY <1>1, <2>2, <3>1, IsGridType
  <2>5. Counted(u, S) => Counted(v, T)
    <3>1. \A g \in Father : SonsIn(v, T, g) = SonsIn(u, S, g)
      BY <1>2, <2>2, NoNull DEF SonsIn
    <3> QED  BY <2>2, <3>1 DEF Counted
  <2> QED  BY <2>2, <2>3, <2>4, <2>5 DEF NewLinked, v
<1>3. CASE f # NULL
  <2> DEFINE y == LinkToFather(u, e, p)
  <2>1. v = [y EXCEPT !.nsons[f] = NSons(@ + 1)]
    BY <1>3 DEF ElementObjMkCons
  <2>2. LinkedTo(y, u, e, p)
    BY <1>1, LinkToFatherIs
  <2> HIDE DEF y, v
  <2>3. y.prio = u.prio /\ y.efather = u.efather /\ y.fprio = u.fprio /\ IsGrid(y)
    BY <2>2 DEF LinkedTo
  <2>4. /\ v.list = y.list /\ v.prio = u.prio /\ v.efather = u.efather /\ v.son = y.son
        /\ v.nsons = [y.nsons EXCEPT ![f] = NSons(@ + 1)] /\ v.fprio = u.fprio /\ IsGrid(v)
    BY <2>1, <2>3 DEF IsGrid
  <2>5. Rejoined(v, y.nsons, u, e, S, {})
    <3>1. v.list = y.list /\ v.son = y.son /\ v.efather = y.efather /\ v.prio[e] = p /\ p \in Prios /\ u.efather[e] # NULL
      BY <1>3, <2>3, <2>4
    <3>2. \A x \in S : v.prio[x] = y.prio[x]
      BY <2>3, <2>4
    <3> HIDE DEF p
    <3> QED  BY <1>1, <2>2, <3>1, <3>2, Relinked
  <2>6. PICK R2 : Level(v, T, R2, {})
    BY <2>5 DEF Rejoined
  <2>7. v \in GridType
    <3>1. v.list \in ListType /\ v.son \in SonType
      BY <2>6 DEF Level, Listed
    <3>2. y.nsons \in [Father -> Int] /\ NSons(y.nsons[f] + 1) \in Int
      BY <1>1, <1>3, <2>5, NSonsType DEF Rejoined
    <3>3. v.nsons \in [Father -> Int]
      BY <2>4, <3>2
    <3> QED  BY <1>1, <2>4, <3>1, <3>3, IsGridType
  <2>8. ASSUME Counted(u, S), FatherRight(u, T)  PROVE Counted(v, T)
    <3>1. FatherRight(u, S) /\ f \in Father
      BY <1>1, <1>3, <2>8 DEF FatherRight
    <3>2. u.nsons[f] = Cardinality(SonsIn(u, S, f)) /\ IsFiniteSet(SonsIn(u, S, f))
          /\ u.nsons[f] \in 0 .. (NSONS_LIMIT - 1)
      BY <1>1, <2>8, <3>1, FewSons DEF Counted
    <3>3. y.nsons = u.nsons
      BY <2>5, <3>2 DEF Rejoined
    <3>4. SonsIn(u, T, f) = SonsIn(u, S, f) \cup {e} /\ e \notin SonsIn(u, S, f)
      BY DEF SonsIn
    <3>5. Cardinality(SonsIn(u, T, f)) = u.nsons[f] + 1
      BY <3>2, <3>4, FS_AddElement
    <3>6. NSons(u.nsons[f] + 1) = u.nsons[f] + 1
      <4>1. Cardinality(SonsIn(u, T, f)) \in 0 .. (NSONS_LIMIT - 1) /\ \A n \in 0 .. (NSONS_LIMIT - 1) : NSons(n) = n
        BY <1>1, <2>8, <3>1, FewSons
      <4> QED  BY <3>5, <4>1
    <3>7. \A g \in Father \ {f} : SonsIn(u, T, g) = SonsIn(u, S, g)
      BY DEF SonsIn
    <3>8. \A g : SonsIn(v, T, g) = SonsIn(u, T, g)
      BY <2>4 DEF SonsIn
    <3>9. \A g \in Father : v.nsons[g] = Cardinality(SonsIn(u, T, g))
      BY <1>1, <2>4, <2>8, <3>1, <3>3, <3>5, <3>6, <3>7 DEF Counted
    <3> QED  BY <3>8, <3>9 DEF Counted
  <2> QED  BY <2>4, <2>6, <2>7, <2>8 DEF NewLinked, v
<1> QED  BY <1>2, <1>3

\* An object that was here before.
OldLinked(v, u, S) ==
    /\ v \in GridType
    /\ v.prio = u.prio /\ v.efather = u.efather /\ v.fprio = u.fprio
    /\ \E R : Level(v, S, R, {})
    /\ Counted(u, S) => v = u

\* An object that was here already is linked only if its father does not find
\* it, which never happens when NSONS is right.
LEMMA OldObjectIs ==
  ASSUME NEW u \in GridType, NEW S, NEW R, Level(u, S, R, {}), NEW e \in S
  PROVE  OldLinked(ElementObjMkCons(u, e, FALSE), u, S)
<1> DEFINE f == u.efather[e]
           p == u.prio[e]
           v == ElementObjMkCons(u, e, FALSE)
           lostson == p # "Master" /\ f # NULL /\ e \notin FoundSons(u, f)
           T == S \ {e}
           k == GridUnlink(u.list, e, p)
<1>1. /\ IsGrid(u) /\ u.list \in ListType /\ u.prio \in [Elem -> Prios \cup {NoPrio}]
      /\ u.efather \in [Elem -> Father \cup {NULL}] /\ u.fprio \in [Father -> Prios \cup {NoPrio}]
      /\ u.son \in SonType /\ u.nsons \in [Father -> Int] /\ p \in Prios
      /\ S \subseteq Elem /\ e \in Elem /\ T \cup {e} = S /\ f \in Father \cup {NULL}
  BY GridIs DEF Level, Listed
<1>2. CASE ~lostson
  <2>1. v = u
    BY <1>2 DEF ElementObjMkCons
  <2> HIDE DEF v
  <2> QED  BY <2>1 DEF OldLinked, v
<1>3. CASE lostson
  <2> DEFINE s == SonWithout(u, e)
             w == [u EXCEPT !.list = k, !.son = s]
             y == LinkToFather(w, e, p)
  <2>1. v = [y EXCEPT !.nsons[f] = NSons(@ + 1)]
    BY <1>3 DEF ElementObjMkCons
  <2>2. w = [u EXCEPT !.list = k, !.son = s]
    OBVIOUS
  <2> HIDE DEF k, v, s, w
  <2>3. /\ w.list = k /\ w.prio = u.prio /\ w.efather = u.efather /\ w.son = s
        /\ w.nsons = u.nsons /\ w.fprio = u.fprio /\ IsGrid(w)
    BY <1>1, <2>2 DEF IsGrid
  <2>4. LinkedTo(y, w, e, p)
    BY <2>3, LinkToFatherIs
  <2> HIDE DEF y
  <2>5. y.prio = u.prio /\ y.efather = u.efather /\ y.fprio = u.fprio /\ IsGrid(y)
    BY <2>3, <2>4 DEF LinkedTo
  <2>6. /\ v.list = y.list /\ v.prio = u.prio /\ v.efather = u.efather /\ v.son = y.son
        /\ v.nsons = [y.nsons EXCEPT ![f] = NSons(@ + 1)] /\ v.fprio = u.fprio /\ IsGrid(v)
    BY <2>1, <2>5 DEF IsGrid
  <2>7. Level(w, T, R, {})
    <3>1. SameOn(T, u, w)
      BY <2>3 DEF SameOn
    <3> QED  BY <1>1, <1>3, <2>3, <3>1, Detached DEF k, s
  <2>8. Rejoined(v, y.nsons, w, e, T, {})
    <3>1. /\ e \in Elem /\ e \notin T /\ w.efather[e] # NULL /\ w.nsons \in [Father -> Int]
          /\ v.list = y.list /\ v.son = y.son /\ v.efather = y.efather
          /\ v.prio[e] = p
      BY <1>1, <1>3, <2>3, <2>5, <2>6
    <3>2. \A x \in T : v.prio[x] = y.prio[x]
      BY <2>5, <2>6
    <3> HIDE DEF T, p
    <3> QED  BY <1>1, <2>4, <2>7, <3>1, <3>2, Relinked
  <2>9. PICK R2 : Level(v, S, R2, {})
    <3>1. \E R2 : Level(v, T \cup {e}, R2, {} \ {e})
      BY <2>8 DEF Rejoined
    <3> QED  BY <1>1, <3>1
  <2>10. v \in GridType
    <3>1. v.list \in ListType /\ v.son \in SonType
      BY <2>9 DEF Level, Listed
    <3>2. y.nsons \in [Father -> Int] /\ NSons(y.nsons[f] + 1) \in Int
      BY <1>1, <1>3, <2>8, NSonsType DEF Rejoined
    <3>3. v.nsons \in [Father -> Int]
      BY <2>6, <3>2
    <3> QED  BY <1>1, <2>6, <3>1, <3>3, IsGridType
  <2>11. ~Counted(u, S)
    BY <1>3, SonFound
  <2> QED  BY <2>6, <2>9, <2>10, <2>11 DEF OldLinked, v
<1> QED  BY <1>2, <1>3

\* v is u without e.
Disposed(v, u, e, S, R, P) ==
    /\ v \in GridType
    /\ v.prio = [u.prio EXCEPT ![e] = NoPrio] /\ v.efather = [u.efather EXCEPT ![e] = NULL] /\ v.fprio = u.fprio
    /\ Level(v, S \ {e}, R, P)
    /\ Counted(u, S) /\ FatherRight(u, S) => Counted(v, S \ {e})

\* Disposing of an element takes it from the list, its father and NSONS
\* (ugm.cc, DisposeElement).
LEMMA DisposeElementIs ==
  ASSUME NEW u \in GridType, NEW S, NEW R, NEW P, Level(u, S, R, P), NEW e \in S
  PROVE  Disposed(DisposeElement(u, e), u, e, S, R, P)
<1> DEFINE f == u.efather[e]
           p == u.prio[e]
           v == DisposeElement(u, e)
           T == S \ {e}
           k == GridUnlink(u.list, e, p)
           s == IF f = NULL THEN u.son ELSE SonWithout(u, e)
           n == IF f = NULL THEN u.nsons ELSE [u.nsons EXCEPT ![f] = NSons(@ - 1)]
<1>1. /\ IsGrid(u) /\ u.list \in ListType /\ u.prio \in [Elem -> Prios \cup {NoPrio}]
      /\ u.efather \in [Elem -> Father \cup {NULL}] /\ u.fprio \in [Father -> Prios \cup {NoPrio}]
      /\ u.son \in SonType /\ u.nsons \in [Father -> Int] /\ p \in Prios
      /\ S \subseteq Elem /\ e \in Elem /\ f \in Father \cup {NULL}
  BY GridIs DEF Level, Listed
<1>2. /\ v.list = k /\ v.prio = [u.prio EXCEPT ![e] = NoPrio] /\ v.efather = [u.efather EXCEPT ![e] = NULL]
      /\ v.son = s /\ v.nsons = n /\ v.fprio = u.fprio /\ IsGrid(v)
  <2> DEFINE gone == [u EXCEPT !.list = k, !.prio[e] = NoPrio, !.efather[e] = NULL]
             t == SonWithout(u, e)
  <2>1. v = IF f = NULL THEN gone ELSE [gone EXCEPT !.son = t, !.nsons[f] = NSons(@ - 1)]
    BY DEF DisposeElement
  <2>2. gone = [u EXCEPT !.list = k, !.prio[e] = NoPrio, !.efather[e] = NULL]
    OBVIOUS
  <2> HIDE DEF v, k, t, gone
  <2>3. /\ gone.list = k /\ gone.prio = [u.prio EXCEPT ![e] = NoPrio] /\ gone.efather = [u.efather EXCEPT ![e] = NULL]
        /\ gone.son = u.son /\ gone.nsons = u.nsons /\ gone.fprio = u.fprio /\ IsGrid(gone)
    BY <1>1, <2>2 DEF IsGrid
  <2>4. /\ v.list = k /\ v.prio = [u.prio EXCEPT ![e] = NoPrio] /\ v.efather = [u.efather EXCEPT ![e] = NULL]
        /\ v.son = (IF f = NULL THEN u.son ELSE t) /\ v.nsons = n /\ v.fprio = u.fprio /\ IsGrid(v)
    BY <2>1, <2>3 DEF IsGrid
  <2> QED  BY <2>4 DEF t
<1> HIDE DEF v
<1>3. Level(v, T, R, P)
  <2>1. SameOn(T, u, v) /\ v.efather \in [Elem -> Father \cup {NULL}]
    BY <1>1, <1>2 DEF SameOn
  <2> QED  BY <1>2, <2>1, Detached
<1>4. v \in GridType
  <2>1. v.list \in ListType /\ v.son \in SonType /\ v.efather \in [Elem -> Father \cup {NULL}]
    BY <1>3 DEF Level, Listed
  <2>2. v.prio \in [Elem -> Prios \cup {NoPrio}]
    BY <1>1, <1>2
  <2>3. v.nsons \in [Father -> Int]
    <3>1. CASE f = NULL
      BY <1>1, <1>2, <3>1
    <3>2. CASE f # NULL
      <4>1. NSons(u.nsons[f] - 1) \in Int
        BY <1>1, <3>2, NSonsType
      <4> QED  BY <1>1, <1>2, <3>2, <4>1
    <3> QED  BY <3>1, <3>2
  <2> QED  BY <1>1, <1>2, <2>1, <2>2, <2>3, IsGridType
<1>5. ASSUME Counted(u, S), FatherRight(u, S)  PROVE Counted(v, T)
  <2>1. \A g \in Father \ {f} : SonsIn(v, T, g) = SonsIn(u, S, g)
    BY <1>1, <1>2 DEF SonsIn
  <2>2. \A g \in Father \ {f} : v.nsons[g] = u.nsons[g]
    BY <1>1, <1>2
  <2>3. ASSUME f # NULL  PROVE v.nsons[f] = Cardinality(SonsIn(v, T, f))
    <3>1. u.nsons[f] = Cardinality(SonsIn(u, S, f)) /\ IsFiniteSet(SonsIn(u, S, f))
          /\ u.nsons[f] \in 0 .. (NSONS_LIMIT - 1) /\ \A m \in 0 .. (NSONS_LIMIT - 1) : NSons(m) = m
      BY <1>1, <1>5, <2>3, FewSons DEF Counted
    <3>2. e \in SonsIn(u, S, f) /\ SonsIn(v, T, f) = SonsIn(u, S, f) \ {e}
      BY <1>1, <1>2 DEF SonsIn
    <3>3. Cardinality(SonsIn(v, T, f)) = u.nsons[f] - 1
      <4>1. Cardinality(SonsIn(u, S, f) \ {e}) = Cardinality(SonsIn(u, S, f)) - 1
        BY <3>1, <3>2, FS_RemoveElement
      <4> QED  BY <3>1, <3>2, <4>1
    <3>4. u.nsons[f] # 0
      BY <3>1, <3>2, FS_EmptySet
    <3>5. NSons(u.nsons[f] - 1) = u.nsons[f] - 1
      BY <3>1, <3>4 DEF NSONS_LIMIT
    <3> QED  BY <1>1, <1>2, <2>3, <3>3, <3>5
  <2> QED  BY <1>5, <2>1, <2>2, <2>3, NoNull DEF Counted
<1> QED  BY <1>2, <1>3, <1>4, <1>5 DEF Disposed, v

-----------------------------------------------------------------------------
(* Families that are created or disposed of element by element.             *)

\* The grids while CreateElements and DisposeElements run.
Made(u, f, order) ==
    LET made[n \in 0 .. Len(order)] ==
            IF n = 0 THEN u ELSE CreateElement(made[n - 1], f, order[n])
    IN  made

Left(u, order) ==
    LET left[n \in 0 .. Len(order)] ==
            IF n = 0 THEN u ELSE DisposeElement(left[n - 1], order[n])
    IN  left

\* The elements are created one after the other.
LEMMA MadeRec ==
  ASSUME NEW u, NEW g, NEW order, Len(order) \in Nat
  PROVE  LET T == Made(u, g, order)
         IN  /\ T[0] = u
             /\ \A m \in 1 .. Len(order) : T[m] = CreateElement(T[m - 1], g, order[m])
<1> DEFINE N == Len(order)
           Rec(f, k) == f = [m \in 0 .. k |-> IF m = 0 THEN u ELSE CreateElement(f[m - 1], g, order[m])]
           Bad == {k \in 0 .. N : ~ \E f : Rec(f, k)}
<1>1. N \in Nat
  OBVIOUS
<1> HIDE DEF N
<1>2. Bad = {}
  <2> SUFFICES ASSUME Bad # {}  PROVE FALSE
    OBVIOUS
  <2>1. PICK k \in Bad : \A m \in Bad : k <= m
    <3>1. Bad \in SUBSET Nat
      BY <1>1
    <3> HIDE DEF Bad
    <3> QED  BY <3>1, Smallest
  <2>2. CASE k = 0
    <3> DEFINE f == [m \in 0 .. 0 |-> u]
    <3>1. f = [m \in 0 .. 0 |-> IF m = 0 THEN u ELSE CreateElement(f[m - 1], g, order[m])]
      OBVIOUS
    <3>2. Rec(f, k)
      BY <2>2, <3>1
    <3> HIDE DEF f, Rec
    <3> QED  BY <3>2, <2>1
  <2>3. CASE k # 0
    <3>1. k - 1 \in 0 .. N /\ ~(k - 1 \in Bad) /\ k \in Nat
      <4>1. Bad \subseteq 0 .. N
        OBVIOUS
      <4> HIDE DEF Bad, Rec
      <4>2. k \in 0 .. N
        BY <2>1, <4>1
      <4> QED  BY <1>1, <2>1, <2>3, <4>2
    <3>2. PICK g0 : Rec(g0, k - 1)
      BY <3>1
    <3> DEFINE f == [m \in 0 .. k |-> IF m = k THEN CreateElement(g0[k - 1], g, order[k]) ELSE g0[m]]
    <3>3. \A m \in 0 .. (k - 1) : f[m] = g0[m] /\ g0[m] = IF m = 0 THEN u ELSE CreateElement(g0[m - 1], g, order[m])
      BY <3>1, <3>2
    <3>4. f[k] = CreateElement(f[k - 1], g, order[k])
      <4>1. f[k] = CreateElement(g0[k - 1], g, order[k])
        BY <3>1
      <4>2. f[k - 1] = g0[k - 1]
        BY <2>3, <3>1, <3>3
      <4> HIDE DEF f
      <4> QED  BY <4>1, <4>2
    <3>5. ASSUME NEW m \in 0 .. k  PROVE f[m] = IF m = 0 THEN u ELSE CreateElement(f[m - 1], g, order[m])
      <4> HIDE DEF f
      <4>1. CASE m = k
        BY <4>1, <3>4, <2>3
      <4>2. CASE m # k
        <5>1. m \in 0 .. (k - 1) /\ (m # 0 => m - 1 \in 0 .. (k - 1))
          BY <3>1, <4>2
        <5> QED  BY <5>1, <3>3
      <4> QED  BY <4>1, <4>2
    <3>6. Rec(f, k)
      <4>1. f = [m \in 0 .. k |-> f[m]]
        OBVIOUS
      <4> HIDE DEF f
      <4> QED  BY <4>1, <3>5
    <3> HIDE DEF f, Rec
    <3> QED  BY <3>6, <2>1
  <2> QED  BY <2>2, <2>3
<1>3. \E f : Rec(f, N)
  BY <1>1, <1>2
<1> DEFINE T == CHOOSE f : Rec(f, N)
<1>4. Rec(T, N)
  <2> HIDE DEF Rec
  <2> QED  BY <1>3
<1>5. T = [m \in 0 .. N |-> IF m = 0 THEN u ELSE CreateElement(T[m - 1], g, order[m])]
  BY <1>4
<1>6. Made(u, g, order) = T
  BY DEF Made, N
<1> HIDE DEF T
<1>7. T[0] = u /\ \A m \in 1 .. N : T[m] = CreateElement(T[m - 1], g, order[m])
  BY <1>1, <1>5
<1> QED  BY <1>6, <1>7 DEF N

\* The elements are disposed of one after the other.
LEMMA LeftRec ==
  ASSUME NEW u, NEW order, Len(order) \in Nat
  PROVE  LET T == Left(u, order)
         IN  /\ T[0] = u
             /\ \A m \in 1 .. Len(order) : T[m] = DisposeElement(T[m - 1], order[m])
<1> DEFINE N == Len(order)
           Rec(f, k) == f = [m \in 0 .. k |-> IF m = 0 THEN u ELSE DisposeElement(f[m - 1], order[m])]
           Bad == {k \in 0 .. N : ~ \E f : Rec(f, k)}
<1>1. N \in Nat
  OBVIOUS
<1> HIDE DEF N
<1>2. Bad = {}
  <2> SUFFICES ASSUME Bad # {}  PROVE FALSE
    OBVIOUS
  <2>1. PICK k \in Bad : \A m \in Bad : k <= m
    <3>1. Bad \in SUBSET Nat
      BY <1>1
    <3> HIDE DEF Bad
    <3> QED  BY <3>1, Smallest
  <2>2. CASE k = 0
    <3> DEFINE f == [m \in 0 .. 0 |-> u]
    <3>1. f = [m \in 0 .. 0 |-> IF m = 0 THEN u ELSE DisposeElement(f[m - 1], order[m])]
      OBVIOUS
    <3>2. Rec(f, k)
      BY <2>2, <3>1
    <3> HIDE DEF f, Rec
    <3> QED  BY <3>2, <2>1
  <2>3. CASE k # 0
    <3>1. k - 1 \in 0 .. N /\ ~(k - 1 \in Bad) /\ k \in Nat
      <4>1. Bad \subseteq 0 .. N
        OBVIOUS
      <4> HIDE DEF Bad, Rec
      <4>2. k \in 0 .. N
        BY <2>1, <4>1
      <4> QED  BY <1>1, <2>1, <2>3, <4>2
    <3>2. PICK g0 : Rec(g0, k - 1)
      BY <3>1
    <3> DEFINE f == [m \in 0 .. k |-> IF m = k THEN DisposeElement(g0[k - 1], order[k]) ELSE g0[m]]
    <3>3. \A m \in 0 .. (k - 1) : f[m] = g0[m] /\ g0[m] = IF m = 0 THEN u ELSE DisposeElement(g0[m - 1], order[m])
      BY <3>1, <3>2
    <3>4. f[k] = DisposeElement(f[k - 1], order[k])
      <4>1. f[k] = DisposeElement(g0[k - 1], order[k])
        BY <3>1
      <4>2. f[k - 1] = g0[k - 1]
        BY <2>3, <3>1, <3>3
      <4> HIDE DEF f
      <4> QED  BY <4>1, <4>2
    <3>5. ASSUME NEW m \in 0 .. k  PROVE f[m] = IF m = 0 THEN u ELSE DisposeElement(f[m - 1], order[m])
      <4> HIDE DEF f
      <4>1. CASE m = k
        BY <4>1, <3>4, <2>3
      <4>2. CASE m # k
        <5>1. m \in 0 .. (k - 1) /\ (m # 0 => m - 1 \in 0 .. (k - 1))
          BY <3>1, <4>2
        <5> QED  BY <5>1, <3>3
      <4> QED  BY <4>1, <4>2
    <3>6. Rec(f, k)
      <4>1. f = [m \in 0 .. k |-> f[m]]
        OBVIOUS
      <4> HIDE DEF f
      <4> QED  BY <4>1, <3>5
    <3> HIDE DEF f, Rec
    <3> QED  BY <3>6, <2>1
  <2> QED  BY <2>2, <2>3
<1>3. \E f : Rec(f, N)
  BY <1>1, <1>2
<1> DEFINE T == CHOOSE f : Rec(f, N)
<1>4. Rec(T, N)
  <2> HIDE DEF Rec
  <2> QED  BY <1>3
<1>5. T = [m \in 0 .. N |-> IF m = 0 THEN u ELSE DisposeElement(T[m - 1], order[m])]
  BY <1>4
<1>6. Left(u, order) = T
  BY DEF Left, N
<1> HIDE DEF T
<1>7. T[0] = u /\ \A m \in 1 .. N : T[m] = DisposeElement(T[m - 1], order[m])
  BY <1>1, <1>5
<1> QED  BY <1>6, <1>7 DEF N

\* All elements behind SON of f are its sons, up to the end of the list.
SonsLast(u, S, R, f) ==
    LET s == u.son[f][0]
    IN  s # NULL => \A x \in S : Before(R, s, x) => Belongs(u, x, f, 0)

\* v is u with the new son e of f.
Created(v, u, f, e, S) ==
    /\ v \in GridType
    /\ v.prio = [u.prio EXCEPT ![e] = "Master"] /\ v.efather = [u.efather EXCEPT ![e] = f] /\ v.fprio = u.fprio
    /\ \E R : Level(v, S \cup {e}, R, {}) /\ SonsLast(v, S \cup {e}, R, f)
    /\ Counted(u, S) /\ FatherRight(u, S) => Counted(v, S \cup {e})

\* A new element comes to the end of the list, behind the sons before it.
LEMMA CreateElementIs ==
  ASSUME NEW u \in GridType, NEW S, NEW R, NEW f \in Father, Level(u, S, R, {}), SonsLast(u, S, R, f),
         NEW e \in Elem, e \notin S, FatherOf[e] = f
  PROVE  Created(CreateElement(u, f, e), u, f, e, S)
<1> DEFINE v == CreateElement(u, f, e)
           T == S \cup {e}
           l == GridLink(u.list, e, "Master")
<1>1. /\ IsGrid(u) /\ u.list \in ListType /\ u.prio \in [Elem -> Prios \cup {NoPrio}]
      /\ u.efather \in [Elem -> Father \cup {NULL}] /\ u.fprio \in [Father -> Prios \cup {NoPrio}]
      /\ u.son \in SonType /\ u.nsons \in [Father -> Int]
      /\ S \subseteq Elem /\ T \subseteq Elem /\ e # NULL /\ f # NULL /\ NULL \notin S
      /\ Listed(u, S, R) /\ Family(u, S, R, {}) /\ Ordered(S, R)
  BY GridIs, ListedIs, NoNull DEF Level, Listed
<1>2. /\ v.list = l /\ v.prio = [u.prio EXCEPT ![e] = "Master"] /\ v.efather = [u.efather EXCEPT ![e] = f]
      /\ v.son = [u.son EXCEPT ![f][0] = IF @ = NULL THEN e ELSE @]
      /\ v.nsons = [u.nsons EXCEPT ![f] = NSons(@ + 1)] /\ v.fprio = u.fprio /\ IsGrid(v)
  <2>1. v = [u EXCEPT !.list = l, !.prio[e] = "Master", !.efather[e] = f,
                      !.son[f][0] = IF @ = NULL THEN e ELSE @, !.nsons[f] = NSons(@ + 1)]
    BY DEF CreateElement
  <2> HIDE DEF v, l
  <2> QED  BY <1>1, <2>1 DEF IsGrid
<1> HIDE DEF v
<1>3. v.prio \in [Elem -> Prios \cup {NoPrio}] /\ v.efather \in [Elem -> Father \cup {NULL}]
      /\ v.prio[e] = "Master" /\ v.efather[e] = f /\ SameOn(S, u, v)
  BY <1>1, <1>2 DEF Prios, SameOn
<1>4. /\ v.son \in SonType
      /\ \A g \in Father, i \in 0 .. 1 :
            v.son[g][i] = IF g = f /\ i = 0 /\ u.son[g][i] = NULL THEN e ELSE u.son[g][i]
  BY <1>1, <1>2 DEF SonType, Object
<1>5. PICK R2 : InsertOf(R2, R, S, S, e)
  BY InsertExists
<1>6. Listed(v, T, R2)
  <2>1. "Master" \in Prios /\ Prio2ListPart("Master") = 1
    BY DEF Prios, Prio2ListPart
  <2>2. v.list = GridLinkX(u.list, e, v.prio[e], NULL)
    BY <1>2, <1>3 DEF GridLinkX
  <2> DEFINE after == NULL
             A == S
  <2>3. IF after = NULL THEN A = IF Prio2ListPart(v.prio[e]) = 0 THEN {} ELSE S
        ELSE after \in S /\ Prio2Index(v.prio[e]) = Prio2Index(u.prio[after]) /\ A = UpTo(after, S, R)
    BY <1>3, <2>1
  <2>4. v.prio[e] \in Prios /\ SameOn(S, u, v)
    BY <1>3, <2>1
  <2>5. InsertOf(R2, R, S, A, e) /\ v.list = GridLinkX(u.list, e, v.prio[e], after)
    BY <1>5, <2>2
  <2> HIDE DEF after, A
  <2> QED  BY <1>1, <2>3, <2>4, <2>5, LinkedIs
<1>7. /\ \A x, y \in S : Before(R2, x, y) <=> Before(R, x, y)
      /\ \A x \in S : Before(R2, x, e) /\ ~Before(R2, e, x)
      /\ ~Before(R2, e, e)
  BY <1>5 DEF InsertOf
<1>8. \A y \in S : \A g, i : Belongs(u, y, g, i) <=> Belongs(v, y, g, i)
  BY <1>3 DEF SameOn, Belongs
<1>9. Belongs(v, e, f, 0)
  BY <1>3 DEF Belongs, Prio2Index
<1>10. \A g \in Father, i \in 0 .. 1 : u.son[g][i] # NULL => u.son[g][i] \in S /\ Belongs(u, u.son[g][i], g, i)
  BY <1>1 DEF Family, SonInv
<1>11. SonInv(v, T)
  <2> SUFFICES ASSUME NEW g \in Father, NEW i \in 0 .. 1, v.son[g][i] # NULL
               PROVE  v.son[g][i] \in T /\ Belongs(v, v.son[g][i], g, i)
    BY DEF SonInv
  <2>1. CASE g = f /\ i = 0 /\ u.son[g][i] = NULL
    BY <1>4, <1>9, <2>1
  <2>2. CASE ~(g = f /\ i = 0 /\ u.son[g][i] = NULL)
    BY <1>4, <1>8, <1>10, <2>2
  <2> QED  BY <2>1, <2>2
<1>12. SonsLast(v, T, R2, f)
  <2> DEFINE s == u.son[f][0]
  <2>1. CASE s = NULL
    <3>1. v.son[f][0] = e
      BY <1>4, <2>1
    <3> QED  BY <1>7, <3>1 DEF SonsLast
  <2>2. CASE s # NULL
    <3>1. v.son[f][0] = s /\ s \in S
      BY <1>4, <1>10, <2>2
    <3> QED  BY <1>7, <1>8, <1>9, <2>2, <3>1 DEF SonsLast
  <2> QED  BY <2>1, <2>2
<1>13. Attached(v, e, T, R2)
  <2> DEFINE s == v.son[f][0]
  <2>1. s = e \/ (s # NULL /\ s \in S)
    BY <1>1, <1>4, <1>10
  <2>2. Prio2Index(v.prio[e]) = 0
    BY <1>3 DEF Prio2Index
  <2>3. \A y \in T : s # NULL /\ Before(R2, s, y) => Belongs(v, y, f, 0)
    BY <1>12 DEF SonsLast
  <2> HIDE DEF s
  <2>4. s # e => Before(R2, s, e)
    BY <1>7, <2>1
  <2> QED  BY <1>1, <1>3, <2>1, <2>2, <2>3, <2>4 DEF Attached, s
<1>14. ASSUME NEW x \in S, v.efather[x] # NULL  PROVE Attached(v, x, T, R2)
  <2> DEFINE g == u.efather[x]
             i == Prio2Index(u.prio[x])
             s == u.son[g][i]
  <2>1. Attached(u, x, S, R) /\ g \in Father /\ v.efather[x] = g /\ v.prio[x] = u.prio[x] /\ i \in 0 .. 1
    BY <1>1, <1>3, <1>14, IndexIs DEF Family, SameOn
  <2>2. s = x \/ (s # NULL /\ Before(R, s, x) /\ \A y \in S : Before(R, s, y) /\ Before(R, y, x) => Belongs(u, y, g, i))
    BY <2>1 DEF Attached
  <2>3. s # NULL /\ s \in S /\ v.son[g][i] = s
    BY <1>1, <1>4, <1>10, <2>1, <2>2
  <2> HIDE DEF s, g, i
  <2>4. s # x => Before(R2, s, x) /\ \A y \in T : Before(R2, s, y) /\ Before(R2, y, x) => Belongs(v, y, g, i)
    BY <1>7, <1>8, <2>2, <2>3
  <2> QED  BY <2>1, <2>3, <2>4 DEF Attached, i
<1>15. Level(v, T, R2, {})
  BY <1>3, <1>4, <1>6, <1>11, <1>13, <1>14 DEF Level, Family
<1>16. v \in GridType
  <2>1. v.list \in ListType
    BY <1>6 DEF Listed
  <2>2. NSons(u.nsons[f] + 1) \in Int
    BY <1>1, NSonsType
  <2>3. v.nsons \in [Father -> Int]
    BY <1>1, <1>2, <2>2
  <2> QED  BY <1>1, <1>2, <1>3, <1>4, <2>1, <2>3, IsGridType
<1>17. ASSUME Counted(u, S), FatherRight(u, S)  PROVE Counted(v, T)
  <2>1. u.nsons[f] = Cardinality(SonsIn(u, S, f)) /\ IsFiniteSet(SonsIn(u, S, f))
    BY <1>1, <1>17, FewSons DEF Counted
  <2>2. SonsIn(v, T, f) = SonsIn(u, S, f) \cup {e} /\ e \notin SonsIn(u, S, f)
    BY <1>3 DEF SonsIn, SameOn
  <2>3. Cardinality(SonsIn(v, T, f)) = u.nsons[f] + 1
    BY <2>1, <2>2, FS_AddElement
  <2>4. Cardinality(SonsIn(v, T, f)) \in 0 .. (NSONS_LIMIT - 1) /\ \A n \in 0 .. (NSONS_LIMIT - 1) : NSons(n) = n
    <3>1. FatherRight(v, T)
      BY <1>3, <1>17 DEF FatherRight, SameOn
    <3> QED  BY <1>1, <3>1, FewSons
  <2>5. NSons(u.nsons[f] + 1) = u.nsons[f] + 1
    BY <2>3, <2>4
  <2>6. \A g \in Father \ {f} : SonsIn(v, T, g) = SonsIn(u, S, g)
    BY <1>3 DEF SonsIn, SameOn
  <2>7. \A g \in Father : v.nsons[g] = IF g = f THEN NSons(u.nsons[f] + 1) ELSE u.nsons[g]
    BY <1>1, <1>2
  <2>8. \A g \in Father : v.nsons[g] = Cardinality(SonsIn(v, T, g))
    BY <1>17, <2>3, <2>5, <2>6, <2>7 DEF Counted
  <2> QED  BY <2>8 DEF Counted
<1> QED  BY <1>2, <1>12, <1>15, <1>16, <1>17 DEF Created, v

\* The elements of N have been created.
CreatedSome(v, u, f, N, S) ==
    /\ v \in GridType /\ v.fprio = u.fprio
    /\ \A x \in Elem : /\ v.prio[x] = IF x \in N THEN "Master" ELSE u.prio[x]
                       /\ v.efather[x] = IF x \in N THEN f ELSE u.efather[x]
    /\ \E R : Level(v, S \cup N, R, {}) /\ SonsLast(v, S \cup N, R, f)
    /\ Counted(u, S) /\ FatherRight(u, S) => Counted(v, S \cup N)

\* One more of them.
LEMMA CreatedNext ==
  ASSUME NEW v, NEW u \in GridType, NEW f \in Father, NEW N, NEW S, S \subseteq Elem, N \subseteq SonsOf(f),
         CreatedSome(v, u, f, N, S), NEW e \in SonsOf(f), e \notin N, e \notin S
  PROVE  CreatedSome(CreateElement(v, f, e), u, f, N \cup {e}, S)
<1> DEFINE w == CreateElement(v, f, e)
           T == S \cup N
<1>1. e \in Elem /\ FatherOf[e] = f /\ N \subseteq Elem /\ \A x \in N : FatherOf[x] = f
  BY DEF SonsOf
<1>2. PICK R : Level(v, T, R, {}) /\ SonsLast(v, T, R, f)
  BY DEF CreatedSome
<1>3. v \in GridType /\ e \notin T
  BY DEF CreatedSome
<1>4. Created(w, v, f, e, T)
  <2> HIDE DEF T
  <2> QED  BY <1>1, <1>2, <1>3, CreateElementIs
<1> HIDE DEF w
<1>5. /\ w \in GridType /\ w.fprio = v.fprio
      /\ w.prio = [v.prio EXCEPT ![e] = "Master"] /\ w.efather = [v.efather EXCEPT ![e] = f]
      /\ \E R2 : Level(w, T \cup {e}, R2, {}) /\ SonsLast(w, T \cup {e}, R2, f)
      /\ Counted(v, T) /\ FatherRight(v, T) => Counted(w, T \cup {e})
  BY <1>4 DEF Created
<1>6. T \cup {e} = S \cup (N \cup {e})
  OBVIOUS
<1>7. /\ v.prio \in [Elem -> Prios \cup {NoPrio}] /\ v.efather \in [Elem -> Father \cup {NULL}]
  BY <1>3, GridIs
<1>8. \A x \in Elem : /\ v.prio[x] = IF x \in N THEN "Master" ELSE u.prio[x]
                      /\ v.efather[x] = IF x \in N THEN f ELSE u.efather[x]
  BY DEF CreatedSome
<1>9. \A x \in Elem : /\ w.prio[x] = IF x \in N \cup {e} THEN "Master" ELSE u.prio[x]
                      /\ w.efather[x] = IF x \in N \cup {e} THEN f ELSE u.efather[x]
  BY <1>1, <1>5, <1>7, <1>8
<1>10. ASSUME Counted(u, S), FatherRight(u, S)  PROVE Counted(w, T \cup {e})
  <2>1. Counted(v, T)
    BY <1>10 DEF CreatedSome
  <2>2. FatherRight(v, T)
    BY <1>1, <1>8, <1>10 DEF FatherRight
  <2> QED  BY <1>5, <2>1, <2>2
<1>11. w.fprio = u.fprio
  BY <1>5 DEF CreatedSome
<1> HIDE DEF T
<1> QED  BY <1>5, <1>6, <1>9, <1>10, <1>11 DEF CreatedSome, w

\* The first n elements of an order.
FirstOf(order, n) == {order[k] : k \in 1 .. n}

\* All of them, in any order.
LEMMA CreateElementsIs ==
  ASSUME NEW u \in GridType, NEW f \in Father, NEW S, NEW R, Level(u, S, R, {}), SonsLast(u, S, R, f),
         S \cap SonsOf(f) = {}, NEW order \in SetToSeqs(SonsOf(f))
  PROVE  \E N \in SUBSET SonsOf(f) : CreatedSome(CreateElements(u, f, order), u, f, N, S)
<1> DEFINE C == Cardinality(SonsOf(f))
           made == Made(u, f, order)
           Done(n) == CreatedSome(made[n], u, f, FirstOf(order, n), S)
<1>1. C \in Nat /\ S \subseteq Elem
  <2>1. SonsOf(f) \subseteq Elem
    BY DEF SonsOf
  <2> QED  BY <2>1, FiniteElems DEF Level, Listed
<1>2. /\ order \in [1 .. C -> SonsOf(f)] /\ Len(order) = C
      /\ \A i, j \in 1 .. C : i # j => order[i] # order[j]
  <2>1. order \in [1 .. C -> SonsOf(f)] /\ \A i, j \in 1 .. C : i # j => order[i] # order[j]
    BY DEF SetToSeqs
  <2> HIDE DEF C
  <2> QED  BY <1>1, <2>1
<1> HIDE DEF C
<1>3. made[0] = u /\ \A m \in 1 .. C : made[m] = CreateElement(made[m - 1], f, order[m])
  BY <1>1, <1>2, MadeRec
<1>4. CreateElements(u, f, order) = made[C]
  BY <1>2 DEF CreateElements, Made
<1> HIDE DEF made
<1>5. Done(0)
  <2>1. FirstOf(order, 0) = {}
    BY DEF FirstOf
  <2> QED  BY <1>3, <2>1 DEF CreatedSome
<1>6. ASSUME NEW m \in 1 .. C, Done(m - 1)  PROVE Done(m)
  <2> DEFINE N == FirstOf(order, m - 1)
  <2>1. FirstOf(order, m) = N \cup {order[m]}
    BY <1>1 DEF FirstOf
  <2>2. N \subseteq SonsOf(f) /\ order[m] \in SonsOf(f) /\ order[m] \notin N /\ order[m] \notin S
    BY <1>1, <1>2 DEF FirstOf
  <2>3. CreatedSome(made[m - 1], u, f, N, S)
    BY <1>6
  <2> HIDE DEF N
  <2>4. CreatedSome(CreateElement(made[m - 1], f, order[m]), u, f, N \cup {order[m]}, S)
    BY <1>1, <2>2, <2>3, CreatedNext
  <2> QED  BY <1>3, <2>1, <2>4
<1> HIDE DEF Done
<1>7. Done(C)
  <2> DEFINE Bad == {n \in 0 .. C : ~Done(n)}
  <2> SUFFICES ASSUME Bad # {}  PROVE FALSE
    BY <1>1
  <2>1. PICK n \in Bad : \A m \in Bad : n <= m
    <3>1. Bad \in SUBSET Nat
      BY <1>1
    <3> HIDE DEF Bad
    <3> QED  BY <3>1, Smallest
  <2>2. n \in 1 .. C /\ n - 1 \in 0 .. C /\ n - 1 \notin Bad
    BY <1>1, <1>5, <2>1
  <2> QED  BY <1>6, <2>1, <2>2
<1>8. FirstOf(order, C) \subseteq SonsOf(f)
  BY <1>2 DEF FirstOf
<1> QED  BY <1>4, <1>7, <1>8 DEF Done

\* The elements of N have been disposed of.
DisposedSome(v, u, N, S, R) ==
    /\ v \in GridType /\ v.fprio = u.fprio
    /\ \A x \in Elem : /\ v.prio[x] = IF x \in N THEN NoPrio ELSE u.prio[x]
                       /\ v.efather[x] = IF x \in N THEN NULL ELSE u.efather[x]
    /\ Level(v, S \ N, R, {})
    /\ Counted(u, S) /\ FatherRight(u, S) => Counted(v, S \ N)

\* One more of them.
LEMMA DisposedNext ==
  ASSUME NEW v, NEW u \in GridType, NEW N, NEW S, NEW R, S \subseteq Elem, N \subseteq S,
         DisposedSome(v, u, N, S, R), NEW e \in S, e \notin N
  PROVE  DisposedSome(DisposeElement(v, e), u, N \cup {e}, S, R)
<1> DEFINE w == DisposeElement(v, e)
           T == S \ N
<1>1. v \in GridType /\ e \in T /\ Level(v, T, R, {}) /\ T \ {e} = S \ (N \cup {e})
  BY DEF DisposedSome
<1>2. Disposed(w, v, e, T, R, {})
  <2> HIDE DEF T
  <2> QED  BY <1>1, DisposeElementIs
<1> HIDE DEF w
<1>3. /\ w \in GridType /\ w.fprio = v.fprio
      /\ w.prio = [v.prio EXCEPT ![e] = NoPrio] /\ w.efather = [v.efather EXCEPT ![e] = NULL]
      /\ Level(w, T \ {e}, R, {})
      /\ Counted(v, T) /\ FatherRight(v, T) => Counted(w, T \ {e})
  BY <1>2 DEF Disposed
<1>4. v.prio \in [Elem -> Prios \cup {NoPrio}] /\ v.efather \in [Elem -> Father \cup {NULL}]
  BY <1>1, GridIs
<1>5. \A x \in Elem : /\ v.prio[x] = IF x \in N THEN NoPrio ELSE u.prio[x]
                      /\ v.efather[x] = IF x \in N THEN NULL ELSE u.efather[x]
  BY DEF DisposedSome
<1>6. \A x \in Elem : /\ w.prio[x] = IF x \in N \cup {e} THEN NoPrio ELSE u.prio[x]
                      /\ w.efather[x] = IF x \in N \cup {e} THEN NULL ELSE u.efather[x]
  BY <1>3, <1>4, <1>5
<1>7. ASSUME Counted(u, S), FatherRight(u, S)  PROVE Counted(w, T \ {e})
  <2>1. Counted(v, T)
    BY <1>7 DEF DisposedSome
  <2>2. FatherRight(v, T)
    BY <1>5, <1>7 DEF FatherRight
  <2> QED  BY <1>3, <2>1, <2>2
<1>8. w.fprio = u.fprio
  BY <1>3 DEF DisposedSome
<1> HIDE DEF T
<1> QED  BY <1>1, <1>3, <1>6, <1>7, <1>8 DEF DisposedSome, w

\* A sequence of different elements of S.
LEMMA DisposeElementsIs ==
  ASSUME NEW u \in GridType, NEW S, NEW R, Level(u, S, R, {}),
         NEW order \in Seq(S), \A j, k \in 1 .. Len(order) : j < k => order[j] # order[k]
  PROVE  \E N \in SUBSET S : DisposedSome(DisposeElements(u, order), u, N, S, R)
<1> DEFINE C == Len(order)
           left == Left(u, order)
           Done(n) == DisposedSome(left[n], u, FirstOf(order, n), S, R)
<1>1. C \in Nat /\ S \subseteq Elem /\ \A k \in 1 .. C : order[k] \in S
  BY DEF Level, Listed
<1>2. \A i, j \in 1 .. C : i < j => order[i] # order[j]
  OBVIOUS
<1>3. left[0] = u /\ \A m \in 1 .. C : left[m] = DisposeElement(left[m - 1], order[m])
  BY <1>1, LeftRec
<1>4. DisposeElements(u, order) = left[C]
  BY DEF DisposeElements, Left
<1> HIDE DEF left, C
<1>5. Done(0)
  <2>1. FirstOf(order, 0) = {} /\ S \ {} = S
    BY DEF FirstOf
  <2> QED  BY <1>3, <2>1 DEF DisposedSome
<1>6. ASSUME NEW m \in 1 .. C, Done(m - 1)  PROVE Done(m)
  <2> DEFINE N == FirstOf(order, m - 1)
  <2>1. FirstOf(order, m) = N \cup {order[m]}
    BY <1>1 DEF FirstOf
  <2>2. N \subseteq S /\ order[m] \in S /\ order[m] \notin N
    BY <1>1, <1>2 DEF FirstOf
  <2>3. DisposedSome(left[m - 1], u, N, S, R)
    BY <1>6
  <2> HIDE DEF N
  <2>4. DisposedSome(DisposeElement(left[m - 1], order[m]), u, N \cup {order[m]}, S, R)
    BY <1>1, <2>2, <2>3, DisposedNext
  <2> QED  BY <1>3, <2>1, <2>4
<1> HIDE DEF Done
<1>7. Done(C)
  <2> DEFINE Bad == {n \in 0 .. C : ~Done(n)}
  <2> SUFFICES ASSUME Bad # {}  PROVE FALSE
    BY <1>1
  <2>1. PICK n \in Bad : \A m \in Bad : n <= m
    <3>1. Bad \in SUBSET Nat
      BY <1>1
    <3> HIDE DEF Bad
    <3> QED  BY <3>1, Smallest
  <2>2. n \in 1 .. C /\ n - 1 \in 0 .. C /\ n - 1 \notin Bad
    BY <1>1, <1>5, <2>1
  <2> QED  BY <1>6, <2>1, <2>2
<1>8. FirstOf(order, C) \subseteq S
  BY <1>1 DEF FirstOf
<1> QED  BY <1>4, <1>7, <1>8 DEF Done

\* GetAllSons gives such a sequence.
LEMMA GetAllSonsIs ==
  ASSUME NEW u, NEW S, NEW R, NEW P, Level(u, S, R, P), NEW f \in Father
  PROVE  LET q == GetAllSons(u, f)
         IN  q \in Seq(S) /\ \A j, k \in 1 .. Len(q) : j < k => q[j] # q[k]
<1> DEFINE a == SonsAt(u, f, 0)
           b == SonsAt(u, f, 1)
           q == a \o b
<1>1. \A i \in 0 .. 1 : IsRun(SonsAt(u, f, i), u, f, i, S, R)
  BY ListedIs, SonsAtIs DEF Level, Family
<1>2. IsRun(a, u, f, 0, S, R) /\ IsRun(b, u, f, 1, S, R)
  BY <1>1
<1> HIDE DEF a, b
<1>3. /\ a \in Seq(S) /\ b \in Seq(S)
      /\ \A k \in 1 .. Len(a) : Prio2Index(u.prio[a[k]]) = 0
      /\ \A k \in 1 .. Len(b) : Prio2Index(u.prio[b[k]]) = 1
      /\ \A j, k \in 1 .. Len(a) : j < k => a[j] # a[k]
      /\ \A j, k \in 1 .. Len(b) : j < k => b[j] # b[k]
  <2>1. \A x \in S : ~Before(R, x, x)
    BY ListedIs DEF Level, Ordered
  <2> QED  BY <1>2, <2>1 DEF IsRun, Belongs
<1>4. /\ q \in Seq(S) /\ Len(q) = Len(a) + Len(b) /\ Len(a) \in Nat /\ Len(b) \in Nat
      /\ \A k \in 1 .. Len(a) : q[k] = a[k]
      /\ \A k \in (Len(a) + 1) .. (Len(a) + Len(b)) : q[k] = b[k - Len(a)]
  BY <1>3
<1> HIDE DEF q
<1>5. ASSUME NEW j \in 1 .. Len(q), NEW k \in 1 .. Len(q), j < k  PROVE q[j] # q[k]
  <2>1. CASE k <= Len(a)
    <3>1. j \in 1 .. Len(a) /\ k \in 1 .. Len(a)
      BY <1>4, <1>5, <2>1
    <3> QED  BY <1>3, <1>4, <1>5, <3>1
  <2>2. CASE j > Len(a)
    <3>1. j - Len(a) \in 1 .. Len(b) /\ k - Len(a) \in 1 .. Len(b) /\ j - Len(a) < k - Len(a)
          /\ q[j] = b[j - Len(a)] /\ q[k] = b[k - Len(a)]
      BY <1>4, <1>5, <2>2
    <3> QED  BY <1>3, <3>1
  <2>3. CASE j <= Len(a) /\ k > Len(a)
    <3>1. j \in 1 .. Len(a) /\ q[j] = a[j]
      BY <1>4, <1>5, <2>3
    <3>2. k - Len(a) \in 1 .. Len(b) /\ q[k] = b[k - Len(a)]
      BY <1>4, <1>5, <2>3
    <3>3. Prio2Index(u.prio[q[j]]) = 0 /\ Prio2Index(u.prio[q[k]]) = 1
      BY <1>3, <3>1, <3>2
    <3> QED  BY <3>3
  <2> QED  BY <1>4, <2>1, <2>2, <2>3
<1>6. GetAllSons(u, f) = <<>> \/ GetAllSons(u, f) = q
  BY DEF GetAllSons, a, b, q
<1> DEFINE g == GetAllSons(u, f)
<1> HIDE DEF g
<1>7. g \in Seq(S) /\ \A j, k \in 1 .. Len(g) : j < k => g[j] # g[k]
  <2>1. CASE g = <<>>
    BY <2>1
  <2>2. CASE g = q
    BY <1>4, <1>5, <2>2
  <2> QED  BY <1>6, <2>1, <2>2 DEF g
<1> QED  BY <1>7 DEF g

\* Father pointers change: of elements without father that handlers will put in
\* their place (Q), or to nothing for families outside D.
Refather(v, u, S, P, Q, D) ==
    /\ D \subseteq Father /\ v.list = u.list /\ \A x \in S : v.prio[x] = u.prio[x]
    /\ v.efather \in [Elem -> Father \cup {NULL}] /\ v.son \in SonType
    /\ \A g \in D : v.son[g] = u.son[g] /\ \A x \in S : u.efather[x] = g => v.efather[x] = g
    /\ \A g \in Father \ D, i \in 0 .. 1 : v.son[g][i] = NULL
    /\ \A x \in S \ Q : v.efather[x] # NULL => v.efather[x] \in D /\ u.efather[x] = v.efather[x] /\ x \notin P

\* Father pointers and SON may be reset together, as long as what stays behind
\* a father points to it.
LEMMA Refathered ==
  ASSUME NEW u, NEW v, NEW S, NEW R, NEW P, NEW Q, NEW D, Level(u, S, R, P), Refather(v, u, S, P, Q, D)
  PROVE  Level(v, S, R, Q)
<1> USE DEF Refather
<1>1. /\ Listed(u, S, R) /\ SonInv(u, S) /\ S \subseteq Elem
      /\ \A x \in S \ P : u.efather[x] # NULL => Attached(u, x, S, R)
  BY DEF Level, Family, Listed
<1>2. Listed(v, S, R)
  <2>1. PartOf(v, S, 0) = PartOf(u, S, 0) /\ PartOf(v, S, 1) = PartOf(u, S, 1)
    BY DEF PartOf
  <2>2. \A p \in Prios : {e \in S : v.prio[e] = p} = {e \in S : u.prio[e] = p}
    OBVIOUS
  <2>3. CountsAre(v.list.count, v.prio, S)
    BY <1>1, <2>2 DEF Listed, CountsAre
  <2> QED  BY <1>1, <2>1, <2>3 DEF Listed
<1>3. \A x \in S : \A g \in D : \A i : Belongs(u, x, g, i) => Belongs(v, x, g, i)
  BY DEF Belongs
<1>4. SonInv(v, S)
  <2> SUFFICES ASSUME NEW g \in Father, NEW i \in 0 .. 1, v.son[g][i] # NULL
               PROVE  v.son[g][i] \in S /\ Belongs(v, v.son[g][i], g, i)
    BY DEF SonInv
  <2>1. g \in D /\ v.son[g][i] = u.son[g][i]
    OBVIOUS
  <2> QED  BY <1>1, <1>3, <2>1 DEF SonInv
<1>5. ASSUME NEW x \in S \ Q, v.efather[x] # NULL  PROVE Attached(v, x, S, R)
  <2> DEFINE g == u.efather[x]
             i == Prio2Index(u.prio[x])
             s == u.son[g][i]
  <2>1. g \in D /\ v.efather[x] = g /\ v.prio[x] = u.prio[x] /\ Attached(u, x, S, R) /\ i \in 0 .. 1
    BY <1>1, <1>5, IndexIs
  <2>2. s = x \/ (s # NULL /\ Before(R, s, x) /\ \A y \in S : Before(R, s, y) /\ Before(R, y, x) => Belongs(u, y, g, i))
    BY <2>1 DEF Attached
  <2>3. v.son[g][i] = s
    BY <2>1
  <2> HIDE DEF s, g, i
  <2> QED  BY <1>3, <2>1, <2>2, <2>3 DEF Attached, i
<1> QED  BY <1>2, <1>4, <1>5 DEF Level, Family

\* v is u without the father f.
FatherDisposed(v, u, f, S, R) ==
    /\ v \in GridType /\ v.prio = u.prio /\ v.fprio = [u.fprio EXCEPT ![f] = NoPrio]
    /\ \A x \in Elem : v.efather[x] = u.efather[x] \/ (u.efather[x] = f /\ v.efather[x] = NULL)
    /\ Listed(v, S, R)
    /\ (\A x \in S : v.efather[x] # f) => Level(v, S, R, {})
    /\ Counted(u, S) => Counted(v, S) /\ \A x \in S : v.efather[x] # f

\* The father leaves no pointer behind if it finds its sons.
LEMMA DisposeFatherIs ==
  ASSUME NEW u \in GridType, NEW S, NEW R, Level(u, S, R, {}), NEW f \in Father
  PROVE  FatherDisposed(DisposeFather(u, f), u, f, S, R)
<1> DEFINE v == DisposeFather(u, f)
           found == FoundSons(u, f)
<1>1. /\ IsGrid(u) /\ u.list \in ListType /\ u.prio \in [Elem -> Prios \cup {NoPrio}]
      /\ u.efather \in [Elem -> Father \cup {NULL}] /\ u.fprio \in [Father -> Prios \cup {NoPrio}]
      /\ u.son \in SonType /\ u.nsons \in [Father -> Int]
      /\ S \subseteq Elem /\ f # NULL /\ Listed(u, S, R)
  BY GridIs, NoNull DEF Level, Listed
<1>2. /\ v.list = u.list /\ v.prio = u.prio /\ v.fprio = [u.fprio EXCEPT ![f] = NoPrio]
      /\ v.efather = [e \in Elem |-> IF e \in found THEN NULL ELSE u.efather[e]]
      /\ v.son = [u.son EXCEPT ![f] = [i \in 0 .. 1 |-> NULL]]
      /\ v.nsons = [u.nsons EXCEPT ![f] = 0] /\ IsGrid(v)
  <2>1. v = [u EXCEPT !.efather = [e \in Elem |-> IF e \in found THEN NULL ELSE @[e]],
                      !.fprio[f] = NoPrio, !.son[f] = [i \in 0 .. 1 |-> NULL], !.nsons[f] = 0]
    BY DEF DisposeFather
  <2> HIDE DEF v, found
  <2> QED  BY <1>1, <2>1 DEF IsGrid
<1> HIDE DEF v
<1>3. \A x \in found : x \in S /\ u.efather[x] = f
  <2> TAKE x \in found
  <2> QED  BY FoundSonsIs
<1>4. ASSUME Counted(u, S), NEW x \in S, u.efather[x] = f  PROVE x \in found
  BY <1>1, <1>4, SonFound
<1> HIDE DEF found
<1>5. \A x \in Elem : v.efather[x] = u.efather[x] \/ (u.efather[x] = f /\ v.efather[x] = NULL)
  BY <1>2, <1>3
<1>6. v.son \in SonType /\ v.efather \in [Elem -> Father \cup {NULL}] /\ v.fprio \in [Father -> Prios \cup {NoPrio}]
      /\ v.nsons \in [Father -> Int]
  BY <1>1, <1>2 DEF SonType, Object
<1>7. v \in GridType
  BY <1>1, <1>2, <1>6, IsGridType
<1>8. Listed(v, S, R)
  <2>1. PartOf(v, S, 0) = PartOf(u, S, 0) /\ PartOf(v, S, 1) = PartOf(u, S, 1)
    BY <1>2 DEF PartOf
  <2> QED  BY <1>1, <1>2, <2>1 DEF Listed
<1>9. ASSUME \A x \in S : v.efather[x] # f  PROVE Level(v, S, R, {})
  <2> DEFINE D == Father \ {f}
             P == {}
  <2>1. \A g \in D : v.son[g] = u.son[g] /\ \A x \in S : u.efather[x] = g => v.efather[x] = g
    BY <1>1, <1>2, <1>5 DEF SonType
  <2>2. \A g \in Father \ D, i \in 0 .. 1 : v.son[g][i] = NULL
    BY <1>1, <1>2 DEF SonType
  <2>3. \A x \in S \ P : v.efather[x] # NULL => v.efather[x] \in D /\ u.efather[x] = v.efather[x] /\ x \notin P
    BY <1>1, <1>5, <1>6, <1>9
  <2>4. D \subseteq Father /\ Level(u, S, R, P) /\ v.list = u.list /\ \A x \in S : v.prio[x] = u.prio[x]
    BY <1>2
  <2>5. Level(v, S, R, P)
    <3> HIDE DEF D, P
    <3>1. Refather(v, u, S, P, P, D)
      BY <1>6, <2>1, <2>2, <2>3, <2>4 DEF Refather
    <3> QED  BY <2>4, <3>1, Refathered
  <2> QED  BY <2>5
<1>10. ASSUME Counted(u, S)  PROVE Counted(v, S) /\ \A x \in S : v.efather[x] # f
  <2>1. \A x \in S : v.efather[x] # f
    BY <1>1, <1>2, <1>4, <1>10
  <2>2. \A g \in Father \ {f} : SonsIn(v, S, g) = SonsIn(u, S, g)
    BY <1>1, <1>5, NoNull DEF SonsIn
  <2>3. SonsIn(v, S, f) = {}
    BY <2>1 DEF SonsIn
  <2>4. \A g \in Father : v.nsons[g] = Cardinality(SonsIn(v, S, g))
    <3> TAKE g \in Father
    <3>1. CASE g = f
      BY <1>1, <1>2, <2>3, <3>1, FS_EmptySet
    <3>2. CASE g # f
      BY <1>1, <1>2, <1>10, <2>2, <3>2 DEF Counted
    <3> QED  BY <3>1, <3>2
  <2> QED  BY <2>1, <2>4 DEF Counted
<1> QED  BY <1>2, <1>5, <1>7, <1>8, <1>9, <1>10 DEF FatherDisposed, v

-----------------------------------------------------------------------------
(* The invariant.                                                           *)

\* What transfers leave to do is about objects that are here or arrive.
TodoType ==
    /\ todo = [del |-> todo.del, prio |-> todo.prio, demoted |-> todo.demoted,
               recv |-> todo.recv, new |-> todo.new, old |-> todo.old]
    /\ todo.del \subseteq Here(grid) \cup FathersHere(grid)
    /\ todo.prio \in [DOMAIN todo.prio -> Prios] /\ DOMAIN todo.prio \subseteq Here(grid) \ todo.del
    /\ todo.recv \in [DOMAIN todo.recv -> Prios] /\ DOMAIN todo.recv \subseteq Elem \cup Father
    /\ todo.new \subseteq Here(grid) /\ todo.old \subseteq Here(grid) \ todo.new

\* The phases of a transfer and what is left to do in them.
TypeInv ==
    /\ inherit \in BOOLEAN /\ grid \in GridType
    /\ TodoType
    /\ \/ pc = "user" /\ todo = NothingLeft
       \/ pc = "delete" /\ todo.new = {} /\ todo.old = {}
       \/ pc = "unpack" /\ todo = [NothingLeft EXCEPT !.prio = todo.prio, !.new = todo.new, !.old = todo.old]
                        /\ DOMAIN todo.prio \subseteq todo.old

\* An element has its own father or none.
FatherInv ==
    /\ \A e \in Elem : grid.efather[e] \in {NULL, FatherOf[e]}
    /\ \A e \in Elem \ Here(grid) : grid.efather[e] = NULL

\* The elements that handlers have still to put in their place.
Misplaced == IF pc = "unpack" /\ ~inherit THEN DOMAIN todo.prio ELSE {}

\* List and families; when a father is lost, only the list.
LevelInv ==
    \E R : /\ Listed(grid, Linked, R)
           /\ FatherPointersValid => Level(grid, Linked, R, Misplaced)

\* A father that stays is there for each element that stays or arrives.
InheritInv ==
    /\ inherit =>
          /\ Counted(grid, Linked)
          /\ \A e \in Here(grid) \ todo.del :
                grid.efather[e] = FatherOf[e] /\ FatherOf[e] \in FathersHere(grid) \ todo.del
          /\ \A e \in Elem \cap DOMAIN todo.recv :
                FatherOf[e] \in DOMAIN todo.recv \cup (FathersHere(grid) \ todo.del)
    /\ FatherPointersValid \/ (pc = "delete" /\ ~inherit)

\* The inductive invariant.
IInv == TypeInv /\ FatherInv /\ LevelInv /\ InheritInv

\* Between transfers.
UserGrid(u, inh) ==
    /\ u \in GridType
    /\ \A e \in Elem : u.efather[e] \in {NULL, FatherOf[e]}
    /\ \A e \in Elem \ Here(u) : u.efather[e] = NULL
    /\ \A e \in Here(u) : u.efather[e] # NULL => u.efather[e] \in FathersHere(u)
    /\ \E R : Level(u, Here(u), R, {})
    /\ inh => Counted(u, Here(u)) /\ \A e \in Here(u) : u.efather[e] = FatherOf[e]

\* The fields of NothingLeft.
LEMMA NothingLeftIs ==
  /\ NothingLeft.del = {} /\ NothingLeft.prio = <<>> /\ NothingLeft.demoted = {}
  /\ NothingLeft.recv = <<>> /\ NothingLeft.new = {} /\ NothingLeft.old = {}
  /\ DOMAIN <<>> = {} /\ \A P : <<>> \in [DOMAIN <<>> -> P]
<1>1. DOMAIN <<>> = {}
  OBVIOUS
<1>2. <<>> = [x \in {} |-> x]
  OBVIOUS
<1> QED  BY <1>1, <1>2 DEF NothingLeft

\* Outside of transfers the invariant is what UserGrid says.
LEMMA UserGridIs ==
  ASSUME IInv, pc # "delete", todo = NothingLeft
  PROVE  UserGrid(grid, inherit)
<1>1. Linked = Here(grid) /\ Misplaced = {} /\ FatherPointersValid
  BY NothingLeftIs DEF Linked, Misplaced, IInv, InheritInv
<1>2. todo.del = {}
  BY NothingLeftIs
<1>3. \E R : Level(grid, Here(grid), R, {})
  BY <1>1 DEF IInv, LevelInv
<1>4. grid \in GridType /\ \A e \in Here(grid) : grid.efather[e] # NULL => grid.efather[e] \in FathersHere(grid)
  BY <1>1 DEF IInv, TypeInv, FatherPointersValid
<1> QED  BY <1>1, <1>2, <1>3, <1>4 DEF IInv, FatherInv, InheritInv, UserGrid

\* The invariant outside of transfers.
StillUser == UserGrid(grid, inherit) /\ inherit \in BOOLEAN /\ pc = "user" /\ todo = NothingLeft

\* And the other way round.
LEMMA StillUserIs == StillUser => IInv
<1> SUFFICES ASSUME StillUser  PROVE IInv
  OBVIOUS
<1> USE DEF StillUser
<1>1. Linked = Here(grid) /\ Misplaced = {}
  BY NothingLeftIs DEF Linked, Misplaced
<1>2. FatherPointersValid
  BY DEF FatherPointersValid, UserGrid
<1>3. TypeInv
  <2>1. NothingLeft = [del |-> NothingLeft.del, prio |-> NothingLeft.prio, demoted |-> NothingLeft.demoted,
                       recv |-> NothingLeft.recv, new |-> NothingLeft.new, old |-> NothingLeft.old]
    BY DEF NothingLeft
  <2>2. TodoType
    BY <2>1, NothingLeftIs DEF TodoType
  <2> QED  BY <2>2 DEF TypeInv, UserGrid
<1>4. FatherInv
  BY DEF FatherInv, UserGrid
<1>5. LevelInv
  <2>1. PICK R : Level(grid, Here(grid), R, {})
    BY DEF UserGrid
  <2>2. Listed(grid, Here(grid), R)
    BY <2>1 DEF Level
  <2> QED  BY <1>1, <2>1, <2>2 DEF LevelInv
<1>6. InheritInv
  <2>1. \A e \in Here(grid) : FatherOf[e] # NULL
    BY NoNull, ElementsAssumption DEF Here
  <2> QED  BY <1>1, <1>2, <2>1, NothingLeftIs DEF InheritInv, UserGrid
<1> QED  BY <1>3, <1>4, <1>5, <1>6 DEF IInv

\* The same of the next state.
LEMMA UserGridKeeps ==
  ASSUME UserGrid(grid', inherit'), inherit' \in BOOLEAN, pc' = "user", todo' = NothingLeft
  PROVE  IInv'
<1>1. StillUser'
  BY DEF StillUser
<1>2. StillUser' => IInv'
  BY StillUserIs, PTL
<1> QED  BY <1>1, <1>2

\* The priorities the code names.
LEMMA PriosAre == NoPrio \notin Prios /\ "Master" \in Prios /\ "HGhost" \in Prios
BY DEF NoPrio, Prios

\* A refinement keeps the grid right.
LEMMA RefineIs ==
  ASSUME NEW u, NEW inh, UserGrid(u, inh), NEW f \in Father, u.fprio[f] = "Master", SonsOf(f) \cap Here(u) = {},
         NEW order \in SetToSeqs(SonsOf(f))
  PROVE  UserGrid(CreateElements(u, f, order), inh)
<1> DEFINE S == Here(u)
           v == CreateElements(u, f, order)
<1>1. PICK R : Level(u, S, R, {})
  BY DEF UserGrid
<1>2. u \in GridType /\ S \subseteq Elem /\ FatherRight(u, S) /\ f # NULL
  BY NoNull DEF UserGrid, Here, FatherRight
<1>3. \A e \in SonsOf(f) : e \in Elem /\ FatherOf[e] = f
  BY DEF SonsOf
<1>4. SonsLast(u, S, R, f)
  <2>1. u.son[f][0] # NULL => u.son[f][0] \in S /\ u.efather[u.son[f][0]] = f
    <3>1. 0 \in 0 .. 1
      OBVIOUS
    <3> QED  BY <1>1, <3>1 DEF Level, Family, SonInv, Belongs
  <2>2. u.son[f][0] = NULL
    BY <1>2, <2>1 DEF FatherRight, SonsOf
  <2> QED  BY <2>2 DEF SonsLast
<1>5. PICK N \in SUBSET SonsOf(f) : CreatedSome(v, u, f, N, S)
  BY <1>1, <1>2, <1>4, CreateElementsIs
<1> HIDE DEF v
<1>6. /\ v \in GridType /\ v.fprio = u.fprio
      /\ \A x \in Elem : /\ v.prio[x] = IF x \in N THEN "Master" ELSE u.prio[x]
                         /\ v.efather[x] = IF x \in N THEN f ELSE u.efather[x]
      /\ \E R2 : Level(v, S \cup N, R2, {})
      /\ Counted(u, S) /\ FatherRight(u, S) => Counted(v, S \cup N)
  BY <1>5 DEF CreatedSome
<1>7. Here(v) = S \cup N /\ FathersHere(v) = FathersHere(u)
  BY <1>3, <1>6, PriosAre DEF Here, FathersHere
<1>8. \A e \in Elem : v.efather[e] \in {NULL, FatherOf[e]}
  BY <1>3, <1>6 DEF UserGrid
<1>9. \A e \in Elem \ Here(v) : v.efather[e] = NULL
  BY <1>6, <1>7 DEF UserGrid
<1>10. \A e \in Here(v) : v.efather[e] # NULL => v.efather[e] \in FathersHere(v)
  <2>1. f \in FathersHere(u)
    BY PriosAre DEF FathersHere
  <2>2. \A e \in N : v.efather[e] = f
    BY <1>3, <1>6
  <2>3. \A e \in S \ N : v.efather[e] = u.efather[e]
    BY <1>2, <1>6
  <2>4. \A e \in S : u.efather[e] # NULL => u.efather[e] \in FathersHere(u)
    BY DEF UserGrid
  <2> HIDE DEF S
  <2> QED  BY <1>7, <2>1, <2>2, <2>3, <2>4
<1>11. inh => Counted(v, Here(v)) /\ \A e \in Here(v) : v.efather[e] = FatherOf[e]
  BY <1>2, <1>3, <1>6, <1>7 DEF UserGrid
<1> QED  BY <1>6, <1>7, <1>8, <1>9, <1>10, <1>11 DEF UserGrid, v

\* So does a coarsening.
LEMMA UnrefineIs ==
  ASSUME NEW u, NEW inh, UserGrid(u, inh), NEW f \in Father
  PROVE  UserGrid(DisposeElements(u, GetAllSons(u, f)), inh)
<1> DEFINE S == Here(u)
           q == GetAllSons(u, f)
           v == DisposeElements(u, q)
<1>1. PICK R : Level(u, S, R, {})
  BY DEF UserGrid
<1>2. u \in GridType /\ S \subseteq Elem /\ FatherRight(u, S)
  BY DEF UserGrid, Here, FatherRight
<1>3. q \in Seq(S) /\ \A j, k \in 1 .. Len(q) : j < k => q[j] # q[k]
  BY <1>1, GetAllSonsIs
<1> HIDE DEF q
<1>4. PICK N \in SUBSET S : DisposedSome(v, u, N, S, R)
  BY <1>1, <1>2, <1>3, DisposeElementsIs
<1> HIDE DEF v
<1>5. /\ v \in GridType /\ v.fprio = u.fprio
      /\ \A x \in Elem : /\ v.prio[x] = IF x \in N THEN NoPrio ELSE u.prio[x]
                         /\ v.efather[x] = IF x \in N THEN NULL ELSE u.efather[x]
      /\ Level(v, S \ N, R, {})
      /\ Counted(u, S) /\ FatherRight(u, S) => Counted(v, S \ N)
  BY <1>4 DEF DisposedSome
<1>6. Here(v) = S \ N /\ FathersHere(v) = FathersHere(u)
  BY <1>2, <1>5 DEF Here, FathersHere
<1>7. \A e \in Elem : v.efather[e] \in {NULL, FatherOf[e]}
  BY <1>5 DEF UserGrid
<1>8. \A e \in Elem \ Here(v) : v.efather[e] = NULL
  BY <1>5, <1>6 DEF UserGrid
<1>9. \A e \in Here(v) : v.efather[e] # NULL => v.efather[e] \in FathersHere(v)
  BY <1>2, <1>5, <1>6 DEF UserGrid
<1>10. inh => Counted(v, Here(v)) /\ \A e \in Here(v) : v.efather[e] = FatherOf[e]
  BY <1>2, <1>5, <1>6 DEF UserGrid
<1> QED  BY <1>5, <1>6, <1>7, <1>8, <1>9, <1>10 DEF UserGrid, v, q

\* A handler that changes a priority moves the element to where it belongs.
LEMMA GhostPriorityIs ==
  ASSUME NEW u, NEW inh, UserGrid(u, inh), NEW e \in Here(u), NEW new \in Prios
  PROVE  UserGrid(SetPriority(u, e, new), inh)
<1> DEFINE S == Here(u)
           v == SetPriority(u, e, new)
           P == {}
<1>1. PICK R : Level(u, S, R, P)
  BY DEF UserGrid
<1>2. u \in GridType /\ S \subseteq Elem /\ FatherRight(u, S) /\ u.prio \in [Elem -> Prios \cup {NoPrio}]
  BY GridIs DEF UserGrid, Here, FatherRight
<1>3. PriorityChanged(v, u, e, new, S, P)
  <2> HIDE DEF P, S
  <2> QED  BY <1>1, <1>2, SetPriorityIs DEF S
<1> HIDE DEF v
<1>4. /\ v \in GridType
      /\ v.prio = [u.prio EXCEPT ![e] = new] /\ v.efather = u.efather /\ v.fprio = u.fprio
      /\ \E R2 : Level(v, S, R2, {})
      /\ Counted(u, S) => v.nsons = u.nsons
  BY <1>2, <1>3 DEF PriorityChanged
<1>5. Here(v) = S /\ FathersHere(v) = FathersHere(u)
  BY <1>2, <1>4, PriosAre DEF Here, FathersHere
<1>6. Counted(u, S) => Counted(v, S)
  BY <1>4 DEF Counted, SonsIn
<1> QED  BY <1>4, <1>5, <1>6 DEF UserGrid, v

\* The parts of DDD_XferEnd.
LEMMA XferStarts ==
  ASSUME IInv, inherit' = inherit, NEW part \in SUBSET (Elem \cup Father), NEW near \in SUBSET (Elem \cup Father),
         XferGridWithOverlap(part, near)
  PROVE  IInv'
<1> DEFINE needed == part \cup near
           isMaster == {e \in Elem : grid.prio[e] = "Master"}
           arriving == part \ isMaster
           kept == {f \in Father : FoundSons(grid, f) \cap part # {}}
           sent == {f \in Father : \/ f \in needed /\ grid.fprio[f] # "Master"
                                   \/ SonsOf(f) \cap arriving # {}}
           PrioOf(x) == IF x \in part THEN "Master" ELSE "HGhost"
           del == (Here(grid) \ needed) \cup (FathersHere(grid) \ (needed \cup kept))
           prio == [e \in isMaster \cap needed |-> PrioOf(e)]
           demoted == {f \in Father \ part : grid.fprio[f] = "Master"}
           recv == [x \in ((needed \cap Elem) \ isMaster) \cup sent |-> PrioOf(x)]
<1>1. /\ pc = "user" /\ pc' = "delete" /\ grid' = grid
      /\ inherit => Inherited(part, near)
      /\ todo' = [NothingLeft EXCEPT !.del = del, !.prio = prio, !.demoted = demoted, !.recv = recv]
  BY DEF XferGridWithOverlap
<1>2. todo = NothingLeft
  BY <1>1 DEF IInv, TypeInv
<1>3. UserGrid(grid, inherit)
  BY <1>1, <1>2, UserGridIs
<1>4. /\ DOMAIN prio = isMaster \cap needed /\ DOMAIN recv = ((needed \cap Elem) \ isMaster) \cup sent
      /\ prio \in [isMaster \cap needed -> Prios] /\ recv \in [((needed \cap Elem) \ isMaster) \cup sent -> Prios]
  BY PriosAre
<1> HIDE DEF del, prio, demoted, recv
<1>5. /\ todo'.del = del /\ todo'.prio = prio /\ todo'.demoted = demoted /\ todo'.recv = recv
      /\ todo'.new = {} /\ todo'.old = {}
      /\ todo' = [del |-> del, prio |-> prio, demoted |-> demoted, recv |-> recv, new |-> {}, old |-> {}]
  BY <1>1 DEF NothingLeft
<1>6. /\ Here(grid)' = Here(grid) /\ FathersHere(grid)' = FathersHere(grid) /\ Linked' = Here(grid) /\ Misplaced' = {}
      /\ FatherPointersValid'
  BY <1>1, <1>3, <1>5 DEF Linked, Misplaced, Here, FathersHere, FatherPointersValid, UserGrid
<1>7. TypeInv'
  <2>1. todo'.del \subseteq Here(grid) \cup FathersHere(grid)
    BY <1>5 DEF del
  <2>2. isMaster \cap needed \subseteq Here(grid) \ del
    BY PriosAre, ElementsAssumption DEF Here, FathersHere, del
  <2>3. TodoType'
    BY <1>4, <1>5, <1>6, <2>1, <2>2 DEF TodoType
  <2> QED  BY <1>1, <1>3, <1>5, <2>3 DEF TypeInv, UserGrid, IInv
<1>8. FatherInv'
  BY <1>1, <1>3, <1>6 DEF FatherInv, UserGrid
<1>9. LevelInv'
  <2>1. PICK R : Level(grid, Here(grid), R, {})
    BY <1>3 DEF UserGrid
  <2>2. Listed(grid, Here(grid), R)
    BY <2>1 DEF Level
  <2> QED  BY <1>1, <1>6, <2>1, <2>2 DEF LevelInv
<1>10. InheritInv'
  <2> SUFFICES ASSUME inherit
               PROVE  /\ Counted(grid, Here(grid))
                      /\ \A e \in Here(grid) \ del :
                            grid.efather[e] = FatherOf[e] /\ FatherOf[e] \in FathersHere(grid) \ del
                      /\ \A e \in Elem \cap DOMAIN recv :
                            FatherOf[e] \in DOMAIN recv \cup (FathersHere(grid) \ del)
    BY <1>1, <1>5, <1>6 DEF InheritInv
  <2>1. /\ Counted(grid, Here(grid)) /\ \A e \in Here(grid) : grid.efather[e] = FatherOf[e]
        /\ \A e \in Here(grid) : FatherOf[e] \in FathersHere(grid)
    BY <1>3, NoNull, ElementsAssumption DEF UserGrid, Here
  <2>2. \A e \in Elem \cap needed : FatherOf[e] \in needed /\ FatherOf[e] \in Father
    BY <1>1, ElementsAssumption DEF Inherited
  <2>3. \A f \in Father \cap needed : f \notin del
    BY ElementsAssumption DEF del, Here
  <2>4. ASSUME NEW e \in Here(grid) \ del  PROVE FatherOf[e] \in FathersHere(grid) \ del
    <3>1. e \in Elem \cap needed
      BY DEF Here, del
    <3> QED  BY <2>1, <2>2, <2>3, <3>1
  <2>5. ASSUME NEW e \in Elem \cap DOMAIN recv  PROVE FatherOf[e] \in DOMAIN recv \cup (FathersHere(grid) \ del)
    <3>1. e \in Elem \cap needed
      BY <1>4, ElementsAssumption
    <3> DEFINE f == FatherOf[e]
    <3>2. f \in Father \cap needed
      BY <2>2, <3>1
    <3> HIDE DEF f
    <3>3. CASE grid.fprio[f] = "Master"
      BY <2>3, <3>2, <3>3, PriosAre DEF FathersHere, f
    <3>4. CASE grid.fprio[f] # "Master"
      BY <1>4, <3>2, <3>4 DEF f
    <3> QED  BY <3>3, <3>4
  <2> QED  BY <2>1, <2>4, <2>5
<1> QED  BY <1>7, <1>8, <1>9, <1>10 DEF IInv

\* What one deletion leaves of the transfer.
LEMMA DeletionsLeft ==
  ASSUME IInv, inherit' = inherit, pc = "delete", pc' = "delete", FatherPointersValid, NEW x \in todo.del,
         todo' = [todo EXCEPT !.del = @ \ {x}],
         grid' \in GridType, FatherInv',
         Here(grid') = Here(grid) \ {x}, FathersHere(grid') = FathersHere(grid) \ {x},
         \A e \in Here(grid) \ {x} : grid'.efather[e] = grid.efather[e]
                                     \/ (grid.efather[e] = x /\ grid'.efather[e] = NULL),
         \E R : /\ Listed(grid', Here(grid'), R)
                /\ (\A e \in Here(grid') : grid'.efather[e] # x) => Level(grid', Here(grid'), R, {}),
         inherit => Counted(grid', Here(grid')) /\ \A e \in Here(grid') : grid'.efather[e] # x
  PROVE  IInv'
<1>1. TypeInv /\ FatherInv /\ InheritInv /\ todo.new = {} /\ todo.old = {}
  BY DEF IInv, TypeInv
<1>2. /\ todo'.del = todo.del \ {x} /\ todo'.prio = todo.prio /\ todo'.demoted = todo.demoted
      /\ todo'.recv = todo.recv /\ todo'.new = {} /\ todo'.old = {}
      /\ todo' = [del |-> todo'.del, prio |-> todo'.prio, demoted |-> todo'.demoted,
                  recv |-> todo'.recv, new |-> todo'.new, old |-> todo'.old]
  <2>1. todo = [del |-> todo.del, prio |-> todo.prio, demoted |-> todo.demoted,
                recv |-> todo.recv, new |-> todo.new, old |-> todo.old]
    BY <1>1 DEF TypeInv, TodoType
  <2> QED  BY <1>1, <2>1
<1>3. /\ Here(grid)' = Here(grid) \ {x} /\ FathersHere(grid)' = FathersHere(grid) \ {x}
      /\ Linked' = Here(grid') /\ Misplaced' = {} /\ Here(grid)' = Here(grid') /\ FathersHere(grid)' = FathersHere(grid')
  <2>1. Here(grid)' = Here(grid') /\ FathersHere(grid)' = FathersHere(grid')
    BY DEF Here, FathersHere
  <2> QED  BY <1>2, <2>1 DEF Linked, Misplaced
<1>4. TypeInv'
  <2>1. TodoType'
    BY <1>1, <1>2, <1>3 DEF TypeInv, TodoType
  <2> QED  BY <1>1, <1>2, <2>1 DEF TypeInv
<1>5. \A e \in Here(grid) : grid.efather[e] # NULL => grid.efather[e] \in FathersHere(grid)
  BY DEF FatherPointersValid
<1>6. FatherPointersValid' <=> \A e \in Here(grid') : grid'.efather[e] # x
  <2>1. FatherPointersValid' <=> \A e \in Here(grid') : grid'.efather[e] # NULL => grid'.efather[e] \in FathersHere(grid) \ {x}
    BY <1>3 DEF FatherPointersValid
  <2>2. x # NULL
    BY <1>1, NoNull DEF TypeInv, TodoType, Here, FathersHere
  <2>3. \A e \in Here(grid') : e \in Here(grid) \ {x}
    OBVIOUS
  <2> QED  BY <1>5, <2>1, <2>2, <2>3
<1>7. LevelInv'
  BY <1>3, <1>6 DEF LevelInv
<1>8. InheritInv'
  <2>1. ASSUME inherit
        PROVE  /\ Counted(grid', Here(grid')) /\ FatherPointersValid'
               /\ \A e \in Here(grid') \ todo'.del :
                     grid'.efather[e] = FatherOf[e] /\ FatherOf[e] \in FathersHere(grid') \ todo'.del
               /\ \A e \in Elem \cap DOMAIN todo.recv :
                     FatherOf[e] \in DOMAIN todo.recv \cup (FathersHere(grid') \ todo'.del)
    <3>1. /\ \A e \in Here(grid) \ todo.del :
                grid.efather[e] = FatherOf[e] /\ FatherOf[e] \in FathersHere(grid) \ todo.del
          /\ \A e \in Elem \cap DOMAIN todo.recv :
                FatherOf[e] \in DOMAIN todo.recv \cup (FathersHere(grid) \ todo.del)
      BY <1>1, <2>1 DEF InheritInv
    <3>2. Here(grid') \ todo'.del = Here(grid) \ todo.del /\ FathersHere(grid') \ todo'.del = FathersHere(grid) \ todo.del
      BY <1>2
    <3>3. \A e \in Here(grid) \ todo.del : grid'.efather[e] = grid.efather[e]
      BY <3>1
    <3> QED  BY <1>6, <2>1, <3>1, <3>2, <3>3
  <2> QED  BY <1>2, <1>3, <2>1 DEF InheritInv
<1> QED  BY <1>4, <1>7, <1>8 DEF IInv

\* Deleting copies keeps the invariant (handler.cc, ElementDelete).
LEMMA ElementDeleteKeeps ==
  ASSUME IInv, FatherPointersValid, inherit' = inherit, NEW x \in Elem \cup Father, ElementDelete(x)
  PROVE  IInv'
<1> DEFINE S == Here(grid)
<1>1. /\ pc = "delete" /\ pc' = "delete" /\ x \in todo.del
      /\ grid' = IF x \in Elem THEN DisposeElement(grid, x) ELSE DisposeFather(grid, x)
      /\ todo' = [todo EXCEPT !.del = @ \ {x}]
  BY DEF ElementDelete
<1>2. /\ grid \in GridType /\ S \subseteq Elem /\ Linked = S /\ Misplaced = {}
      /\ \A e \in Elem : grid.efather[e] \in {NULL, FatherOf[e]}
      /\ \A e \in Elem \ S : grid.efather[e] = NULL
      /\ inherit => Counted(grid, S)
      /\ todo.del \subseteq S \cup FathersHere(grid)
      /\ todo.new = {}
  BY <1>1 DEF IInv, TypeInv, TodoType, FatherInv, InheritInv, Linked, Misplaced, Here
<1>3. FatherRight(grid, S)
  BY <1>2 DEF FatherRight
<1>4. PICK R : Level(grid, S, R, {})
  BY <1>2 DEF IInv, LevelInv
<1>5. /\ grid.prio \in [Elem -> Prios \cup {NoPrio}] /\ grid.efather \in [Elem -> Father \cup {NULL}]
      /\ grid.fprio \in [Father -> Prios \cup {NoPrio}]
  BY <1>2, GridIs
<1>6. CASE x \in Elem
  <2>1. x \in S /\ x \notin Father
    BY <1>1, <1>2, <1>6, ElementsAssumption DEF FathersHere
  <2>2. Disposed(grid', grid, x, S, R, {})
    <3> HIDE DEF S
    <3> QED  BY <1>1, <1>2, <1>4, <1>6, <2>1, DisposeElementIs
  <2>3. /\ grid' \in GridType
        /\ grid'.prio = [grid.prio EXCEPT ![x] = NoPrio] /\ grid'.efather = [grid.efather EXCEPT ![x] = NULL]
        /\ grid'.fprio = grid.fprio
        /\ Level(grid', S \ {x}, R, {})
        /\ inherit => Counted(grid', S \ {x})
    BY <1>2, <1>3, <2>2 DEF Disposed
  <2>4. Here(grid') = S \ {x} /\ FathersHere(grid') = FathersHere(grid) \ {x}
    BY <1>5, <2>1, <2>3 DEF Here, FathersHere
  <2>5. \A e \in Elem : grid'.efather[e] = IF e = x THEN NULL ELSE grid.efather[e]
    BY <1>5, <2>3
  <2>6. FatherInv'
    <3>1. Here(grid)' = Here(grid')
      BY DEF Here
    <3> QED  BY <1>2, <2>4, <2>5, <3>1 DEF FatherInv
  <2>7. \A e \in Here(grid') : grid'.efather[e] # x
    BY <1>2, <1>5, <2>1, <2>4, <2>5, NoNull
  <2>8. \A e \in S \ {x} : grid'.efather[e] = grid.efather[e]
    BY <1>2, <2>5
  <2>9. \E R2 : /\ Listed(grid', Here(grid'), R2)
                /\ (\A e \in Here(grid') : grid'.efather[e] # x) => Level(grid', Here(grid'), R2, {})
    BY <2>3, <2>4 DEF Level
  <2>10. inherit => Counted(grid', Here(grid')) /\ \A e \in Here(grid') : grid'.efather[e] # x
    BY <2>3, <2>4, <2>7
  <2> QED  BY <1>1, <2>3, <2>4, <2>6, <2>8, <2>9, <2>10, DeletionsLeft
<1>7. CASE x \notin Elem
  <2>1. x \in Father /\ x \in FathersHere(grid)
    BY <1>1, <1>2, <1>7
  <2>2. FatherDisposed(grid', grid, x, S, R)
    <3> HIDE DEF S
    <3> QED  BY <1>1, <1>2, <1>4, <1>7, <2>1, DisposeFatherIs
  <2>3. /\ grid' \in GridType
        /\ grid'.prio = grid.prio /\ grid'.fprio = [grid.fprio EXCEPT ![x] = NoPrio]
        /\ \A y \in Elem : grid'.efather[y] = grid.efather[y] \/ (grid.efather[y] = x /\ grid'.efather[y] = NULL)
        /\ Listed(grid', S, R)
        /\ (\A y \in S : grid'.efather[y] # x) => Level(grid', S, R, {})
        /\ inherit => Counted(grid', S) /\ \A y \in S : grid'.efather[y] # x
    BY <1>2, <2>2 DEF FatherDisposed
  <2>4. Here(grid') = S /\ Here(grid') = S \ {x} /\ FathersHere(grid') = FathersHere(grid) \ {x}
    BY <1>2, <1>5, <1>7, <2>1, <2>3 DEF Here, FathersHere
  <2>5. FatherInv'
    <3>1. Here(grid)' = Here(grid')
      BY DEF Here
    <3> QED  BY <1>2, <2>3, <2>4, <3>1 DEF FatherInv
  <2>6. \A e \in S \ {x} : grid'.efather[e] = grid.efather[e] \/ (grid.efather[e] = x /\ grid'.efather[e] = NULL)
    BY <1>2, <2>3
  <2>7. \E R2 : /\ Listed(grid', Here(grid'), R2)
                /\ (\A e \in Here(grid') : grid'.efather[e] # x) => Level(grid', Here(grid'), R2, {})
    BY <2>3, <2>4
  <2>8. inherit => Counted(grid', Here(grid')) /\ \A e \in Here(grid') : grid'.efather[e] # x
    BY <2>3, <2>4
  <2> QED  BY <1>1, <2>3, <2>4, <2>5, <2>6, <2>7, <2>8, DeletionsLeft
<1> QED  BY <1>6, <1>7

\* The fields of todo after an assignment to some of them.
LEMMA TodoIs ==
  ASSUME TypeInv
  PROVE  /\ todo = [del |-> todo.del, prio |-> todo.prio, demoted |-> todo.demoted,
                    recv |-> todo.recv, new |-> todo.new, old |-> todo.old]
         /\ pc \in {"user", "delete", "unpack"}
         /\ pc = "unpack" => todo.del = {} /\ todo.demoted = {} /\ todo.recv = <<>> /\ DOMAIN todo.prio \subseteq todo.old
         /\ pc # "unpack" => todo.new = {} /\ todo.old = {}
<1>1. ASSUME pc = "unpack"
      PROVE  todo.del = {} /\ todo.demoted = {} /\ todo.recv = <<>> /\ DOMAIN todo.prio \subseteq todo.old
  <2>1. todo = [NothingLeft EXCEPT !.prio = todo.prio, !.new = todo.new, !.old = todo.old]
        /\ DOMAIN todo.prio \subseteq todo.old
    BY <1>1 DEF TypeInv
  <2> DEFINE p == todo.prio
             n == todo.new
             o == todo.old
  <2>2. todo = [NothingLeft EXCEPT !.prio = p, !.new = n, !.old = o]
    BY <2>1
  <2> HIDE DEF p, n, o
  <2>3. todo.del = {} /\ todo.demoted = {} /\ todo.recv = <<>>
    BY <2>2 DEF NothingLeft
  <2> QED  BY <2>1, <2>3
<1>2. pc # "unpack" => todo.new = {} /\ todo.old = {}
  BY NothingLeftIs DEF TypeInv
<1> QED  BY <1>1, <1>2 DEF TypeInv, TodoType

\* NothingLeft but for the handlers.
LEMMA UnpackingIs ==
  ASSUME NEW t, NEW p, NEW n, NEW o
  PROVE  t = [NothingLeft EXCEPT !.prio = p, !.new = n, !.old = o]
            <=> t = [del |-> {}, prio |-> p, demoted |-> {}, recv |-> <<>>, new |-> n, old |-> o]
<1> DEFINE none == <<>>
           x == [del |-> {}, prio |-> none, demoted |-> {}, recv |-> none, new |-> {}, old |-> {}]
<1>1. NothingLeft = x
  BY DEF NothingLeft
<1> HIDE DEF none
<1>2. x = [del |-> {}, prio |-> none, demoted |-> {}, recv |-> none, new |-> {}, old |-> {}]
  OBVIOUS
<1> HIDE DEF x
<1> DEFINE y == [x EXCEPT !.prio = p, !.new = n, !.old = o]
<1>3. y = [x EXCEPT !.prio = p, !.new = n, !.old = o]
  OBVIOUS
<1> HIDE DEF y
<1>4. y = [del |-> {}, prio |-> p, demoted |-> {}, recv |-> none, new |-> n, old |-> o]
  BY <1>2, <1>3
<1> QED  BY <1>1, <1>3, <1>4 DEF none

\* Its fields.
LEMMA UnpackingFields ==
  ASSUME NEW t, NEW p, NEW n, NEW o, NEW none,
         t = [del |-> {}, prio |-> p, demoted |-> {}, recv |-> none, new |-> n, old |-> o]
  PROVE  /\ t.del = {} /\ t.prio = p /\ t.demoted = {} /\ t.recv = none /\ t.new = n /\ t.old = o
         /\ t = [del |-> t.del, prio |-> t.prio, demoted |-> t.demoted, recv |-> t.recv, new |-> t.new, old |-> t.old]
OBVIOUS

\* TypeInv again while the handlers run.
LEMMA UnpackType ==
  ASSUME inherit' \in BOOLEAN, grid' \in GridType, pc' = "unpack",
         NEW prio, NEW new, NEW old,
         todo' = [NothingLeft EXCEPT !.prio = prio, !.new = new, !.old = old],
         prio \in [DOMAIN prio -> Prios], DOMAIN prio \subseteq old,
         new \subseteq Here(grid'), old \subseteq Here(grid') \ new
  PROVE  /\ TypeInv' /\ todo'.del = {} /\ todo'.recv = <<>>
         /\ todo'.prio = prio /\ todo'.new = new /\ todo'.old = old
<1>1. todo' = [del |-> {}, prio |-> prio, demoted |-> {}, recv |-> <<>>, new |-> new, old |-> old]
  BY UnpackingIs
<1>2. Here(grid)' = Here(grid')
  BY DEF Here
<1>3. /\ todo'.del = {} /\ todo'.recv = <<>> /\ todo'.demoted = {}
      /\ todo'.prio = prio /\ todo'.new = new /\ todo'.old = old
      /\ todo' = [del |-> todo'.del, prio |-> todo'.prio, demoted |-> todo'.demoted,
                  recv |-> todo'.recv, new |-> todo'.new, old |-> todo'.old]
  <2> DEFINE none == <<>>
             t == todo'
  <2>1. t = [del |-> {}, prio |-> prio, demoted |-> {}, recv |-> none, new |-> new, old |-> old]
    BY <1>1
  <2> HIDE DEF none, t
  <2>2. /\ t.del = {} /\ t.prio = prio /\ t.demoted = {} /\ t.recv = none /\ t.new = new /\ t.old = old
        /\ t = [del |-> t.del, prio |-> t.prio, demoted |-> t.demoted, recv |-> t.recv, new |-> t.new, old |-> t.old]
    BY <2>1, UnpackingFields
  <2> QED  BY <2>2 DEF none, t
<1>4. TodoType'
  <2> DEFINE none == <<>>
  <2>1. DOMAIN none = {} /\ none \in [DOMAIN none -> Prios]
    BY NothingLeftIs
  <2>2. todo'.recv = none
    BY <1>3
  <2> HIDE DEF none
  <2>3. todo'.recv \in [DOMAIN todo'.recv -> Prios] /\ DOMAIN todo'.recv \subseteq Elem \cup Father
    BY <2>1, <2>2
  <2>4. todo'.prio \in [DOMAIN todo'.prio -> Prios] /\ DOMAIN todo'.prio \subseteq Here(grid') \ todo'.del
    BY <1>3
  <2>5. /\ todo'.del \subseteq Here(grid') \cup FathersHere(grid)'
        /\ todo'.new \subseteq Here(grid') /\ todo'.old \subseteq Here(grid') \ todo'.new
    BY <1>3
  <2>6. todo' = [del |-> todo'.del, prio |-> todo'.prio, demoted |-> todo'.demoted,
                 recv |-> todo'.recv, new |-> todo'.new, old |-> todo'.old]
    BY <1>3
  <2> QED  BY <1>2, <2>3, <2>4, <2>5, <2>6 DEF TodoType
<1>5. TypeInv'
  BY <1>3, <1>4 DEF TypeInv
<1> QED  BY <1>3, <1>5

\* Calling the priority handlers in any order keeps the invariant.
LEMMA CallHandlerKeeps ==
  ASSUME IInv, FatherPointersValid, inherit' = inherit, NEW e \in Elem, CallHandler(e)
  PROVE  IInv'
<1> DEFINE S == Linked
           P == Misplaced
           new == todo.prio[e]
           prio == [x \in DOMAIN todo.prio \ {e} |-> todo.prio[x]]
<1>1. /\ e \in DOMAIN todo.prio /\ pc' = pc
      /\ grid' = SetPriority(grid, e, new)
      /\ todo' = [todo EXCEPT !.prio = prio]
  BY DEF CallHandler
<1>2. /\ TypeInv /\ FatherInv /\ InheritInv /\ TodoType /\ grid \in GridType
      /\ todo = [del |-> todo.del, prio |-> todo.prio, demoted |-> todo.demoted,
                 recv |-> todo.recv, new |-> todo.new, old |-> todo.old]
      /\ pc \in {"delete", "unpack"}
      /\ pc = "unpack" => todo.del = {} /\ todo.recv = <<>> /\ DOMAIN todo.prio \subseteq todo.old
      /\ pc # "unpack" => todo.new = {} /\ todo.old = {}
      /\ (pc = "unpack" => todo = [NothingLeft EXCEPT !.prio = todo.prio, !.new = todo.new, !.old = todo.old])
  <2>1. pc # "user"
    BY <1>1, NothingLeftIs DEF IInv, TypeInv
  <2> QED  BY <2>1, TodoIs DEF IInv, TypeInv
<1>3. e \in S /\ new \in Prios /\ S \subseteq Elem
  BY <1>1, <1>2 DEF TodoType, Linked, Here
<1>4. DOMAIN prio = DOMAIN todo.prio \ {e} /\ prio \in [DOMAIN prio -> Prios]
  BY <1>2 DEF TodoType
<1> HIDE DEF prio
<1>5. /\ todo'.del = todo.del /\ todo'.prio = prio /\ todo'.recv = todo.recv
      /\ todo'.demoted = todo.demoted /\ todo'.new = todo.new /\ todo'.old = todo.old
      /\ todo' = [del |-> todo'.del, prio |-> todo'.prio, demoted |-> todo'.demoted,
                  recv |-> todo'.recv, new |-> todo'.new, old |-> todo'.old]
  BY <1>1, <1>2
<1>6. PICK R : Level(grid, S, R, P)
  BY DEF IInv, LevelInv
<1>7. PriorityChanged(grid', grid, e, new, S, P)
  <2> HIDE DEF S, P, new
  <2> QED  BY <1>1, <1>2, <1>3, <1>6, SetPriorityIs
<1>8. FatherRight(grid, S)
  BY <1>2, <1>3 DEF FatherInv, FatherRight
<1> HIDE DEF new
<1>9. /\ grid' \in GridType
      /\ grid'.prio = [grid.prio EXCEPT ![e] = new] /\ grid'.efather = grid.efather /\ grid'.fprio = grid.fprio
      /\ \E R2 : Level(grid', S, R2, P \ {e})
      /\ inherit => grid'.nsons = grid.nsons
  <2>1. inherit => P = {} /\ Counted(grid, S)
    BY <1>2 DEF Misplaced, InheritInv
  <2> HIDE DEF S, P
  <2> QED  BY <1>7, <1>8, <2>1 DEF PriorityChanged
<1>10. /\ Here(grid') = Here(grid) /\ FathersHere(grid') = FathersHere(grid)
       /\ Here(grid)' = Here(grid') /\ FathersHere(grid)' = FathersHere(grid')
  <2>1. grid.prio \in [Elem -> Prios \cup {NoPrio}] /\ e \in Here(grid)
    BY <1>2, <1>3, GridIs DEF Linked
  <2> QED  BY <1>3, <1>9, <2>1, PriosAre DEF Here, FathersHere
<1>11. Linked' = S /\ Misplaced' = P \ {e}
  <2>1. Misplaced' = IF pc = "unpack" /\ ~inherit THEN DOMAIN prio ELSE {}
    BY <1>1, <1>5 DEF Misplaced
  <2> QED  BY <1>4, <1>5, <1>10, <2>1 DEF Linked, Misplaced
<1>12. FatherPointersValid'
  BY <1>9, <1>10 DEF FatherPointersValid
<1>13. TypeInv'
  <2>1. TodoType'
    BY <1>2, <1>4, <1>5, <1>10 DEF TodoType
  <2>2. CASE pc = "delete"
    BY <1>1, <1>2, <1>5, <1>9, <2>1, <2>2 DEF TypeInv
  <2>3. CASE pc = "unpack"
    <3>1. todo' = [NothingLeft EXCEPT !.prio = todo'.prio, !.new = todo'.new, !.old = todo'.old]
      <4>1. todo.del = {} /\ todo.recv = <<>> /\ todo.demoted = {}
        BY <1>2, <2>3, TodoIs
      <4>2. todo' = [del |-> {}, prio |-> todo'.prio, demoted |-> {}, recv |-> <<>>, new |-> todo'.new, old |-> todo'.old]
        BY <1>5, <4>1
      <4> QED  BY <4>2, UnpackingIs
    <3>2. DOMAIN todo'.prio \subseteq todo'.old
      BY <1>2, <1>4, <1>5, <2>3
    <3> QED  BY <1>1, <1>2, <1>9, <2>1, <2>3, <3>1, <3>2 DEF TypeInv
  <2> QED  BY <1>2, <2>2, <2>3
<1>14. FatherInv'
  BY <1>2, <1>9, <1>10 DEF FatherInv
<1>15. LevelInv'
  <2>1. PICK R2 : Level(grid', S, R2, P \ {e})
    BY <1>9
  <2>2. Listed(grid', S, R2)
    BY <2>1 DEF Level
  <2> HIDE DEF S, P
  <2> QED  BY <1>11, <2>1, <2>2 DEF LevelInv
<1>16. InheritInv'
  <2>1. inherit => Counted(grid', S)
    BY <1>2, <1>9 DEF InheritInv, Counted, SonsIn
  <2> HIDE DEF S
  <2> QED  BY <1>2, <1>5, <1>9, <1>10, <1>11, <1>12, <2>1 DEF InheritInv
<1> QED  BY <1>13, <1>14, <1>15, <1>16 DEF IInv

\* So does calling the handlers that make objects consistent.
LEMMA CallObjMkConsKeeps ==
  ASSUME IInv, FatherPointersValid, inherit' = inherit, NEW e \in Elem, CallObjMkConsHandler(e)
  PROVE  IInv'
<1> DEFINE S == Linked
           isNew == e \in todo.new
           new == todo.new \ {e}
           old == todo.old \ {e}
<1>1. /\ pc = "unpack" /\ pc' = "unpack" /\ DOMAIN todo.prio = {}
      /\ e \in IF todo.new # {} THEN todo.new ELSE todo.old
      /\ grid' = ElementObjMkCons(grid, e, isNew)
      /\ todo' = [todo EXCEPT !.new = new, !.old = old]
  BY DEF CallObjMkConsHandler
<1>2. /\ TypeInv /\ FatherInv /\ InheritInv /\ TodoType /\ grid \in GridType /\ Misplaced = {}
      /\ todo = [del |-> todo.del, prio |-> todo.prio, demoted |-> todo.demoted,
                 recv |-> todo.recv, new |-> todo.new, old |-> todo.old]
      /\ todo.del = {} /\ todo.recv = <<>> /\ todo.demoted = {}
  BY <1>1, TodoIs DEF IInv, TypeInv, Misplaced
<1>3. /\ S \subseteq Elem /\ todo.new \subseteq Here(grid) /\ todo.old \subseteq Here(grid) \ todo.new
      /\ Here(grid) \subseteq Elem /\ S = Here(grid) \ todo.new
  BY <1>2 DEF TodoType, Linked, Here
<1>4. PICK R : Level(grid, S, R, {})
  BY <1>2 DEF IInv, LevelInv
<1>5. FatherRight(grid, S \cup {e})
  BY <1>2, <1>3 DEF FatherInv, FatherRight
<1>6. /\ grid' \in GridType
      /\ grid'.prio = grid.prio /\ grid'.efather = grid.efather /\ grid'.fprio = grid.fprio
      /\ \E R2 : Level(grid', Here(grid) \ new, R2, {})
      /\ inherit => Counted(grid', Here(grid) \ new)
  <2>1. CASE isNew
    <3>1. e \notin S /\ grid.prio[e] \in Prios /\ S \cup {e} = Here(grid) \ new
      BY <1>2, <1>3, <2>1, GridIs DEF Here
    <3>2. NewLinked(grid', grid, e, S)
      <4>1. grid' = ElementObjMkCons(grid, e, TRUE)
        BY <1>1, <2>1
      <4> HIDE DEF S
      <4> QED  BY <1>2, <1>4, <3>1, <4>1, NewObjectIs
    <3>3. inherit => Counted(grid, S)
      BY <1>2 DEF InheritInv
    <3> HIDE DEF S
    <3> QED  BY <1>5, <3>1, <3>2, <3>3 DEF NewLinked
  <2>2. CASE ~isNew
    <3>1. e \in S /\ S = Here(grid) \ new
      BY <1>1, <1>3, <2>2
    <3>2. OldLinked(grid', grid, S)
      <4>1. grid' = ElementObjMkCons(grid, e, FALSE)
        <5>1. isNew = FALSE
          BY <2>2
        <5> HIDE DEF isNew
        <5> QED  BY <1>1, <5>1
      <4> HIDE DEF S
      <4> QED  BY <1>2, <1>4, <3>1, <4>1, OldObjectIs
    <3>3. inherit => Counted(grid, S)
      BY <1>2 DEF InheritInv
    <3> HIDE DEF S
    <3> QED  BY <3>1, <3>2, <3>3 DEF OldLinked
  <2> QED  BY <2>1, <2>2
<1>7. /\ Here(grid') = Here(grid) /\ FathersHere(grid') = FathersHere(grid)
      /\ Here(grid)' = Here(grid') /\ FathersHere(grid)' = FathersHere(grid')
  BY <1>6 DEF Here, FathersHere
<1> DEFINE none == todo.prio
<1>8. todo' = [NothingLeft EXCEPT !.prio = none, !.new = new, !.old = old] /\ DOMAIN none = {} /\ none \in [DOMAIN none -> Prios]
  <2>1. DOMAIN none = {} /\ none \in [DOMAIN none -> Prios]
    BY <1>1, <1>2 DEF TodoType
  <2> DEFINE nix == <<>>
  <2> HIDE DEF none, new, old, nix
  <2>2. todo = [del |-> {}, prio |-> none, demoted |-> {}, recv |-> nix, new |-> todo.new, old |-> todo.old]
    BY <1>2 DEF none, nix
  <2>3. todo' = [del |-> {}, prio |-> none, demoted |-> {}, recv |-> nix, new |-> new, old |-> old]
    <3> DEFINE a == todo.new
               b == todo.old
               t == todo
               t2 == todo'
    <3>1. t = [del |-> {}, prio |-> none, demoted |-> {}, recv |-> nix, new |-> a, old |-> b]
      BY <2>2
    <3>2. t2 = [t EXCEPT !.new = new, !.old = old]
      BY <1>1
    <3> HIDE DEF a, b, t, t2
    <3>3. t2 = [del |-> {}, prio |-> none, demoted |-> {}, recv |-> nix, new |-> new, old |-> old]
      BY <3>1, <3>2
    <3> QED  BY <3>3 DEF t2
  <2> QED  BY <2>1, <2>3, UnpackingIs DEF nix
<1>9. new \subseteq Here(grid') /\ old \subseteq Here(grid') \ new
  BY <1>3, <1>7
<1> HIDE DEF none, new, old
<1>10. /\ TypeInv' /\ todo'.del = {} /\ todo'.recv = <<>> /\ todo'.prio = none /\ todo'.new = new
  <2>1. inherit' \in BOOLEAN /\ grid' \in GridType /\ pc' = "unpack"
    BY <1>1, <1>2, <1>6 DEF TypeInv
  <2>2. DOMAIN none \subseteq old
    BY <1>8
  <2> QED  BY <1>8, <1>9, <2>1, <2>2, UnpackType
<1>11. Linked' = Here(grid) \ new /\ Misplaced' = {}
  BY <1>7, <1>8, <1>10 DEF Linked, Misplaced
<1>12. FatherPointersValid'
  BY <1>6, <1>7 DEF FatherPointersValid
<1>13. FatherInv'
  BY <1>2, <1>6, <1>7 DEF FatherInv
<1>14. LevelInv'
  <2>1. PICK R2 : Level(grid', Here(grid) \ new, R2, {})
    BY <1>6
  <2>2. Listed(grid', Here(grid) \ new, R2)
    BY <2>1 DEF Level
  <2> QED  BY <1>11, <2>1, <2>2 DEF LevelInv
<1>15. InheritInv'
  BY <1>2, <1>6, <1>7, <1>10, <1>11, <1>12 DEF InheritInv
<1> QED  BY <1>10, <1>13, <1>14, <1>15 DEF IInv

\* Priorities merge to priorities.
LEMMA MergeIs == ASSUME NEW p \in Prios, NEW q \in Prios  PROVE Merge(p, q) \in Prios
BY DEF Merge

\* All objects are stored before the first handler runs: the elements that were
\* here stay in the list, and those whose father has come are misplaced in it.
LEMMA AcceptKeeps ==
  ASSUME IInv, FatherPointersValid, inherit' = inherit, AcceptReceivedObjects
  PROVE  IInv'
<1> DEFINE arrived == DOMAIN todo.recv
           MergedPrio(x, prio) == IF x \notin arrived THEN prio
                                  ELSE IF prio = NoPrio THEN todo.recv[x]
                                  ELSE Merge(todo.recv[x], prio)
           ghosted == todo.demoted \cap FathersHere(grid)
           fprio == [f \in Father |->
                        MergedPrio(f, IF f \in ghosted THEN "HGhost" ELSE grid.fprio[f])]
           new == (arrived \cap Elem) \ Here(grid)
           old == arrived \cap Here(grid)
           prio == [e \in Elem |-> IF e \in new THEN todo.recv[e] ELSE grid.prio[e]]
           efather == [e \in Elem |-> IF e \in arrived /\ grid.efather[e] = NULL /\ fprio[FatherOf[e]] # NoPrio
                                      THEN FatherOf[e] ELSE grid.efather[e]]
           tprio == [e \in old |-> MergedPrio(e, grid.prio[e])]
           S == Here(grid)
           Q == Misplaced'
<1>1. /\ pc = "delete" /\ todo.del = {} /\ DOMAIN todo.prio = {} /\ pc' = "unpack"
      /\ grid' = [grid EXCEPT !.fprio = fprio, !.prio = prio, !.efather = efather]
      /\ todo' = [NothingLeft EXCEPT !.prio = tprio, !.new = new, !.old = old]
  <2>1. /\ pc = "delete" /\ todo.del = {} /\ DOMAIN todo.prio = {} /\ pc' = "unpack"
    BY DEF AcceptReceivedObjects
  <2>2. grid' = [grid EXCEPT !.fprio = fprio, !.prio = prio, !.efather = efather]
    BY DEF AcceptReceivedObjects
  <2>3. todo' = [NothingLeft EXCEPT !.prio = tprio, !.new = new, !.old = old]
    BY DEF AcceptReceivedObjects
  <2> QED  BY <2>1, <2>2, <2>3
<1>2. /\ TypeInv /\ FatherInv /\ InheritInv /\ grid \in GridType /\ todo.new = {}
      /\ todo.recv \in [arrived -> Prios] /\ arrived \subseteq Elem \cup Father /\ S \subseteq Elem
      /\ Linked = S /\ Misplaced = {}
  BY <1>1, TodoIs DEF IInv, TypeInv, TodoType, Misplaced, Linked, Here
<1>3. /\ IsGrid(grid) /\ grid.list \in ListType /\ grid.prio \in [Elem -> Prios \cup {NoPrio}]
      /\ grid.efather \in [Elem -> Father \cup {NULL}] /\ grid.fprio \in [Father -> Prios \cup {NoPrio}]
      /\ grid.son \in SonType /\ grid.nsons \in [Father -> Int]
  BY <1>2, GridIs
<1>4. ASSUME NEW x, NEW p \in Prios \cup {NoPrio}
      PROVE  MergedPrio(x, p) \in Prios \cup {NoPrio} /\ (MergedPrio(x, p) = NoPrio <=> p = NoPrio /\ x \notin arrived)
  <2>1. x \in arrived => todo.recv[x] \in Prios
    BY <1>2
  <2>2. x \in arrived /\ p # NoPrio => Merge(todo.recv[x], p) \in Prios
    BY <2>1, MergeIs
  <2> QED  BY <2>1, <2>2, PriosAre
<1> HIDE DEF MergedPrio
<1>5. /\ fprio \in [Father -> Prios \cup {NoPrio}]
      /\ \A f \in Father : fprio[f] # NoPrio <=> f \in FathersHere(grid) \/ f \in arrived
  <2>1. \A f \in Father : LET p == IF f \in ghosted THEN "HGhost" ELSE grid.fprio[f]
                          IN  p \in Prios \cup {NoPrio} /\ (p = NoPrio <=> f \notin FathersHere(grid))
    BY <1>3, PriosAre DEF FathersHere
  <2>2. \A f \in Father : fprio[f] = MergedPrio(f, IF f \in ghosted THEN "HGhost" ELSE grid.fprio[f])
    OBVIOUS
  <2> HIDE DEF ghosted
  <2>3. fprio \in [Father -> Prios \cup {NoPrio}]
    BY <1>4, <2>1
  <2> HIDE DEF fprio
  <2> QED  BY <1>4, <2>1, <2>2, <2>3
<1>6. /\ prio \in [Elem -> Prios \cup {NoPrio}]
      /\ \A e \in Elem : prio[e] # NoPrio <=> e \in S \/ e \in new
      /\ \A e \in S : prio[e] = grid.prio[e]
  BY <1>2, <1>3, PriosAre DEF Here
<1>7. /\ DOMAIN tprio = old /\ tprio \in [old -> Prios]
  <2>1. \A e \in old : MergedPrio(e, grid.prio[e]) \in Prios
    BY <1>2, <1>3, <1>4 DEF Here
  <2> QED  BY <2>1
<1>8. /\ efather \in [Elem -> Father \cup {NULL}]
      /\ \A e \in Elem : efather[e] = IF e \in arrived /\ grid.efather[e] = NULL /\ fprio[FatherOf[e]] # NoPrio
                                      THEN FatherOf[e] ELSE grid.efather[e]
  BY <1>3, ElementsAssumption
<1> HIDE DEF fprio, prio, efather, tprio, new, old
<1>9. /\ grid'.list = grid.list /\ grid'.prio = prio /\ grid'.efather = efather /\ grid'.fprio = fprio
      /\ grid'.son = grid.son /\ grid'.nsons = grid.nsons /\ IsGrid(grid')
  BY <1>1, <1>3 DEF IsGrid
<1>10. grid' \in GridType
  BY <1>3, <1>5, <1>6, <1>8, <1>9, IsGridType
<1>11. /\ Here(grid') = S \cup new /\ \A f \in Father : f \in FathersHere(grid') <=> f \in FathersHere(grid) \/ f \in arrived
       /\ Here(grid)' = Here(grid') /\ FathersHere(grid)' = FathersHere(grid')
  <2>1. new \subseteq Elem
    BY DEF new
  <2>2. Here(grid') = {e \in Elem : prio[e] # NoPrio} /\ FathersHere(grid') = {f \in Father : fprio[f] # NoPrio}
    BY <1>9 DEF Here, FathersHere
  <2>3. Here(grid') = S \cup new
    BY <1>2, <1>6, <2>1, <2>2
  <2>4. Here(grid)' = Here(grid') /\ FathersHere(grid)' = FathersHere(grid')
    BY DEF Here, FathersHere
  <2> QED  BY <1>5, <2>2, <2>3, <2>4
<1>12. /\ TypeInv' /\ todo'.del = {} /\ todo'.recv = <<>> /\ todo'.prio = tprio /\ todo'.new = new /\ todo'.old = old
  <2>1. inherit' \in BOOLEAN /\ new \subseteq Here(grid') /\ old \subseteq Here(grid') \ new
    BY <1>2, <1>11 DEF TypeInv, new, old
  <2>2. tprio \in [DOMAIN tprio -> Prios] /\ DOMAIN tprio \subseteq old
    BY <1>7
  <2> QED  BY <1>1, <1>10, <2>1, <2>2, UnpackType
<1>13. Linked' = S /\ Q = IF inherit THEN {} ELSE old
  <2>1. S \cap new = {}
    BY DEF new
  <2> QED  BY <1>1, <1>7, <1>11, <1>12, <2>1 DEF Linked, Misplaced
<1>14. \A e \in Elem : grid.efather[e] \in {NULL, FatherOf[e]} /\ (e \notin S => grid.efather[e] = NULL)
  BY <1>2 DEF FatherInv
<1>15. FatherInv'
  <2>1. \A e \in Elem : efather[e] \in {NULL, FatherOf[e]}
    BY <1>8, <1>14
  <2>2. \A e \in Elem \ (S \cup new) : e \notin arrived
    BY DEF new
  <2>3. \A e \in Elem \ (S \cup new) : efather[e] = NULL
    BY <1>8, <1>14, <2>2
  <2> QED  BY <1>9, <1>11, <2>1, <2>3 DEF FatherInv
<1>16. FatherPointersValid'
  <2>1. \A e \in S : grid.efather[e] # NULL => grid.efather[e] \in FathersHere(grid)
    BY DEF FatherPointersValid
  <2> SUFFICES ASSUME NEW e \in Here(grid'), efather[e] # NULL  PROVE efather[e] \in FathersHere(grid')
    BY <1>9, <1>11 DEF FatherPointersValid
  <2>2. e \in Elem /\ FatherOf[e] \in Father
    BY ElementsAssumption DEF Here
  <2>3. CASE efather[e] = grid.efather[e]
    <3>1. e \in S /\ grid.efather[e] \in FathersHere(grid)
      BY <1>14, <2>1, <2>2, <2>3
    <3>2. grid.efather[e] \in Father
      BY <3>1 DEF FathersHere
    <3> QED  BY <1>11, <2>3, <3>1, <3>2
  <2>4. CASE efather[e] # grid.efather[e]
    <3>1. efather[e] = FatherOf[e] /\ fprio[FatherOf[e]] # NoPrio
      BY <1>8, <2>2, <2>4
    <3> QED  BY <1>5, <1>11, <2>2, <3>1
  <2> QED  BY <2>3, <2>4
<1>17. inherit => \A e \in S : grid.efather[e] = FatherOf[e] /\ FatherOf[e] \in FathersHere(grid)
  BY <1>1, <1>2 DEF InheritInv
<1>18. LevelInv'
  <2>1. PICK R : Level(grid, S, R, {})
    BY <1>2 DEF IInv, LevelInv
  <2> DEFINE D == Father
             P == {}
  <2>2. \A x \in S \ Q : efather[x] # NULL => efather[x] \in D /\ grid.efather[x] = efather[x] /\ x \notin P
    <3> TAKE x \in S \ Q
    <3>1. x \in Elem /\ efather[x] \in Father \cup {NULL}
      BY <1>2, <1>8
    <3>2. inherit => efather[x] = grid.efather[x]
      BY <1>8, <1>17, <3>1, NoNull, ElementsAssumption
    <3>3. ~inherit => x \notin arrived
      BY <1>13 DEF old
    <3>4. efather[x] = grid.efather[x]
      BY <1>8, <3>1, <3>2, <3>3
    <3> QED  BY <3>1, <3>4
  <2>3. \A g \in D : \A x \in S : grid.efather[x] = g => efather[x] = g
    BY <1>2, <1>8, NoNull
  <2>4. D \subseteq Father /\ Father \ D = {} /\ \A x \in S : grid'.prio[x] = grid.prio[x]
    BY <1>6, <1>9
  <2>5. Refather(grid', grid, S, P, Q, D)
    <3> HIDE DEF D, P, Q, S
    <3> QED  BY <1>3, <1>8, <1>9, <2>2, <2>3, <2>4 DEF Refather
  <2>6. Level(grid', S, R, Q)
    <3> HIDE DEF D, Q, S
    <3> QED  BY <2>1, <2>5, Refathered
  <2>7. Listed(grid', S, R)
    BY <2>6 DEF Level
  <2> HIDE DEF S, Q
  <2> QED  BY <1>13, <2>6, <2>7 DEF LevelInv, Q
<1>19. InheritInv'
  <2>1. inherit => Counted(grid', S)
    <3>1. ASSUME inherit  PROVE Counted(grid', S)
      <4>1. \A e \in S : efather[e] = grid.efather[e]
        BY <1>2, <1>8, <1>17, <3>1, NoNull, ElementsAssumption
      <4>2. Counted(grid, S)
        BY <1>2, <3>1 DEF InheritInv
      <4>3. \A f : SonsIn(grid', S, f) = SonsIn(grid, S, f)
        BY <1>9, <4>1 DEF SonsIn
      <4> QED  BY <1>9, <4>2, <4>3 DEF Counted
    <3> QED  BY <3>1
  <2>2. ASSUME inherit, NEW e \in Here(grid')
        PROVE  efather[e] = FatherOf[e] /\ FatherOf[e] \in FathersHere(grid')
    <3>1. e \in Elem /\ FatherOf[e] \in Father /\ FatherOf[e] # NULL
      BY NoNull, ElementsAssumption DEF Here
    <3>2. CASE e \in S
      BY <1>8, <1>11, <1>17, <2>2, <3>1, <3>2
    <3>3. CASE e \in new
      <4>1. e \in arrived /\ e \notin S
        BY <3>3 DEF new
      <4>2. FatherOf[e] \in arrived \/ FatherOf[e] \in FathersHere(grid)
        BY <1>2, <2>2, <3>1, <4>1 DEF InheritInv
      <4>3. fprio[FatherOf[e]] # NoPrio
        BY <1>5, <3>1, <4>2
      <4> QED  BY <1>8, <1>11, <1>14, <3>1, <4>1, <4>2, <4>3
    <3> QED  BY <1>11, <3>2, <3>3
  <2>3. DOMAIN todo'.recv = {}
    BY <1>12, NothingLeftIs
  <2> HIDE DEF S
  <2> QED  BY <1>9, <1>11, <1>12, <1>13, <1>16, <2>1, <2>2, <2>3 DEF InheritInv
<1> QED  BY <1>12, <1>15, <1>18, <1>19 DEF IInv

\* The invariant holds in the beginning.
LEMMA InitHolds == Init => IInv
<1> SUFFICES ASSUME Init  PROVE IInv
  OBVIOUS
<1>1. PICK masters \in SUBSET Father :
         grid = [list    |-> EmptyList,
                 prio    |-> [e \in Elem |-> NoPrio],
                 efather |-> [e \in Elem |-> NULL],
                 fprio   |-> [f \in Father |-> IF f \in masters THEN "Master" ELSE NoPrio],
                 son     |-> [f \in Father |-> [i \in 0 .. 1 |-> NULL]],
                 nsons   |-> [f \in Father |-> 0]]
  BY DEF Init
<1>2. /\ grid.list = EmptyList /\ grid.prio = [e \in Elem |-> NoPrio] /\ grid.efather = [e \in Elem |-> NULL]
      /\ grid.fprio = [f \in Father |-> IF f \in masters THEN "Master" ELSE NoPrio]
      /\ grid.son = [f \in Father |-> [i \in 0 .. 1 |-> NULL]]
      /\ grid.nsons = [f \in Father |-> 0] /\ IsGrid(grid)
  <2> DEFINE prio == [e \in Elem |-> NoPrio]
             efather == [e \in Elem |-> NULL]
             fprio == [f \in Father |-> IF f \in masters THEN "Master" ELSE NoPrio]
             son == [f \in Father |-> [i \in 0 .. 1 |-> NULL]]
             nsons == [f \in Father |-> 0]
  <2>1. grid = [list |-> EmptyList, prio |-> prio, efather |-> efather, fprio |-> fprio, son |-> son, nsons |-> nsons]
    BY <1>1
  <2> HIDE DEF prio, efather, fprio, son, nsons
  <2>2. /\ grid.list = EmptyList /\ grid.prio = prio /\ grid.efather = efather /\ grid.fprio = fprio
        /\ grid.son = son /\ grid.nsons = nsons /\ IsGrid(grid)
    BY <2>1 DEF IsGrid
  <2> QED  BY <2>2 DEF prio, efather, fprio, son, nsons
<1>3. Here(grid) = {}
  BY <1>2 DEF Here
<1>4. /\ EmptyList \in ListType
      /\ EmptyList.first[0] = NULL /\ EmptyList.first[1] = NULL /\ EmptyList.last[0] = NULL /\ EmptyList.last[1] = NULL
      /\ EmptyList.count = [p \in Prios |-> 0]
  <2> DEFINE ends == [part \in 0 .. 1 |-> NULL]
             pointers == [e \in Elem |-> NULL]
             count == [p \in Prios |-> 0]
  <2>1. EmptyList = [first |-> ends, last |-> ends, succ |-> pointers, pred |-> pointers, count |-> count]
    BY DEF EmptyList
  <2>2. /\ ends \in [0 .. 1 -> Object] /\ ends[0] = NULL /\ ends[1] = NULL
        /\ pointers \in [Elem -> Object] /\ count \in [Prios -> Int]
    BY DEF Object
  <2> HIDE DEF ends, pointers, count
  <2>3. EmptyList.first = ends /\ EmptyList.last = ends /\ EmptyList.count = count /\ EmptyList \in ListType
    BY <2>1, <2>2 DEF ListType
  <2> QED  BY <2>2, <2>3 DEF count
<1>5. grid \in GridType
  <2>1. /\ grid.prio \in [Elem -> Prios \cup {NoPrio}] /\ grid.efather \in [Elem -> Father \cup {NULL}]
        /\ grid.fprio \in [Father -> Prios \cup {NoPrio}] /\ grid.son \in SonType /\ grid.nsons \in [Father -> Int]
    BY <1>2, PriosAre DEF SonType, Object
  <2> QED  BY <1>2, <1>4, <2>1, IsGridType
<1>6. Level(grid, {}, {}, {})
  <2>1. ListIs(grid.list, {}, {}, {})
    BY <1>2, <1>4 DEF ListIs, Ordered, FirstIn, LastIn
  <2>2. PartOf(grid, {}, 0) = {} /\ PartOf(grid, {}, 1) = {}
    BY DEF PartOf
  <2>3. CountsAre(grid.list.count, grid.prio, {})
    <3>1. \A p : {e \in {} : grid.prio[e] = p} = {}
      OBVIOUS
    <3> QED  BY <1>2, <1>4, <3>1, FS_EmptySet DEF CountsAre
  <2>4. Listed(grid, {}, {})
    BY <1>2, <1>4, <2>1, <2>2, <2>3 DEF Listed
  <2>5. Family(grid, {}, {}, {})
    BY <1>2 DEF Family, SonInv
  <2> QED  BY <1>5, <2>4, <2>5, GridIs DEF Level
<1>7. Counted(grid, {})
  <2>1. \A f : SonsIn(grid, {}, f) = {}
    BY DEF SonsIn
  <2> QED  BY <1>2, <2>1, FS_EmptySet DEF Counted
<1>8. UserGrid(grid, inherit)
  <2>1. \A e \in Elem : grid.efather[e] = NULL
    BY <1>2
  <2> QED  BY <1>3, <1>5, <1>6, <1>7, <2>1 DEF UserGrid
<1> QED  BY <1>8, StillUserIs DEF Init, StillUser

\* Every step keeps the invariant.
LEMMA NextKeeps == IInv /\ [Next]_vars => IInv'
<1> SUFFICES ASSUME IInv, [Next]_vars  PROVE IInv'
  OBVIOUS
<1> DEFINE Same == /\ grid' = grid /\ pc' = pc /\ todo' = todo /\ inherit' = inherit
<1>1. ASSUME Same  PROVE IInv'
  BY <1>1 DEF IInv, TypeInv, TodoType, FatherInv, LevelInv, InheritInv, Misplaced, Linked, Here, FathersHere,
              FatherPointersValid
<1>2. ASSUME pc = "user", NEW v, UserGrid(v, inherit), grid' = v, UNCHANGED <<pc, todo, inherit>>
      PROVE  IInv'
  <2>1. todo = NothingLeft /\ inherit \in BOOLEAN
    BY <1>2 DEF IInv, TypeInv
  <2> QED  BY <1>2, <2>1, UserGridKeeps
<1>3. pc = "user" => UserGrid(grid, inherit)
  BY UserGridIs DEF IInv, TypeInv
<1>4. ASSUME inherit' = inherit, FatherPointersValid, NEW f \in Father, Refine(f)  PROVE IInv'
  <2>1. PICK order \in SetToSeqs(SonsOf(f)) : grid' = CreateElements(grid, f, order)
    BY <1>4 DEF Refine
  <2>2. pc = "user" /\ grid.fprio[f] = "Master" /\ SonsOf(f) \cap Here(grid) = {} /\ UNCHANGED <<pc, todo, inherit>>
    BY <1>4 DEF Refine
  <2>3. UserGrid(grid', inherit')
    BY <1>3, <1>4, <2>1, <2>2, RefineIs
  <2>4. todo' = NothingLeft /\ inherit' \in BOOLEAN /\ pc' = "user"
    BY <1>4, <2>2 DEF IInv, TypeInv
  <2> QED  BY <2>3, <2>4, UserGridKeeps
<1>5. ASSUME inherit' = inherit, FatherPointersValid, NEW f \in Father, Unrefine(f)  PROVE IInv'
  <2>1. pc = "user" /\ grid' = DisposeElements(grid, GetAllSons(grid, f)) /\ UNCHANGED <<pc, todo, inherit>>
    BY <1>5 DEF Unrefine
  <2>2. UserGrid(grid', inherit')
    BY <1>3, <1>5, <2>1, UnrefineIs
  <2>3. todo' = NothingLeft /\ inherit' \in BOOLEAN /\ pc' = "user"
    BY <1>5, <2>1 DEF IInv, TypeInv
  <2> QED  BY <2>2, <2>3, UserGridKeeps
<1>6. ASSUME inherit' = inherit, FatherPointersValid, NEW e \in Elem, NEW new \in {"HGhost", "VHGhost"},
             SetGhostObjectPriorities(e, new)
      PROVE  IInv'
  <2>1. pc = "user" /\ grid.prio[e] # NoPrio /\ grid' = SetPriority(grid, e, new) /\ UNCHANGED <<pc, todo, inherit>>
    BY <1>6 DEF SetGhostObjectPriorities
  <2>2. e \in Here(grid) /\ new \in Prios
    BY <2>1 DEF Here, Prios
  <2>3. UserGrid(grid', inherit')
    BY <1>3, <1>6, <2>1, <2>2, GhostPriorityIs
  <2>4. todo' = NothingLeft /\ inherit' \in BOOLEAN /\ pc' = "user"
    BY <1>6, <2>1 DEF IInv, TypeInv
  <2> QED  BY <2>3, <2>4, UserGridKeeps
<1>7. ASSUME inherit' = inherit, FatherPointersValid, XferEndReturns  PROVE IInv'
  <2>1. pc = "unpack" /\ todo = NothingLeft /\ pc' = "user" /\ UNCHANGED <<grid, todo>>
    BY <1>7 DEF XferEndReturns
  <2>2. UserGrid(grid', inherit')
    BY <1>7, <2>1, UserGridIs
  <2>3. inherit' \in BOOLEAN
    BY <1>7 DEF IInv, TypeInv
  <2> QED  BY <2>1, <2>2, <2>3, UserGridKeeps
<1>8. ASSUME inherit' = inherit, FatherPointersValid, NEW e \in Elem,
             ExecLocalXISetPrio(e) \/ CallSetPriorityHandler(e)
      PROVE  IInv'
  BY <1>8, CallHandlerKeeps DEF ExecLocalXISetPrio, CallSetPriorityHandler
<1>9. CASE UNCHANGED vars
  BY <1>1, <1>9 DEF vars
<1>10. CASE Next
  <2>1. inherit' = inherit
    BY <1>10 DEF Next
  <2>2. CASE FatherPointersValid
    BY <1>4, <1>5, <1>6, <1>7, <1>8, <1>10, <2>1, <2>2, XferStarts, ElementDeleteKeeps, CallObjMkConsKeeps, AcceptKeeps
       DEF Next
  <2>3. CASE ~FatherPointersValid
    BY <1>1, <1>10, <2>1, <2>3 DEF Next
  <2> QED  BY <2>2, <2>3
<1> QED  BY <1>9, <1>10

\* All linking and unlinking by the handlers keeps the list in its two parts,
\* with all counters right.
LEMMA ListsFollow == IInv => ListsInv
<1> SUFFICES ASSUME IInv  PROVE ListsInv
  OBVIOUS
<1>1. PICK R : Listed(grid, Linked, R)
  BY DEF IInv, LevelInv
<1>2. InPart(0) = PartOf(grid, Linked, 0) /\ InPart(1) = PartOf(grid, Linked, 1)
  BY DEF InPart, PartOf
<1>3. \A e \in Linked : Prio2ListPart(grid.prio[e]) \in 0 .. 1
  BY PartIs
<1> QED  BY <1>1, <1>2, <1>3, ListIsInv DEF Listed

\* The invariant implies that the families are right.
LEMMA FamiliesFollow == IInv => FamiliesRight
<1> SUFFICES ASSUME IInv  PROVE FamiliesRight
  OBVIOUS
<1>1. pc = "user" => UserGrid(grid, inherit)
  BY UserGridIs DEF IInv, TypeInv
<1>2. FamilyInv
  <2> SUFFICES ASSUME pc = "user", NEW f \in FathersHere(grid), NEW i \in 0 .. 1
               PROVE  /\ ToSet(SonsAt(grid, f, i)) = {e \in Here(grid) : Belongs(grid, e, f, i)}
                      /\ IsInjective(SonsAt(grid, f, i))
    BY DEF FamilyInv
  <2> DEFINE S == Here(grid)
             q == SonsAt(grid, f, i)
  <2>1. PICK R : Level(grid, S, R, {})
    BY <1>1 DEF UserGrid
  <2>2. f \in Father
    BY DEF FathersHere
  <2>3. IsRun(q, grid, f, i, S, R)
    <3> HIDE DEF S
    <3> QED  BY <2>1, <2>2, ListedIs, SonsAtIs DEF Level, Family
  <2>4. \A x \in S : Belongs(grid, x, f, i) => Attached(grid, x, S, R)
    BY <2>1, <2>2, NoNull DEF Level, Family, Belongs
  <2>5. \A x \in S : ~Before(R, x, x)
    BY <2>1, ListedIs DEF Level, Ordered
  <2> HIDE DEF q, S
  <2>6. q \in Seq(S) /\ Len(q) \in Nat /\ DOMAIN q = 1 .. Len(q) /\ \A k \in 1 .. Len(q) : q[k] \in S
    BY <2>3 DEF IsRun
  <2>7. ToSet(q) = {e \in S : Belongs(grid, e, f, i)}
    BY <2>3, <2>4, <2>6 DEF IsRun, ToSet
  <2>8. \A j, k \in DOMAIN q : q[j] = q[k] => j = k
    <3>1. \A j, k \in 1 .. Len(q) : j < k => q[j] # q[k]
      BY <2>3, <2>5, <2>6 DEF IsRun
    <3>2. \A j, k \in 1 .. Len(q) : j < k \/ k < j \/ j = k
      BY <2>6
    <3> QED  BY <2>6, <3>1, <3>2
  <2> QED  BY <2>7, <2>8 DEF IsInjective, q, S
<1>3. CountsRight
  <2>1. inherit => FatherPointersValid
    BY DEF IInv, InheritInv
  <2>2. ASSUME inherit, pc = "user"
        PROVE  /\ \A e \in Here(grid) : grid.efather[e] = FatherOf[e]
               /\ \A f \in FathersHere(grid) :
                     grid.nsons[f] = Cardinality({e \in Here(grid) : grid.efather[e] = f})
    <3>1. Counted(grid, Here(grid)) /\ \A e \in Here(grid) : grid.efather[e] = FatherOf[e]
      BY <1>1, <2>2 DEF UserGrid
    <3> QED  BY <3>1 DEF Counted, SonsIn, FathersHere
  <2> QED  BY <2>1, <2>2 DEF CountsRight
<1> QED  BY <1>2, <1>3 DEF FamiliesRight

-----------------------------------------------------------------------------
(* The theorems.                                                            *)

\* The inductive invariant holds in every state, for any number of elements,
\* families and sons below NSONS_LIMIT, whatever is created, disposed of,
\* transferred and handled in whichever order.
THEOREM Invariant == Spec => []IInv
<1> QED  BY InitHolds, NextKeeps, PTL DEF Spec

\* Whatever is linked and unlinked, and in whichever order the handlers run, the
\* element list has the ghosts and then the masters, with PRED, SUCC, the ends of
\* the parts and the counters in agreement (dlmgr.t, handler.cc).
THEOREM ListsHold == Spec => []ListsInv
BY Invariant, ListsFollow, PTL

\* After each transfer the elements behind SON are exactly those that point to
\* the father, and with inherited partitions NSONS is their number and no father
\* goes away before its sons (handler.cc, ugm.cc).
THEOREM FamiliesHold == Spec => []FamiliesRight
BY Invariant, FamiliesFollow, PTL
=============================================================================
