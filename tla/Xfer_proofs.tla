----------------------------- MODULE Xfer_proofs -----------------------------
(***************************************************************************)
(* Proofs about Xfer, for any number of processors, objects, commands and   *)
(* transfers.  They concern                                                *)
(*  - the merge of the priorities that arrive for an object,               *)
(*  - the control of XferEnd: that the processors, which synchronize only  *)
(*    by calling LC_Connect equally often, stay in step and that no message *)
(*    is ever in flight to a processor that is not in the phase that takes  *)
(*    it; excluded is the case that an allocation fails while deletions are *)
(*    pruned: PruneXIDelCmd ignores the exception, and Lockstep is false,   *)
(*  - the couplings a transfer leaves, and that it is an atomic one.        *)
(***************************************************************************)
EXTENDS XferRefinement, FiniteSetTheorems, WellFoundedInduction, TLAPS

-----------------------------------------------------------------------------
(* Merging priorities, for any set of priorities (prio.cc).                 *)

(* Storing the lower triangle makes the merge commutative, whatever the      *)
(* matrix: PriorityMerge(p, q) and PriorityMerge(q, p) read the same entry.  *)
THEOREM MergeCommutes ==
    ASSUME NEW p \in Prio, NEW q \in Prio
    PROVE  MergedPrio(p, q) = MergedPrio(q, p)
BY PrioAssumption DEF MergedPrio

(* The merge of two priorities is a priority of the type. *)
LEMMA MergeIsPrio ==
    ASSUME NEW p \in Prio, NEW q \in Prio
    PROVE  MergedPrio(p, q) \in Prio
BY PrioAssumption DEF MergedPrio

LEMMA MaximumMerge ==
    ASSUME PrioMatrix = MaximumMatrix, NEW p \in Prio, NEW q \in Prio
    PROVE  MergedPrio(p, q) = IF q <= p THEN p ELSE q
BY PrioAssumption DEF MergedPrio, MaximumMatrix

LEMMA MinimumMerge ==
    ASSUME PrioMatrix = MinimumMatrix, NEW p \in Prio, NEW q \in Prio
    PROVE  MergedPrio(p, q) = IF q <= p THEN q ELSE p
BY PrioAssumption DEF MergedPrio, MinimumMatrix

(* A type with one of the two default merges (PRIOMERGE_MAXIMUM, _MINIMUM)   *)
(* may merge in any order: the merge is idempotent and associative.  XferEnd *)
(* relies on it, as it merges in the order its sorts leave equal keys.       *)
THEOREM DefaultMergeIsLattice ==
    ASSUME PrioMatrix = MaximumMatrix \/ PrioMatrix = MinimumMatrix
    PROVE  IsMergeLattice
<1>1. CASE PrioMatrix = MaximumMatrix
  <2>1. \A p \in Prio : MergedPrio(p, p) = p
    BY <1>1, MaximumMerge, PrioAssumption
  <2>2. ASSUME NEW p \in Prio, NEW q \in Prio, NEW r \in Prio
        PROVE  MergedPrio(p, MergedPrio(q, r)) = MergedPrio(MergedPrio(p, q), r)
    <3>1. /\ MergedPrio(q, r) = IF r <= q THEN q ELSE r
          /\ MergedPrio(p, q) = IF q <= p THEN p ELSE q
          /\ MergedPrio(q, r) \in Prio /\ MergedPrio(p, q) \in Prio
      BY <1>1, MaximumMerge, MergeIsPrio
    <3>2. /\ MergedPrio(p, MergedPrio(q, r))
                = IF MergedPrio(q, r) <= p THEN p ELSE MergedPrio(q, r)
          /\ MergedPrio(MergedPrio(p, q), r)
                = IF r <= MergedPrio(p, q) THEN MergedPrio(p, q) ELSE r
      BY <1>1, <3>1, MaximumMerge
    <3>. QED  BY <3>1, <3>2, PrioAssumption
  <2>. QED  BY <2>1, <2>2 DEF IsMergeLattice
<1>2. CASE PrioMatrix = MinimumMatrix
  <2>1. \A p \in Prio : MergedPrio(p, p) = p
    BY <1>2, MinimumMerge, PrioAssumption
  <2>2. ASSUME NEW p \in Prio, NEW q \in Prio, NEW r \in Prio
        PROVE  MergedPrio(p, MergedPrio(q, r)) = MergedPrio(MergedPrio(p, q), r)
    <3>1. /\ MergedPrio(q, r) = IF r <= q THEN r ELSE q
          /\ MergedPrio(p, q) = IF q <= p THEN q ELSE p
          /\ MergedPrio(q, r) \in Prio /\ MergedPrio(p, q) \in Prio
      BY <1>2, MinimumMerge, MergeIsPrio
    <3>2. /\ MergedPrio(p, MergedPrio(q, r))
                = IF MergedPrio(q, r) <= p THEN MergedPrio(q, r) ELSE p
          /\ MergedPrio(MergedPrio(p, q), r)
                = IF r <= MergedPrio(p, q) THEN r ELSE MergedPrio(p, q)
      BY <1>2, <3>1, MinimumMerge
    <3>. QED  BY <3>1, <3>2, PrioAssumption
  <2>. QED  BY <2>1, <2>2 DEF IsMergeLattice
<1>. QED  BY <1>1, <1>2

------------------------------------------------------------------------------
(* One step of the fold in MergeAll, and the function it defines.            *)
Merged(f, first, s) ==
    IF s = {} THEN first
    ELSE MergedPrio(CHOOSE x \in s : TRUE, f[s \ {CHOOSE x \in s : TRUE}])
IsFold(f, first, T) == f = [s \in T |-> Merged(f, first, s)]

LEMMA UnfoldMergeAll ==
  ASSUME NEW S
  PROVE  LET first == CHOOSE p \in S : TRUE
         IN  MergeAll(S) = (CHOOSE f : IsFold(f, first, SUBSET (S \ {first})))[S \ {first}]
  BY DEF MergeAll, FoldSet, MapThenFoldSet, Merged, IsFold

LEMMA Smallest ==
  ASSUME NEW S \in SUBSET Nat, S # {}
  PROVE  \E n \in S : \A m \in S : n <= m
<1> DEFINE Less == {pair \in Nat \X Nat : pair[1] < pair[2]}
<1>1. OpToRel(<, Nat) = Less
  BY DEF OpToRel
<1>2. IsWellFoundedOn(Less, Nat)
  BY <1>1, NatLessThanWellFounded
<1>3. PICK n \in S : \A m \in S : ~ (<<m, n>> \in Less)
  BY <1>2, WFMin
<1>4. \A m \in S : ~ (m < n)
  BY <1>3
<1> QED  BY <1>4

LEMMA FoldDefined ==
  ASSUME NEW S, IsFiniteSet(S), NEW first
  PROVE  \E f : IsFold(f, first, SUBSET S)
<1> DEFINE Upto(n) == {s \in SUBSET S : Cardinality(s) <= n}
           Has(n) == \E f : IsFold(f, first, Upto(n))
           Bad == {n \in Nat : ~Has(n)}
<1>1. \A s \in SUBSET S : IsFiniteSet(s) /\ Cardinality(s) \in Nat
  BY FS_Subset, FS_CardinalityType
<1>2. Has(0)
  <2>1. \A s \in Upto(0) : s = {}
    BY <1>1, FS_EmptySet
  <2> DEFINE f == [s \in Upto(0) |-> first]
  <2>2. IsFold(f, first, Upto(0))
    BY <2>1 DEF IsFold, Merged
  <2> QED  BY <2>2
<1>3. ASSUME NEW n \in Nat, Has(n) PROVE Has(n + 1)
  <2>1. PICK f : IsFold(f, first, Upto(n))
    BY <1>3
  <2> DEFINE g == [s \in Upto(n + 1) |-> Merged(f, first, s)]
  <2>2. \A s \in Upto(n) : s \in Upto(n + 1) /\ f[s] = Merged(f, first, s)
    BY <1>1, <2>1 DEF IsFold
  <2>3. \A s \in Upto(n) : g[s] = f[s]
    BY <2>2
  <2>4. ASSUME NEW s \in Upto(n + 1) PROVE Merged(g, first, s) = Merged(f, first, s)
    <3> DEFINE x == CHOOSE y \in s : TRUE
    <3>1. CASE s = {}
      BY <3>1 DEF Merged
    <3>2. CASE s # {}
      <4>1. x \in s
        BY <3>2
      <4>2. s \ {x} \in SUBSET S /\ Cardinality(s \ {x}) = Cardinality(s) - 1
        BY <1>1, <4>1, FS_RemoveElement
      <4>3. s \ {x} \in Upto(n)
        BY <1>1, <4>2
      <4> HIDE DEF g
      <4> QED  BY <2>3, <4>3 DEF Merged
    <3> QED  BY <3>1, <3>2
  <2>5. IsFold(g, first, Upto(n + 1))
    BY <2>4 DEF IsFold
  <2> QED  BY <2>5
<1>4. \A n \in Nat : Has(n)
  <2> SUFFICES ASSUME Bad # {} PROVE FALSE
    OBVIOUS
  <2> HIDE DEF Has
  <2>1. PICK n \in Bad : \A m \in Bad : n <= m
    BY Smallest
  <2>2. n # 0 /\ n - 1 \in Nat
    BY <1>2, <2>1
  <2>3. Has(n - 1)
    BY <2>1, <2>2
  <2> QED  BY <1>3, <2>1, <2>2, <2>3
<1>5. Upto(Cardinality(S)) = SUBSET S
  BY <1>1, FS_Subset
<1>6. Cardinality(S) \in Nat
  BY FS_CardinalityType
<1> HIDE DEF Upto
<1> QED  BY <1>4, <1>5, <1>6

(* The order in which p is at most q, and least upper bounds in it.          *)
AtMost(p, q) == MergedPrio(p, q) = q
IsLub(m, S) == /\ m \in Prio /\ \A a \in S : AtMost(a, m)
               /\ \A u \in Prio : (\A a \in S : AtMost(a, u)) => AtMost(m, u)

LEMMA OneLub ==
  ASSUME NEW S, NEW m, NEW n, IsLub(m, S), IsLub(n, S)
  PROVE  m = n
  BY MergeCommutes DEF IsLub, AtMost

LEMMA LubOfOne ==
  ASSUME IsMergeLattice, NEW a \in Prio
  PROVE  IsLub(a, {a})
  BY DEF IsLub, AtMost, IsMergeLattice

LEMMA AtMostBoth ==
  ASSUME IsMergeLattice, NEW a \in Prio, NEW b \in Prio
  PROVE  /\ AtMost(a, MergedPrio(a, b)) /\ AtMost(b, MergedPrio(a, b))
         /\ \A c \in Prio : AtMost(a, b) /\ AtMost(b, c) => AtMost(a, c)
         /\ \A c \in Prio : AtMost(a, c) /\ AtMost(b, c) => AtMost(MergedPrio(a, b), c)
<1>1. \A p, q \in Prio : MergedPrio(p, q) \in Prio /\ MergedPrio(p, q) = MergedPrio(q, p) /\ MergedPrio(p, p) = p
  BY MergeIsPrio, MergeCommutes DEF IsMergeLattice
<1>2. \A p, q, r \in Prio : MergedPrio(p, MergedPrio(q, r)) = MergedPrio(MergedPrio(p, q), r)
  BY DEF IsMergeLattice
<1>3. AtMost(a, MergedPrio(a, b)) /\ AtMost(b, MergedPrio(a, b))
  <2>1. MergedPrio(a, MergedPrio(a, b)) = MergedPrio(a, b)
    BY <1>1, <1>2
  <2>2. MergedPrio(b, MergedPrio(b, a)) = MergedPrio(b, a)
    BY <1>1, <1>2
  <2> QED  BY <1>1, <2>1, <2>2 DEF AtMost
<1>4. ASSUME NEW c \in Prio, AtMost(a, b), AtMost(b, c) PROVE AtMost(a, c)
  <2>1. MergedPrio(a, MergedPrio(b, c)) = MergedPrio(MergedPrio(a, b), c)
    BY <1>2
  <2> QED  BY <1>4, <2>1 DEF AtMost
<1>5. ASSUME NEW c \in Prio, AtMost(a, c), AtMost(b, c) PROVE AtMost(MergedPrio(a, b), c)
  <2>1. MergedPrio(a, MergedPrio(b, c)) = MergedPrio(MergedPrio(a, b), c)
    BY <1>2
  <2> QED  BY <1>5, <2>1 DEF AtMost
<1> QED  BY <1>3, <1>4, <1>5

(* The least upper bound of two sets is the merge of theirs. *)
LEMMA LubOfUnion ==
  ASSUME IsMergeLattice, NEW S, NEW T, S \subseteq Prio, T \subseteq Prio,
         NEW m, NEW n, IsLub(m, S), IsLub(n, T)
  PROVE  IsLub(MergedPrio(m, n), S \cup T)
<1>1. m \in Prio /\ n \in Prio /\ MergedPrio(m, n) \in Prio
  BY MergeIsPrio DEF IsLub
<1>2. ASSUME NEW a \in S \cup T PROVE AtMost(a, MergedPrio(m, n))
  <2>1. AtMost(a, m) \/ AtMost(a, n)
    BY DEF IsLub
  <2> QED  BY <1>1, <2>1, AtMostBoth
<1>3. ASSUME NEW u \in Prio, \A a \in S \cup T : AtMost(a, u) PROVE AtMost(MergedPrio(m, n), u)
  <2>1. AtMost(m, u) /\ AtMost(n, u)
    BY <1>3 DEF IsLub
  <2> QED  BY <1>1, <2>1, AtMostBoth
<1> QED  BY <1>1, <1>2, <1>3 DEF IsLub

(* In a lattice MergeAll is the least upper bound, whatever the order in     *)
(* which the members are merged.                                             *)
THEOREM MergeAllIsLub ==
  ASSUME IsMergeLattice, NEW S, S \subseteq Prio, S # {}, IsFiniteSet(S)
  PROVE  IsLub(MergeAll(S), S)
<1> DEFINE first == CHOOSE p \in S : TRUE
           R == S \ {first}
           iter == CHOOSE f : IsFold(f, first, SUBSET R)
           Bad == {Cardinality(s) : s \in {t \in SUBSET R : ~IsLub(iter[t], t \cup {first})}}
<1>1. first \in S /\ MergeAll(S) = iter[R]
  BY UnfoldMergeAll
<1>2. IsFiniteSet(R)
  BY FS_Subset
<1>3. IsFold(iter, first, SUBSET R)
  <2> HIDE DEF R, first
  <2> QED  BY <1>2, FoldDefined
<1>4. \A s \in SUBSET R : IsFiniteSet(s) /\ Cardinality(s) \in Nat
  BY <1>2, FS_Subset, FS_CardinalityType
<1> HIDE DEF iter, first
<1>5. \A s \in SUBSET R : iter[s] = Merged(iter, first, s)
  BY <1>3 DEF IsFold
<1>6. Bad = {}
  <2> SUFFICES ASSUME Bad # {} PROVE FALSE
    OBVIOUS
  <2>1. Bad \in SUBSET Nat
    BY <1>4
  <2>2. PICK n \in Bad : \A m \in Bad : n <= m
    BY <2>1, Smallest
  <2>3. PICK s \in SUBSET R : n = Cardinality(s) /\ ~IsLub(iter[s], s \cup {first})
    BY <2>2
  <2>4. CASE s = {}
    <3>1. iter[s] = first /\ s \cup {first} = {first}
      BY <1>5, <2>4 DEF Merged
    <3> QED  BY <1>1, <2>3, <3>1, LubOfOne
  <2>5. CASE s # {}
    <3> DEFINE x == CHOOSE y \in s : TRUE
               t == s \ {x}
    <3>1. x \in s /\ x \in Prio /\ t \in SUBSET R
      BY <2>5
    <3>2. Cardinality(t) = Cardinality(s) - 1
      BY <1>4, <3>1, FS_RemoveElement
    <3>3. Cardinality(t) \notin Bad
      <4>1. Cardinality(t) \in Nat /\ Cardinality(s) \in Nat
        BY <1>4, <3>1
      <4>2. ~(n <= Cardinality(t))
        BY <2>3, <3>2, <4>1
      <4> HIDE DEF Bad, t
      <4> QED  BY <2>2, <4>2
    <3>4. IsLub(iter[t], t \cup {first})
      BY <3>1, <3>3
    <3>5. iter[s] = MergedPrio(x, iter[t])
      BY <1>5, <2>5 DEF Merged
    <3>6. {x} \cup (t \cup {first}) = s \cup {first}
      BY <3>1
    <3> HIDE DEF x, t
    <3>7. IsLub(x, {x})
      BY <3>1, LubOfOne
    <3>8. t \cup {first} \subseteq Prio /\ {x} \subseteq Prio
      BY <1>1, <3>1
    <3>9. IsLub(MergedPrio(x, iter[t]), {x} \cup (t \cup {first}))
      BY <3>4, <3>7, <3>8, LubOfUnion
    <3> QED  BY <2>3, <3>5, <3>6, <3>9
  <2> QED  BY <2>4, <2>5
<1>7. IsLub(iter[R], R \cup {first})
  BY <1>6
<1>8. R \cup {first} = S
  BY <1>1
<1> QED  BY <1>1, <1>7, <1>8

(* What merging all comes to for one, two, and the members of two sets.       *)
LEMMA MergeAllOfOne ==
  ASSUME IsMergeLattice, NEW a \in Prio
  PROVE  MergeAll({a}) = a
<1>1. IsLub(MergeAll({a}), {a})
  BY MergeAllIsLub, FS_Singleton
<1> QED  BY <1>1, LubOfOne, OneLub

LEMMA MergeAllOfUnion ==
  ASSUME IsMergeLattice, NEW S, NEW T, S \subseteq Prio, T \subseteq Prio,
         S # {}, T # {}, IsFiniteSet(S), IsFiniteSet(T)
  PROVE  MergeAll(S \cup T) = MergedPrio(MergeAll(S), MergeAll(T))
<1>1. IsLub(MergeAll(S), S) /\ IsLub(MergeAll(T), T)
  BY MergeAllIsLub
<1>2. IsLub(MergedPrio(MergeAll(S), MergeAll(T)), S \cup T)
  BY <1>1, LubOfUnion
<1>3. IsFiniteSet(S \cup T) /\ S \cup T # {} /\ S \cup T \subseteq Prio
  BY FS_Union
<1>4. IsLub(MergeAll(S \cup T), S \cup T)
  BY <1>3, MergeAllIsLub
<1> QED  BY <1>2, <1>4, OneLub

LEMMA MergeAllOfTwo ==
  ASSUME IsMergeLattice, NEW a \in Prio, NEW b \in Prio
  PROVE  MergeAll({a, b}) = MergedPrio(a, b)
<1>1. IsFiniteSet({a}) /\ IsFiniteSet({b}) /\ {a} \cup {b} = {a, b}
  BY FS_Singleton
<1>2. MergeAll({a} \cup {b}) = MergedPrio(MergeAll({a}), MergeAll({b}))
  BY <1>1, MergeAllOfUnion
<1> QED  BY <1>1, <1>2, MergeAllOfOne

LEMMA MergeAllType ==
  ASSUME IsMergeLattice, NEW S, S \subseteq Prio, S # {}, IsFiniteSet(S)
  PROVE  MergeAll(S) \in Prio
  BY MergeAllIsLub DEF IsLub

-----------------------------------------------------------------------------
(* The phases of XferEnd.                                                   *)

PCs   == {"user", "prune", "pruneComm", "connect", "comm", "connectCpl", "commCpl"}
Kinds == {"cmd", "obj", "cpl"}

(* The kind of messages p has announced while it waits in LC_Connect. *)
AnnouncedAt(at) == IF at = "prune" THEN "cmd" ELSE IF at = "connect" THEN "obj"
                   ELSE IF at = "connectCpl" THEN "cpl" ELSE "none"
Announces(p) == AnnouncedAt(pc[p])

ControlType ==
    /\ pc \in [Proc -> PCs]
    /\ conn \in [Proc -> Nat]
    /\ abortAt \in [Proc -> SUBSET Nat]
    /\ out = [p \in Proc |-> out[p]]
    /\ \A p \in Proc : \A m \in out[p] : m.to \in Proc /\ m.kind = Announces(p) /\ m.kind \in Kinds
    /\ \A m \in msgs : m.to \in Proc /\ m.kind \in Kinds

(* An exception is raised in the last call of a processor that has not gone  *)
(* beyond it, and never when deletions are pruned.                           *)
AbortsInLastCall ==
    \A p \in Proc : \A n \in abortAt[p] :
        /\ ~Prune
        /\ n <= conn[p]
        /\ n = conn[p] => pc[p] \in {"connect", "user"}

(* Who has passed the exchange of objects did so without an exception.       *)
NoLateException ==
    \A p \in Proc : pc[p] \in {"comm", "connectCpl", "commCpl"} => ~Exception(p)

PhaseIfPruned == \A p \in Proc : pc[p] \in {"prune", "pruneComm"} => Prune

(* A message that is announced meets a receiver that is not yet, or already, *)
(* in the right phase; the alternative is that it will be dropped.           *)
OutMeetsReceiver ==
    \A p \in Proc : \A m \in out[p] :
        \/ conn[m.to] < conn[p]
        \/ pc[m.to] \in Takes(m.kind)
        \/ Exception(p)

(* A message in flight belongs to a call that all processors have made and   *)
(* that ended without an exception.                                          *)
MsgsOfCommonCall ==
    \A m \in msgs : /\ pc[m.to] \in Takes(m.kind)
                    /\ ~Exception(m.to)
                    /\ \A q \in Proc : conn[q] >= conn[m.to]

PhaseInv ==
    /\ ControlType /\ AbortsInLastCall /\ NoLateException /\ PhaseIfPruned
    /\ Lockstep /\ OutMeetsReceiver /\ MsgsOfCommonCall

------------------------------------------------------------------------------
(* What the preparations announce. *)

FirstPhase == IF Prune THEN "prune" ELSE "connect"

(* The messages of each preparation are of the kind of its phase. *)
LEMMA PreparedMessages ==
  ASSUME NEW p \in Proc
  PROVE  /\ \A m \in CmdMsgs(p) : m.to \in Proc /\ m.kind = "cmd"
         /\ \A m \in ObjMsgs(p) : m.to \in Proc /\ m.kind = "obj"
         /\ \A mod, del, add : \A m \in CplMsgs(p, mod, del, add) : m.to \in Proc /\ m.kind = "cpl"
<1>1. \A m \in CmdMsgs(p) : m.to \in Proc /\ m.kind = "cmd"
  BY DEF CmdMsgs, CmdMsg
<1>2. \A m \in ObjMsgs(p) : m.to \in Proc /\ m.kind = "obj"
  BY DEF ObjMsgs, ObjMsg
<1>3. \A mod, del, add : \A m \in CplMsgs(p, mod, del, add) : m.to \in Proc /\ m.kind = "cpl"
  BY DEF CplMsgs, CplMsg
<1> QED  BY <1>1, <1>2, <1>3

------------------------------------------------------------------------------
(* The three kinds of control steps: enter the next call of LC_Connect, pass *)
(* it, and leave XferEnd.                                                    *)

(* A processor that is done with its phase enters the next call. *)
LEMMA EnterCall ==
  ASSUME PhaseInv, NEW p \in Proc, NEW at, NEW M,
         \/ pc[p] = "user" /\ at = FirstPhase
         \/ pc[p] = "pruneComm" /\ at = "connect"
         \/ pc[p] = "comm" /\ at = "connectCpl",
         CallConnect(p, at, M),
         \A m \in M : m.to \in Proc /\ m.kind = AnnouncedAt(at),
         \A q \in Proc : \A m \in out[q] : m.to = p => pc[p] \notin Takes(m.kind),
         msgs' \subseteq msgs,
         \A m \in msgs' : m.to # p,
         \/ abortAt' = abortAt
         \/ ~Prune /\ pc[p] = "user" /\ abortAt' = [abortAt EXCEPT ![p] = @ \cup {conn[p] + 1}]
  PROVE  PhaseInv'
<1>1. ControlType /\ Prune \in BOOLEAN
  BY XferAssumption DEF PhaseInv
<1>2. /\ pc' = [pc EXCEPT ![p] = at]
      /\ conn' = [conn EXCEPT ![p] = @ + 1]
      /\ out' = [out EXCEPT ![p] = M]
      /\ at \in {"prune", "connect", "connectCpl"}
  BY DEF CallConnect, FirstPhase
<1>3. ControlType'
  BY <1>1, <1>2 DEF ControlType, PCs, Kinds, Announces, AnnouncedAt
<1>4. AbortsInLastCall'
  BY <1>1, <1>2 DEF PhaseInv, AbortsInLastCall, ControlType, FirstPhase
<1>5. \A q \in Proc : q # p /\ conn[q] = conn[p] + 1 => pc[q] = at
  BY <1>1, <1>2 DEF PhaseInv, Lockstep, OneAhead, AtEnd, FirstPhase, ControlType, PCs
<1>6. \A q \in Proc : Exception(q) /\ q # p => Exception(q)'
  BY <1>1, <1>2 DEF Exception, ControlType
<1>7. \A q \in Proc : ~Exception(q) /\ q # p /\ Exception(q)' =>
         pc[p] = "user" /\ conn[q] = conn[p] + 1 /\ pc[q] = "connect" /\ ~Prune
  BY <1>1, <1>2, <1>5 DEF Exception, ControlType, FirstPhase
<1>8. NoLateException'
  <2> SUFFICES ASSUME NEW q \in Proc, pc'[q] \in {"comm", "connectCpl", "commCpl"}
               PROVE  ~Exception(q)'
    BY DEF NoLateException
  <2>1. CASE q # p
    BY <1>1, <1>2, <1>7, <2>1 DEF PhaseInv, NoLateException, ControlType
  <2>2. CASE q = p
    <3>1. pc[p] = "comm" /\ abortAt' = abortAt /\ conn'[p] = conn[p] + 1
      BY <1>1, <1>2, <2>2 DEF ControlType, FirstPhase
    <3>2. ASSUME NEW r \in Proc, conn[p] + 1 \in abortAt[r] PROVE FALSE
      BY <1>1, <3>1, <3>2 DEF PhaseInv, AbortsInLastCall, Lockstep, OneAhead, AtEnd, ControlType
    <3> QED  BY <2>2, <3>1, <3>2 DEF Exception
  <2> QED  BY <2>1, <2>2
<1>9. PhaseIfPruned'
  BY <1>1, <1>2 DEF PhaseInv, PhaseIfPruned, ControlType, FirstPhase
<1>10. Lockstep'
  <2> SUFFICES ASSUME NEW q \in Proc, NEW r \in Proc
               PROVE  /\ conn'[q] <= conn'[r] + 1
                      /\ conn'[q] = conn'[r] + 1 => OneAhead(q, r)'
                      /\ conn'[q] = conn'[r] =>
                            \/ SamePhase(q, r)'
                            \/ pc'[q] = "user" /\ AtEnd(r)'
                            \/ pc'[r] = "user" /\ AtEnd(q)'
    BY DEF Lockstep
  <2>1. CASE q # p /\ r # p
    BY <1>1, <1>2, <1>6, <1>7, <2>1
       DEF PhaseInv, Lockstep, OneAhead, AtEnd, SamePhase, ControlType, PCs
  <2>2. CASE q = p /\ r # p
    <3>1. conn[p] <= conn[r]
      BY <1>1, <1>2, <2>2 DEF PhaseInv, Lockstep, OneAhead, ControlType, FirstPhase
    <3>2. CASE conn[p] = conn[r]
      <4>1. CASE pc[p] = "user"
        BY <1>1, <1>2, <1>6, <2>2, <3>2, <4>1
           DEF PhaseInv, Lockstep, OneAhead, AtEnd, SamePhase, ControlType, PCs, FirstPhase, Takes
      <4>2. CASE pc[p] = "pruneComm"
        BY <1>1, <1>2, <2>2, <3>2, <4>2
           DEF PhaseInv, PhaseIfPruned, Lockstep, OneAhead, AtEnd, SamePhase, ControlType, FirstPhase, Takes
      <4>3. CASE pc[p] = "comm"
        <5>1. ~Exception(r)'
          BY <1>1, <1>2, <1>7, <2>2, <3>2, <4>3 DEF PhaseInv, NoLateException, Exception, ControlType
        <5> QED
          BY <1>1, <1>2, <2>2, <3>2, <4>3, <5>1
             DEF PhaseInv, Lockstep, OneAhead, AtEnd, SamePhase, ControlType, FirstPhase, Takes
      <4> QED  BY <4>1, <4>2, <4>3
    <3>3. CASE conn[p] # conn[r]
      BY <1>1, <1>2, <1>5, <2>2, <3>1, <3>3 DEF PhaseInv, Lockstep, SamePhase, ControlType, Takes
    <3> QED  BY <3>2, <3>3
  <2>3. CASE q # p /\ r = p
    BY <1>1, <1>2, <1>5, <2>3 DEF PhaseInv, Lockstep, SamePhase, ControlType, Takes
  <2>4. CASE q = p /\ r = p
    BY <1>1, <1>2, <2>4 DEF SamePhase, ControlType, Takes
  <2> QED  BY <2>1, <2>2, <2>3, <2>4
<1>11. OutMeetsReceiver'
  <2> SUFFICES ASSUME NEW q \in Proc, NEW m \in out'[q]
               PROVE  conn'[m.to] < conn'[q] \/ pc'[m.to] \in Takes(m.kind) \/ Exception(q)'
    BY DEF OutMeetsReceiver
  <2>1. CASE q # p /\ m.to # p
    BY <1>1, <1>2, <1>6, <2>1 DEF PhaseInv, OutMeetsReceiver, ControlType
  <2>2. CASE q # p /\ m.to = p
    BY <1>1, <1>2, <1>5, <1>6, <2>2
       DEF PhaseInv, OutMeetsReceiver, ControlType, Announces, AnnouncedAt, Takes
  <2>3. CASE q = p
    <3>1. m \in M /\ m.to \in Proc /\ m.kind = AnnouncedAt(at)
      BY <1>1, <1>2, <2>3 DEF ControlType
    <3> QED
      BY <1>1, <1>2, <1>5, <2>3, <3>1 DEF PhaseInv, Lockstep, ControlType, AnnouncedAt, Takes
  <2> QED  BY <2>1, <2>2, <2>3
<1>12. MsgsOfCommonCall'
  <2> SUFFICES ASSUME NEW m \in msgs'
               PROVE  /\ pc'[m.to] \in Takes(m.kind)
                      /\ ~Exception(m.to)'
                      /\ \A q \in Proc : conn'[q] >= conn'[m.to]
    BY DEF MsgsOfCommonCall
  <2>1. m \in msgs /\ m.to \in Proc /\ m.to # p
    BY <1>1 DEF ControlType
  <2> QED
    BY <1>1, <1>2, <1>7, <2>1 DEF PhaseInv, MsgsOfCommonCall, ControlType
<1> QED  BY <1>3, <1>4, <1>8, <1>9, <1>10, <1>11, <1>12 DEF PhaseInv

(* LC_Connect returns without an exception: the announced messages are sent. *)
LEMMA PassCall ==
  ASSUME PhaseInv, NEW p \in Proc, NEW at,
         \/ pc[p] = "prune" /\ at = "pruneComm"
         \/ pc[p] = "connect" /\ at = "comm"
         \/ pc[p] = "connectCpl" /\ at = "commCpl",
         Connected(p), ~Exception(p),
         pc' = [pc EXCEPT ![p] = at],
         out' = [out EXCEPT ![p] = {}],
         msgs' = msgs \cup out[p],
         UNCHANGED <<conn, abortAt>>
  PROVE  PhaseInv'
<1>1. ControlType
  BY DEF PhaseInv
<1>2. ControlType'
  BY <1>1 DEF ControlType, PCs, Kinds, Announces, AnnouncedAt
<1>3. AbortsInLastCall'
  BY <1>1 DEF PhaseInv, AbortsInLastCall, ControlType, Exception
<1>4. \A q \in Proc : Exception(q)' <=> Exception(q)
  BY DEF Exception
<1>5. NoLateException' /\ PhaseIfPruned'
  BY <1>1, <1>4 DEF PhaseInv, NoLateException, PhaseIfPruned, ControlType
<1>6. Lockstep'
  <2> SUFFICES ASSUME NEW q \in Proc, NEW r \in Proc
               PROVE  /\ conn[q] <= conn[r] + 1
                      /\ conn[q] = conn[r] + 1 => OneAhead(q, r)'
                      /\ conn[q] = conn[r] =>
                            \/ SamePhase(q, r)'
                            \/ pc'[q] = "user" /\ AtEnd(r)'
                            \/ pc'[r] = "user" /\ AtEnd(q)'
    BY DEF Lockstep
  <2>1. conn[q] <= conn[r] + 1
    BY DEF PhaseInv, Lockstep
  <2>2. ASSUME conn[q] = conn[r] + 1 PROVE OneAhead(q, r)'
    <3>1. OneAhead(q, r) /\ q # p
      BY <1>1, <2>2 DEF PhaseInv, Lockstep, Connected, ControlType
    <3> QED  BY <1>1, <1>4, <3>1 DEF OneAhead, AtEnd, ControlType
  <2>3. ASSUME conn[q] = conn[r]
        PROVE  \/ SamePhase(q, r)'
               \/ pc'[q] = "user" /\ AtEnd(r)'
               \/ pc'[r] = "user" /\ AtEnd(q)'
    <3>1. AtEnd(q) => AtEnd(q)'
      BY <1>1, <1>4 DEF AtEnd, ControlType
    <3>2. AtEnd(r) => AtEnd(r)'
      BY <1>1, <1>4 DEF AtEnd, ControlType
    <3>3. SamePhase(q, r) => SamePhase(q, r)'
      BY <1>1 DEF SamePhase, Takes, ControlType
    <3>4. (pc[q] = "user" => pc'[q] = "user") /\ (pc[r] = "user" => pc'[r] = "user")
      BY <1>1 DEF ControlType
    <3> QED  BY <2>3, <3>1, <3>2, <3>3, <3>4 DEF PhaseInv, Lockstep
  <2> QED  BY <2>1, <2>2, <2>3
<1>7. OutMeetsReceiver'
  BY <1>1, <1>4 DEF PhaseInv, OutMeetsReceiver, ControlType, Takes
<1>8. ASSUME NEW m \in out[p]
      PROVE  pc[m.to] \in Takes(m.kind) /\ conn[m.to] = conn[p]
  <2>1. m.to \in Proc /\ m.kind = Announces(p) /\ conn[m.to] >= conn[p]
    BY <1>1 DEF ControlType, Connected
  <2>2. pc[m.to] \in Takes(m.kind)
    BY <1>1, <2>1 DEF PhaseInv, OutMeetsReceiver, ControlType
  <2>3. ASSUME conn[m.to] = conn[p] + 1 PROVE FALSE
    BY <2>1, <2>2, <2>3
       DEF PhaseInv, Lockstep, OneAhead, AtEnd, Announces, AnnouncedAt, Takes
  <2> QED  BY <1>1, <2>1, <2>2, <2>3 DEF PhaseInv, Lockstep, ControlType
<1>9. MsgsOfCommonCall'
  <2> SUFFICES ASSUME NEW m \in msgs'
               PROVE  /\ pc'[m.to] \in Takes(m.kind)
                      /\ ~Exception(m.to)
                      /\ \A q \in Proc : conn[q] >= conn[m.to]
    BY <1>2, <1>4 DEF MsgsOfCommonCall, ControlType
  <2>1. m.to \in Proc
    BY <1>2 DEF ControlType
  <2>2. /\ pc[m.to] \in Takes(m.kind)
        /\ ~Exception(m.to)
        /\ \A q \in Proc : conn[q] >= conn[m.to]
    <3>1. CASE m \in msgs
      BY <3>1 DEF PhaseInv, MsgsOfCommonCall
    <3>2. CASE m \in out[p]
      BY <1>8, <3>2 DEF Connected, Exception
    <3> QED  BY <3>1, <3>2
  <2>3. pc'[m.to] \in Takes(m.kind)
    BY <1>1, <2>1, <2>2 DEF ControlType, Takes
  <2> QED  BY <2>2, <2>3
<1> QED  BY <1>2, <1>3, <1>5, <1>6, <1>7, <1>9 DEF PhaseInv

(* XferEnd is left at its end, or after an exception. *)
LEMMA LeaveCall ==
  ASSUME PhaseInv, NEW p \in Proc,
         \/ pc[p] = "connect" /\ Connected(p) /\ Exception(p)
         \/ pc[p] = "commCpl" /\ Communicated(p, "cpl") /\ Received(p, "cpl") = {},
         pc' = [pc EXCEPT ![p] = "user"],
         out' = [out EXCEPT ![p] = {}],
         UNCHANGED <<conn, abortAt, msgs>>
  PROVE  PhaseInv'
<1>1. ControlType
  BY DEF PhaseInv
<1>2. ControlType' /\ AbortsInLastCall' /\ PhaseIfPruned'
  BY <1>1 DEF PhaseInv, ControlType, PCs, Announces, AbortsInLastCall, PhaseIfPruned
<1>3. \A q \in Proc : Exception(q)' <=> Exception(q)
  BY DEF Exception
<1>4. NoLateException'
  BY <1>1, <1>3 DEF PhaseInv, NoLateException, ControlType
<1>5. AtEnd(p) /\ AtEnd(p)'
  BY <1>1 DEF AtEnd, ControlType
<1>6. Lockstep'
  <2> SUFFICES ASSUME NEW q \in Proc, NEW r \in Proc
               PROVE  /\ conn[q] <= conn[r] + 1
                      /\ conn[q] = conn[r] + 1 => OneAhead(q, r)'
                      /\ conn[q] = conn[r] =>
                            \/ SamePhase(q, r)'
                            \/ pc'[q] = "user" /\ AtEnd(r)'
                            \/ pc'[r] = "user" /\ AtEnd(q)'
    BY DEF Lockstep
  <2>1. conn[q] <= conn[r] + 1
    BY DEF PhaseInv, Lockstep
  <2>2. ASSUME conn[q] = conn[r] + 1 PROVE OneAhead(q, r)'
    <3>1. OneAhead(q, r) /\ q # p
      BY <1>1, <2>2 DEF PhaseInv, Lockstep, Connected, OneAhead, ControlType
    <3> QED  BY <1>1, <1>3, <1>5, <3>1 DEF OneAhead, AtEnd, ControlType
  <2>3. \A s \in Proc : conn[s] = conn[p] => AtEnd(s)
    BY <1>1 DEF PhaseInv, Lockstep, SamePhase, AtEnd, NoLateException, Exception, Takes
  <2>4. \A s \in Proc : AtEnd(s) => AtEnd(s)'
    BY <1>1, <1>3, <1>5 DEF AtEnd, ControlType
  <2>5. ASSUME conn[q] = conn[r]
        PROVE  \/ SamePhase(q, r)'
               \/ pc'[q] = "user" /\ AtEnd(r)'
               \/ pc'[r] = "user" /\ AtEnd(q)'
    <3>1. CASE q = p \/ r = p
      BY <1>1, <2>3, <2>4, <2>5, <3>1 DEF ControlType
    <3>2. CASE q # p /\ r # p
      BY <1>1, <2>4, <2>5, <3>2 DEF PhaseInv, Lockstep, SamePhase, ControlType
    <3> QED  BY <3>1, <3>2
  <2> QED  BY <2>1, <2>2, <2>5
<1>7. OutMeetsReceiver'
  <2> SUFFICES ASSUME NEW q \in Proc, NEW m \in out'[q]
               PROVE  conn[m.to] < conn[q] \/ pc'[m.to] \in Takes(m.kind) \/ Exception(q)
    BY <1>1, <1>2, <1>3 DEF OutMeetsReceiver, ControlType
  <2>1. q # p /\ m \in out[q] /\ m.to \in Proc /\ m.kind = Announces(q)
    BY <1>1 DEF ControlType
  <2>2. CASE m.to # p
    BY <1>1, <2>1, <2>2 DEF PhaseInv, OutMeetsReceiver, ControlType
  <2>3. CASE m.to = p /\ pc[p] = "connect"
    <3>1. conn[q] >= conn[p]
      BY <2>3 DEF Connected
    <3>2. conn[q] = conn[p] => Exception(q)
      BY <2>3 DEF Exception
    <3> QED  BY <1>1, <2>3, <3>1, <3>2 DEF ControlType
  <2>4. CASE m.to = p /\ pc[p] = "commCpl"
    <3>1. m.kind # "cpl"
      BY <2>1, <2>4 DEF Communicated
    <3>2. m.kind \in {"cmd", "obj"}
      BY <1>1, <2>1, <3>1 DEF ControlType, Kinds
    <3> QED  BY <1>1, <2>1, <2>4, <3>2 DEF PhaseInv, OutMeetsReceiver, Takes, ControlType
  <2> QED  BY <2>2, <2>3, <2>4
<1>8. MsgsOfCommonCall'
  <2> SUFFICES ASSUME NEW m \in msgs PROVE m.to # p
    BY <1>1, <1>2, <1>3 DEF PhaseInv, MsgsOfCommonCall, ControlType
  <2>1. m.kind \in Kinds /\ m.to \in Proc /\ pc[m.to] \in Takes(m.kind) /\ ~Exception(m.to)
    BY <1>1 DEF PhaseInv, MsgsOfCommonCall, ControlType
  <2> QED  BY <2>1 DEF Takes, Kinds, Received
<1> QED  BY <1>2, <1>4, <1>6, <1>7, <1>8 DEF PhaseInv

(* Steps that neither enter, pass nor leave a call: commands, and unpacking  *)
(* one of several messages.                                                  *)
LEMMA StayInCall ==
  ASSUME PhaseInv, msgs' \subseteq msgs, UNCHANGED <<pc, conn, abortAt, out>>
  PROVE  PhaseInv'
<1>1. ControlType' /\ AbortsInLastCall' /\ PhaseIfPruned'
  BY DEF PhaseInv, ControlType, Announces, AbortsInLastCall, PhaseIfPruned
<1>2. \A q \in Proc : Exception(q)' <=> Exception(q)
  BY DEF Exception
<1>3. NoLateException' /\ OutMeetsReceiver' /\ MsgsOfCommonCall'
  BY <1>1, <1>2 DEF PhaseInv, ControlType, NoLateException, OutMeetsReceiver, MsgsOfCommonCall
<1>4. Lockstep'
  BY <1>2 DEF PhaseInv, Lockstep, OneAhead, AtEnd, SamePhase
<1> QED  BY <1>1, <1>3, <1>4 DEF PhaseInv

------------------------------------------------------------------------------
(* PhaseInv is inductive. *)

LEMMA PhaseInit == Init => PhaseInv
<1> SUFFICES ASSUME Init PROVE PhaseInv
  OBVIOUS
<1>1. ControlType
  BY DEF Init, ControlType, PCs
<1>2. AbortsInLastCall /\ NoLateException /\ PhaseIfPruned
  BY DEF Init, AbortsInLastCall, NoLateException, PhaseIfPruned
<1>3. Lockstep
  BY DEF Init, Lockstep, AtEnd
<1>4. OutMeetsReceiver /\ MsgsOfCommonCall
  BY DEF Init, OutMeetsReceiver, MsgsOfCommonCall
<1> QED  BY <1>1, <1>2, <1>3, <1>4 DEF PhaseInv

(* The call of LC_Connect for the objects, or of LC_Abort, from wherever     *)
(* XferEnd comes to it.                                                      *)
LEMMA ConnectObjStep ==
  ASSUME PhaseInv, ~(Prune /\ NoMem), NEW p \in Proc, ConnectObj(p),
         \/ pc[p] = "user" /\ ~Prune
         \/ pc[p] = "pruneComm",
         \A q \in Proc : \A m \in out[q] : m.to = p => pc[p] \notin Takes(m.kind),
         msgs' \subseteq msgs,
         \A m \in msgs' : m.to # p
  PROVE  PhaseInv'
<1>1. PICK M : /\ CallConnect(p, "connect", M)
               /\ \A m \in M : m.to \in Proc /\ m.kind = AnnouncedAt("connect")
               /\ \/ abortAt' = abortAt
                  \/ NoMem /\ abortAt' = [abortAt EXCEPT ![p] = @ \cup {conn[p] + 1}]
  <2>1. CASE CallConnect(p, "connect", ObjMsgs(p)) /\ abortAt' = abortAt
    <3>1. \A m \in ObjMsgs(p) : m.to \in Proc /\ m.kind = AnnouncedAt("connect")
      BY PreparedMessages DEF AnnouncedAt
    <3> QED  BY <2>1, <3>1
  <2>2. CASE /\ NoMem /\ CallConnect(p, "connect", {})
             /\ abortAt' = [abortAt EXCEPT ![p] = @ \cup {conn[p] + 1}]
    <3>1. \A m \in {} : m.to \in Proc /\ m.kind = AnnouncedAt("connect")
      OBVIOUS
    <3> QED  BY <2>2, <3>1
  <2> QED  BY <2>1, <2>2 DEF ConnectObj
<1>2. CASE pc[p] = "user" /\ ~Prune
  <2>1. FirstPhase = "connect"
    BY <1>2 DEF FirstPhase
  <2> QED  BY <1>1, <1>2, <2>1, EnterCall
<1>3. CASE pc[p] = "pruneComm"
  <2>1. abortAt' = abortAt
    BY <1>1, <1>3 DEF PhaseInv, PhaseIfPruned
  <2> QED  BY <1>1, <1>3, <2>1, EnterCall
<1> QED  BY <1>2, <1>3

LEMMA PhaseStep ==
  ASSUME ~(Prune /\ NoMem), PhaseInv, [Next]_vars
  PROVE  PhaseInv'
<1> USE DEF ctrlVars, objVars, cmdVars, itemVars
<1>1. CASE UNCHANGED vars
  BY <1>1, StayInCall DEF vars
<1>2. ASSUME NEW p \in Proc, Command(p) PROVE PhaseInv'
  BY <1>2, StayInCall DEF Command, XferBegin, XferCopyObj, XferPrioChange, XferDeleteObj
<1>3. ASSUME NEW p \in Proc, XferEnd(p) PROVE PhaseInv'
  <2>1. pc[p] = "user" /\ msgs' = msgs
    BY <1>3 DEF XferEnd
  <2>2. \A q \in Proc : \A m \in out[q] : m.to = p => pc[p] \notin Takes(m.kind)
    BY <2>1 DEF Takes
  <2>3. \A m \in msgs' : m.to # p
    BY <2>1 DEF PhaseInv, MsgsOfCommonCall, Takes
  <2>4. CASE Prune
    <3>1. CallConnect(p, "prune", CmdMsgs(p)) /\ abortAt' = abortAt
      BY <1>3, <2>4 DEF XferEnd
    <3>2. \A m \in CmdMsgs(p) : m.to \in Proc /\ m.kind = AnnouncedAt("prune")
      BY PreparedMessages DEF AnnouncedAt
    <3> QED  BY <2>1, <2>2, <2>3, <2>4, <3>1, <3>2, EnterCall DEF FirstPhase
  <2>5. CASE ~Prune
    <3>1. ConnectObj(p)
      BY <1>3, <2>5 DEF XferEnd
    <3> QED  BY <2>1, <2>2, <2>3, <2>5, <3>1, ConnectObjStep
  <2> QED  BY <2>4, <2>5
<1>4. ASSUME NEW p \in Proc, PruneConnect(p) PROVE PhaseInv'
  <2>1. Prune
    BY <1>4 DEF PruneConnect, PhaseInv, PhaseIfPruned
  <2>2. ~Exception(p)
    BY <2>1 DEF PhaseInv, AbortsInLastCall, Exception
  <2> QED  BY <1>4, <2>2, PassCall DEF PruneConnect
<1>5. ASSUME NEW p \in Proc, CmdMsgUnpack(p) PROVE PhaseInv'
  <2>1. /\ pc[p] = "pruneComm" /\ Communicated(p, "cmd")
        /\ ConnectObj(p)
        /\ msgs' = msgs \ Received(p, "cmd")
    BY <1>5 DEF CmdMsgUnpack
  <2>2. \A q \in Proc : \A m \in out[q] : m.to = p => pc[p] \notin Takes(m.kind)
    BY <2>1 DEF Communicated, Takes
  <2>3. \A m \in msgs' : m.to # p
    BY <2>1 DEF PhaseInv, MsgsOfCommonCall, Takes, Received
  <2> QED  BY <2>1, <2>2, <2>3, ConnectObjStep
<1>6. ASSUME NEW p \in Proc, ExecLocalCommands(p) PROVE PhaseInv'
  BY <1>6, PassCall DEF ExecLocalCommands
<1>7. ASSUME NEW p \in Proc, XferEndAborted(p) PROVE PhaseInv'
  BY <1>7, LeaveCall DEF XferEndAborted, ResetItems
<1>8. ASSUME NEW p \in Proc, XferUnpack(p) PROVE PhaseInv'
  <2>1. /\ pc[p] = "comm" /\ Communicated(p, "obj")
        /\ \E mod, del, add : CallConnect(p, "connectCpl", CplMsgs(p, mod, del, add))
        /\ msgs' = msgs \ Received(p, "obj")
        /\ abortAt' = abortAt
    BY <1>8 DEF XferUnpack
  <2>2. PICK M : /\ CallConnect(p, "connectCpl", M)
                 /\ \A m \in M : m.to \in Proc /\ m.kind = AnnouncedAt("connectCpl")
    BY <2>1, PreparedMessages DEF AnnouncedAt
  <2>3. \A q \in Proc : \A m \in out[q] : m.to = p => pc[p] \notin Takes(m.kind)
    BY <2>1 DEF PhaseInv, ControlType, Kinds, Communicated, Takes
  <2>4. \A m \in msgs' : m.to # p
    BY <2>1 DEF PhaseInv, ControlType, Kinds, MsgsOfCommonCall, Takes, Received
  <2> QED  BY <2>1, <2>2, <2>3, <2>4, EnterCall
<1>9. ASSUME NEW p \in Proc, CplConnect(p) PROVE PhaseInv'
  <2>1. ~Exception(p)
    BY <1>9 DEF CplConnect, PhaseInv, NoLateException
  <2> QED  BY <1>9, <2>1, PassCall DEF CplConnect
<1>10. ASSUME NEW p \in Proc, XferEndReturn(p) PROVE PhaseInv'
  <2>1. pc[p] = "commCpl"
    BY <1>10 DEF XferEndReturn
  <2>2. out[p] = {} /\ out = [out EXCEPT ![p] = {}]
    BY <2>1 DEF PhaseInv, ControlType, Announces, AnnouncedAt, Kinds
  <2> QED  BY <1>10, <2>2, LeaveCall DEF XferEndReturn, ResetItems
<1>11. ASSUME NEW p \in Proc, NEW m \in msgs, CplMsgUnpackSingle(p, m) PROVE PhaseInv'
  BY <1>11, StayInCall DEF CplMsgUnpackSingle
<1>12. CASE Next
  BY <1>1, <1>2, <1>3, <1>4, <1>5, <1>6, <1>7, <1>8, <1>9, <1>10, <1>11, <1>12
     DEF Next, Finished, Transfer
<1> QED  BY <1>1, <1>12

------------------------------------------------------------------------------
(* The collective calls stay in step: no processor is ever more than one     *)
(* LC_Connect ahead, and who is ahead waits in the following phase.          *)
THEOREM LockstepHolds == ASSUME ~(Prune /\ NoMem) PROVE Spec => []Lockstep
<1>1. PhaseInv /\ [Next]_vars => PhaseInv'
  BY PhaseStep
<1>2. PhaseInv => Lockstep
  BY DEF PhaseInv
<1> QED  BY PhaseInit, <1>1, <1>2, PTL DEF Spec

(* A message in flight always finds its receiver in the phase it was sent    *)
(* for, however far the processors run apart.                                *)
THEOREM PhaseDisciplineHolds == ASSUME ~(Prune /\ NoMem) PROVE Spec => []PhaseDiscipline
<1>1. PhaseInv /\ [Next]_vars => PhaseInv'
  BY PhaseStep
<1>2. PhaseInv => PhaseDiscipline
  BY DEF PhaseInv, MsgsOfCommonCall, PhaseDiscipline
<1> QED  BY PhaseInit, <1>1, <1>2, PTL DEF Spec

------------------------------------------------------------------------------
(* A call of LC_Connect is followed by another one inside XferEnd only if    *)
(* nobody raised an exception in it: after the deletions were pruned, since  *)
(* nobody raises one then, and after the objects were exchanged, since       *)
(* XferEnd was left otherwise.                                               *)
LEMMA NextCallAfterSuccess ==
  ASSUME ~(Prune /\ NoMem), PhaseInv, Next, NEW p \in Proc,
         pc[p] # "user", conn'[p] = conn[p] + 1
  PROVE  ~Exception(p)
<1> USE DEF ctrlVars
<1>1. ControlType
  BY DEF PhaseInv
<1>2. conn' # conn
  BY <1>1 DEF ControlType
<1>3. ASSUME NEW q \in Proc, NEW f, conn' = [conn EXCEPT ![q] = f] PROVE q = p
  BY <1>1, <1>3 DEF ControlType
<1>4. Prune => ~Exception(p)
  BY DEF PhaseInv, AbortsInLastCall, Exception
<1>5. ASSUME NEW q \in Proc, Command(q) PROVE FALSE
  BY <1>2, <1>5 DEF Command, XferBegin, XferCopyObj, XferPrioChange, XferDeleteObj
<1>6. ASSUME NEW q \in Proc, XferEnd(q) PROVE FALSE
  <2>1. pc[q] = "user" /\ conn' = [conn EXCEPT ![q] = @ + 1]
    BY <1>6 DEF XferEnd, ConnectObj, CallConnect
  <2> QED  BY <1>3, <2>1
<1>7. ASSUME NEW q \in Proc, PruneConnect(q) \/ CmdMsgUnpack(q) PROVE ~Exception(p)
  <2>1. pc[q] \in {"prune", "pruneComm"}
    BY <1>7 DEF PruneConnect, CmdMsgUnpack
  <2> QED  BY <1>4, <2>1 DEF PhaseInv, PhaseIfPruned
<1>8. ASSUME NEW q \in Proc, XferUnpack(q) PROVE ~Exception(p)
  <2>1. pc[q] = "comm" /\ conn' = [conn EXCEPT ![q] = @ + 1]
    BY <1>8 DEF XferUnpack, CallConnect
  <2> QED  BY <1>3, <2>1 DEF PhaseInv, NoLateException
<1>9. ASSUME NEW q \in Proc,
             \/ ExecLocalCommands(q) \/ XferEndAborted(q) \/ CplConnect(q) \/ XferEndReturn(q)
             \/ \E m \in msgs : CplMsgUnpackSingle(q, m)
      PROVE  FALSE
  BY <1>2, <1>9 DEF ExecLocalCommands, XferEndAborted, CplConnect, XferEndReturn, CplMsgUnpackSingle
<1>10. ~Finished
  BY <1>2 DEF Finished, vars
<1> QED  BY <1>5, <1>6, <1>7, <1>8, <1>9, <1>10 DEF Next, Transfer

(* "All other exceptions are known globally": an exception ends the transfer *)
(* for everybody, whichever processors run ahead.                            *)
THEOREM AbortEndsTransferHolds == ASSUME ~(Prune /\ NoMem) PROVE Spec => AbortEndsTransfer
<1> DEFINE Step == \A p, q \in Proc :
                      (pc[p] # "user" /\ conn'[p] = conn[p] + 1) => conn[p] \notin abortAt[q]
<1>1. PhaseInv /\ [Next]_vars => PhaseInv'
  BY PhaseStep
<1>2. PhaseInv /\ [Next]_vars => [Step]_vars
  BY NextCallAfterSuccess DEF Exception
<1>3. AbortEndsTransfer <=> [][Step]_vars
  BY DEF AbortEndsTransfer
<1> HIDE DEF Step
<1> QED  BY PhaseInit, <1>1, <1>2, <1>3, PTL DEF Spec

-----------------------------------------------------------------------------
(* That a transfer leaves every processor with the right couplings, and     *)
(* that the phases of XferEnd implement the atomic transfer of XferAbstract. *)
(*                                                                         *)
(* Commands of the processors are seen by all of them only in what they do  *)
(* to the messages.  The invariant therefore says that there are a state of *)
(* the copies before the transfer and commands (a History) such that what   *)
(* each processor and each message has in it is what follows from them.     *)


(* What a transfer starts from: the copies of all processors, the priorities *)
(* they send to others, the changes of priority that are not void, the       *)
(* deletions, and those that have been pruned.                               *)
History == [obj : [Proc -> [Gid -> PrioOrNone]], copy : [Proc -> [Gid -> [Proc -> PrioOrNone]]],
            set : [Proc -> [Gid -> PrioOrNone]], del : [Proc -> SUBSET Gid], pruned : [Proc -> SUBSET Gid]]

Owns(h, p, g)     == h.obj[p][g] # NoPrio
Sends(h, s, g, d) == h.copy[s][g][d] # NoPrio
Senders(h, g, d)  == {s \in Proc : Sends(h, s, g, d)}
Gets(h, d, g)     == Senders(h, g, d) # {}
PriosOf(h, g, d, S) == {h.copy[s][g][d] : s \in S}
Sent(h, g, d)     == PriosOf(h, g, d, Senders(h, g, d))
IsNew(h, d, g)    == ~Owns(h, d, g) /\ Gets(h, d, g)

HistoryOk(h) ==
    /\ h \in History
    /\ \A p \in Proc, g \in Gid :
        /\ \A q \in Proc : Sends(h, p, g, q) => Owns(h, p, g) /\ q # p
        /\ h.set[p][g] # NoPrio => Owns(h, p, g) /\ g \notin h.del[p]
        /\ g \in h.del[p] => Owns(h, p, g)
        /\ g \in h.pruned[p] => Owns(h, p, g) /\ Gets(h, p, g) /\ g \notin h.del[p] /\ h.set[p][g] = NoPrio

(* The priority of p's copy when its own commands have been executed, and    *)
(* when the transfer is over.                                                *)
Local(h, p, g) == IF g \in h.del[p] THEN NoPrio
                  ELSE IF h.set[p][g] # NoPrio THEN h.set[p][g] ELSE h.obj[p][g]
Final(h, p, g) == IF ~Gets(h, p, g) THEN Local(h, p, g)
                  ELSE IF ~Owns(h, p, g) \/ g \in h.del[p] \/ g \in h.pruned[p] THEN MergeAll(Sent(h, g, p))
                  ELSE MergedPrio(MergeAll(Sent(h, g, p)), Local(h, p, g))

(* The coupling of p to q before the transfer. *)
Before(h, p, g, q) == IF p # q /\ Owns(h, p, g) THEN h.obj[q][g] ELSE NoPrio

(* Those who tell p in the phase of objects that d is a new owner; and the   *)
(* priorities p hears of.                                                    *)
Tellers(h, p, g, d) == {s \in Senders(h, g, d) : /\ IsNew(h, d, g) /\ s # p /\ d # p
                                                 /\ Owns(h, p, g) \/ Sends(h, s, g, p)}
Told(h, p, g, d) == PriosOf(h, g, d, Tellers(h, p, g, d))

(* The coupling of p to q between the phases of objects and of couplings.    *)
Middle(h, p, g, q) ==
    IF p = q \/ Final(h, p, g) = NoPrio THEN NoPrio
    ELSE IF Owns(h, q, g) THEN h.obj[q][g]
    ELSE IF ~Gets(h, q, g) THEN NoPrio
    ELSE IF Owns(h, p, g) THEN Final(h, q, g)
    ELSE IF Tellers(h, p, g, q) # {} THEN MergeAll(Told(h, p, g, q)) ELSE NoPrio

(* The new owners p sends a copy to. *)
NewOwnersOf(h, p) == {o \in Gid \X Proc : Sends(h, p, o[1], o[2]) /\ IsNew(h, o[2], o[1])}

(* The contents of a message of the phase of objects; and all of those of s. *)
ObjMsgOk(h, m) ==
    /\ m.kind = "obj" /\ m.from \in Proc /\ m.to \in Proc /\ m.from # m.to
    /\ \A o \in m.objs : o.gid \in Gid /\ Sends(h, m.from, o.gid, m.to) /\ o.prio = h.copy[m.from][o.gid][m.to]
    /\ \A g \in Gid : Sends(h, m.from, g, m.to) => \E o \in m.objs : o.gid = g
    /\ \A i \in m.newCpl : /\ i.gid \in Gid /\ i.dest \in Proc
                           /\ m.from \in Tellers(h, m.to, i.gid, i.dest) /\ i.prio = h.copy[m.from][i.gid][i.dest]
    /\ \A g \in Gid, d \in Proc : m.from \in Tellers(h, m.to, g, d) => \E i \in m.newCpl : i.gid = g /\ i.dest = d
    /\ \A i \in m.oldCpl : /\ i.gid \in Gid /\ i.proc \in Proc
                           /\ IsNew(h, m.to, i.gid) /\ Sends(h, m.from, i.gid, m.to)
                           /\ Owns(h, i.proc, i.gid) /\ i.prio = h.obj[i.proc][i.gid]
    /\ \A g \in Gid, q \in Proc : IsNew(h, m.to, g) /\ Sends(h, m.from, g, m.to) /\ Owns(h, q, g) =>
            \E i \in m.oldCpl : i.gid = g /\ i.proc = q
Tells(h, s, d) == \E g \in Gid : Sends(h, s, g, d) \/ \E e \in Proc : s \in Tellers(h, d, g, e)
ObjMsgsOk(h, s, M) ==
    /\ \A m \in M : ObjMsgOk(h, m) /\ m.from = s
    /\ \A d \in Proc \ {s} : Tells(h, s, d) => \E m \in M : m.to = d

(* What p has prepared is right for every history that is p's so far.        *)
Matches(h, p) ==
    /\ h.obj[p] = obj[p] /\ h.copy[p] = copyObj[p]
    /\ \A g \in Gid, q \in Proc : cpl[p][g][q] = Before(h, p, g, q)
Prepared(p) == \A h : HistoryOk(h) /\ Matches(h, p) =>
                        ObjMsgsOk(h, p, out[p]) /\ newOwner[p] = NewOwnersOf(h, p)

-------------------------------------------------------------------------------
(* Facts about histories.                                                    *)

LEMMA Distinct == NoPrio \notin Prio /\ PrioInvalid \notin Prio /\ PrioInvalid # NoPrio /\ IsFiniteSet(Proc)
  BY XferAssumption

LEMMA HistoryType ==
  ASSUME NEW h, HistoryOk(h), NEW p \in Proc, NEW g \in Gid
  PROVE  /\ h.obj[p][g] \in PrioOrNone /\ h.set[p][g] \in PrioOrNone
         /\ \A q \in Proc : h.copy[p][g][q] \in PrioOrNone
         /\ Owns(h, p, g) => h.obj[p][g] \in Prio
         /\ \A q \in Proc : Sends(h, p, g, q) => h.copy[p][g][q] \in Prio
         /\ Local(h, p, g) \in PrioOrNone
         /\ Local(h, p, g) = NoPrio <=> ~Owns(h, p, g) \/ g \in h.del[p]
<1>1. h \in History
  BY DEF HistoryOk
<1>2. /\ h.obj \in [Proc -> [Gid -> PrioOrNone]] /\ h.copy \in [Proc -> [Gid -> [Proc -> PrioOrNone]]]
      /\ h.set \in [Proc -> [Gid -> PrioOrNone]]
  BY <1>1 DEF History
<1>3. /\ h.obj[p][g] \in PrioOrNone /\ h.set[p][g] \in PrioOrNone
      /\ \A q \in Proc : h.copy[p][g][q] \in PrioOrNone
  BY <1>2
<1>4. h.set[p][g] # NoPrio => Owns(h, p, g) /\ g \notin h.del[p]
  BY DEF HistoryOk
<1> QED  BY <1>3, <1>4 DEF PrioOrNone, Owns, Sends, Local

LEMMA SentType ==
  ASSUME NEW h, HistoryOk(h), NEW g \in Gid, NEW d \in Proc, NEW S \in SUBSET Senders(h, g, d), S # {}
  PROVE  PriosOf(h, g, d, S) \subseteq Prio /\ PriosOf(h, g, d, S) # {} /\ IsFiniteSet(PriosOf(h, g, d, S))
<1> DEFINE P == {h.copy[s][g][d] : s \in S}
<1>1. S \subseteq Proc
  BY DEF Senders
<1>2. IsFiniteSet(S)
  BY <1>1, Distinct, FS_Subset
<1>3. IsFiniteSet(P)
  <2> DEFINE f == [s \in S |-> h.copy[s][g][d]]
  <2>1. f \in Surjection(S, P)
    BY DEF Surjection
  <2> HIDE DEF f
  <2> QED  BY <1>2, <2>1, FS_Surjection
<1>4. \A s \in S : h.copy[s][g][d] \in Prio
  BY <1>1, HistoryType DEF Senders
<1> QED  BY <1>3, <1>4 DEF PriosOf

LEMMA FinalType ==
  ASSUME IsMergeLattice, NEW h, HistoryOk(h), NEW p \in Proc, NEW g \in Gid
  PROVE  /\ Final(h, p, g) \in PrioOrNone
         /\ Gets(h, p, g) => MergeAll(Sent(h, g, p)) \in Prio
         /\ Final(h, p, g) = NoPrio <=> ~Gets(h, p, g) /\ (~Owns(h, p, g) \/ g \in h.del[p])
<1>1. Gets(h, p, g) => MergeAll(Sent(h, g, p)) \in Prio
  <2> SUFFICES ASSUME Gets(h, p, g) PROVE MergeAll(Sent(h, g, p)) \in Prio
    OBVIOUS
  <2>1. Sent(h, g, p) \subseteq Prio /\ Sent(h, g, p) # {} /\ IsFiniteSet(Sent(h, g, p))
    BY SentType DEF Sent, Gets
  <2> QED  BY <2>1, MergeAllType
<1>2. CASE ~Gets(h, p, g)
  BY <1>2, HistoryType DEF Final
<1>3. CASE Gets(h, p, g)
  <2>1. CASE ~Owns(h, p, g) \/ g \in h.del[p] \/ g \in h.pruned[p]
    BY <1>1, <1>3, <2>1, Distinct DEF Final, PrioOrNone
  <2>2. CASE ~(~Owns(h, p, g) \/ g \in h.del[p] \/ g \in h.pruned[p])
    <3>1. Local(h, p, g) \in Prio
      BY <2>2, HistoryType DEF PrioOrNone
    <3> QED  BY <1>1, <1>3, <2>2, <3>1, Distinct, MergeIsPrio DEF Final, PrioOrNone
  <2> QED  BY <2>1, <2>2
<1> QED  BY <1>1, <1>2, <1>3

(* An owner of a copy that is left after the transfer hears from all senders *)
(* but itself of a new owner.                                                *)
LEMMA OwnerHearsAll ==
  ASSUME IsMergeLattice, NEW h, HistoryOk(h), NEW p \in Proc, NEW g \in Gid, NEW d \in Proc,
         Owns(h, p, g), IsNew(h, d, g)
  PROVE  /\ Tellers(h, p, g, d) = Senders(h, g, d) \ {p}
         /\ ~Sends(h, p, g, d) => Tellers(h, p, g, d) # {} /\ MergeAll(Told(h, p, g, d)) = Final(h, d, g)
         /\ Sends(h, p, g, d) /\ Tellers(h, p, g, d) = {} => h.copy[p][g][d] = Final(h, d, g)
         /\ Sends(h, p, g, d) /\ Tellers(h, p, g, d) # {} =>
              MergedPrio(h.copy[p][g][d], MergeAll(Told(h, p, g, d))) = Final(h, d, g)
<1>1. d # p /\ Gets(h, d, g) /\ Final(h, d, g) = MergeAll(Sent(h, g, d))
  BY DEF IsNew, Final
<1>2. Tellers(h, p, g, d) = Senders(h, g, d) \ {p}
  BY <1>1 DEF Tellers
<1>3. ASSUME ~Sends(h, p, g, d)
      PROVE  Tellers(h, p, g, d) # {} /\ MergeAll(Told(h, p, g, d)) = Final(h, d, g)
  <2>1. Tellers(h, p, g, d) = Senders(h, g, d)
    BY <1>2, <1>3 DEF Senders
  <2> QED  BY <1>1, <2>1 DEF Told, Sent, Gets
<1>4. ASSUME Sends(h, p, g, d), Tellers(h, p, g, d) = {}
      PROVE  h.copy[p][g][d] = Final(h, d, g)
  <2>1. Senders(h, g, d) = {p}
    BY <1>2, <1>4 DEF Senders
  <2>2. Sent(h, g, d) = {h.copy[p][g][d]}
    BY <2>1 DEF Sent, PriosOf
  <2>3. h.copy[p][g][d] \in Prio
    BY <1>4, HistoryType
  <2> QED  BY <1>1, <2>2, <2>3, MergeAllOfOne
<1>5. ASSUME Sends(h, p, g, d), Tellers(h, p, g, d) # {}
      PROVE  MergedPrio(h.copy[p][g][d], MergeAll(Told(h, p, g, d))) = Final(h, d, g)
  <2>1. Senders(h, g, d) = {p} \cup Tellers(h, p, g, d)
    BY <1>2, <1>5 DEF Senders
  <2>2. Sent(h, g, d) = {h.copy[p][g][d]} \cup Told(h, p, g, d)
    BY <2>1 DEF Sent, Told, PriosOf
  <2>3. h.copy[p][g][d] \in Prio
    BY <1>5, HistoryType
  <2>4. Told(h, p, g, d) \subseteq Prio /\ Told(h, p, g, d) # {} /\ IsFiniteSet(Told(h, p, g, d))
    <3>1. Tellers(h, p, g, d) \in SUBSET Senders(h, g, d)
      BY <1>2
    <3> QED  BY <1>5, <3>1, SentType DEF Told
  <2>5. MergeAll(Sent(h, g, d)) = MergedPrio(MergeAll({h.copy[p][g][d]}), MergeAll(Told(h, p, g, d)))
    BY <2>2, <2>3, <2>4, MergeAllOfUnion, FS_Singleton
  <2> QED  BY <1>1, <2>3, <2>5, MergeAllOfOne
<1> QED  BY <1>2, <1>3, <1>4, <1>5

-------------------------------------------------------------------------------
(* The messages of the phase of objects.                                     *)

LEMMA NewOwnersAre ==
  ASSUME NEW h, HistoryOk(h), NEW p \in Proc, Matches(h, p)
  PROVE  NewOwners(p) = NewOwnersOf(h, p)
<1>1. \A g \in Gid, q \in Proc : (copyObj[p][g][q] # NoPrio <=> Sends(h, p, g, q))
                               /\ (Sends(h, p, g, q) => q # p /\ Owns(h, p, g))
  BY DEF HistoryOk, Matches, Sends
<1>2. \A g \in Gid, q \in Proc : Sends(h, p, g, q) => (cpl[p][g][q] = NoPrio <=> IsNew(h, q, g))
  BY <1>1 DEF Matches, Before, IsNew, Owns, Gets, Senders
<1> QED  BY <1>1, <1>2 DEF NewOwners, NewOwnersOf

LEMMA DestsAre ==
  ASSUME NEW h, NEW p \in Proc, NEW g \in Gid, NEW q
  PROVE  q \in Dests(NewOwnersOf(h, p), g) <=> q \in Proc /\ Sends(h, p, g, q) /\ IsNew(h, q, g)
<1>1. ASSUME q \in Dests(NewOwnersOf(h, p), g) PROVE q \in Proc /\ Sends(h, p, g, q) /\ IsNew(h, q, g)
  BY <1>1 DEF Dests, NewOwnersOf
<1>2. ASSUME q \in Proc, Sends(h, p, g, q), IsNew(h, q, g) PROVE q \in Dests(NewOwnersOf(h, p), g)
  <2>1. <<g, q>> \in NewOwnersOf(h, p) /\ <<g, q>>[1] = g /\ <<g, q>>[2] = q
    BY <1>2 DEF NewOwnersOf
  <2> QED  BY <2>1 DEF Dests
<1> QED  BY <1>1, <1>2

LEMMA NewCplItemsAre ==
  ASSUME NEW h, HistoryOk(h), NEW p \in Proc, Matches(h, p)
  PROVE  /\ \A i \in NewCplItems(p) :
               /\ i.gid \in Gid /\ i.dest \in Proc /\ i.to \in Proc
               /\ p \in Tellers(h, i.to, i.gid, i.dest) /\ i.prio = h.copy[p][i.gid][i.dest]
         /\ \A g \in Gid, d, q \in Proc : p \in Tellers(h, q, g, d) =>
               \E i \in NewCplItems(p) : i.to = q /\ i.gid = g /\ i.dest = d
<1> DEFINE Item1(q, o) == [to |-> q, gid |-> o[1], dest |-> o[2], prio |-> copyObj[p][o[1]][o[2]]]
           Dest1(o) == Partners(p, o[1]) \cup (Dests(NewOwners(p), o[1]) \ {o[2]})
<1>1. \A i : i \in NewCplItems(p) <=> \E o \in NewOwners(p) : \E q \in Dest1(o) : i = Item1(q, o)
  BY DEF NewCplItems
<1>2. NewOwners(p) = NewOwnersOf(h, p)
  BY NewOwnersAre
<1>3. \A g \in Gid : \A q : q \in Partners(p, g) <=> q \in Proc /\ q # p /\ Owns(h, p, g) /\ Owns(h, q, g)
  BY DEF Partners, Matches, Before, Owns
<1>4. \A g \in Gid : \A q : q \in Dests(NewOwners(p), g) <=> q \in Proc /\ Sends(h, p, g, q) /\ IsNew(h, q, g)
  BY <1>2, DestsAre
<1>5. \A o \in NewOwners(p) : \A q : q \in Dest1(o) <=> q \in Proc /\ p \in Tellers(h, q, o[1], o[2])
  <2> SUFFICES ASSUME NEW o \in NewOwners(p), NEW q
               PROVE  q \in Dest1(o) <=> q \in Proc /\ p \in Tellers(h, q, o[1], o[2])
    OBVIOUS
  <2>1. o[1] \in Gid /\ o[2] \in Proc /\ Sends(h, p, o[1], o[2]) /\ IsNew(h, o[2], o[1])
    BY <1>2 DEF NewOwnersOf
  <2>2. p \in Senders(h, o[1], o[2]) /\ Owns(h, p, o[1])
    BY <2>1 DEF Senders, HistoryOk
  <2>3. q \in Proc /\ Sends(h, p, o[1], q) => p # q /\ (Owns(h, q, o[1]) \/ IsNew(h, q, o[1]))
    BY <2>1 DEF HistoryOk, IsNew, Gets, Senders
  <2>4. ~Owns(h, o[2], o[1])
    BY <2>1 DEF IsNew
  <2> QED  BY <1>3, <1>4, <2>1, <2>2, <2>3, <2>4 DEF Tellers
<1>6. \A g \in Gid, d, q \in Proc : p \in Tellers(h, q, g, d) => <<g, d>> \in NewOwners(p)
  BY <1>2 DEF Tellers, Senders, NewOwnersOf
<1>7. \A o \in NewOwners(p) : o \in Gid \X Proc /\ copyObj[p][o[1]][o[2]] = h.copy[p][o[1]][o[2]]
  BY DEF NewOwners, Matches
<1> HIDE DEF Dest1
<1>8. ASSUME NEW i \in NewCplItems(p)
      PROVE  /\ i.gid \in Gid /\ i.dest \in Proc /\ i.to \in Proc
             /\ p \in Tellers(h, i.to, i.gid, i.dest) /\ i.prio = h.copy[p][i.gid][i.dest]
  <2>1. PICK o \in NewOwners(p) : \E q \in Dest1(o) : i = Item1(q, o)
    BY <1>1
  <2>3. PICK q \in Dest1(o) : i = Item1(q, o)
    BY <2>1
  <2>2. i.to = q /\ i.gid = o[1] /\ i.dest = o[2] /\ i.prio = copyObj[p][o[1]][o[2]]
    BY <2>3
  <2> QED  BY <1>5, <1>7, <2>1, <2>2, <2>3
<1>9. ASSUME NEW g \in Gid, NEW d \in Proc, NEW q \in Proc, p \in Tellers(h, q, g, d)
      PROVE  \E i \in NewCplItems(p) : i.to = q /\ i.gid = g /\ i.dest = d
  <2>1. <<g, d>> \in NewOwners(p) /\ q \in Dest1(<<g, d>>)
    BY <1>5, <1>6, <1>9
  <2>2. Item1(q, <<g, d>>) \in NewCplItems(p)
    BY <1>1, <2>1
  <2> QED  BY <2>2
<1> QED  BY <1>8, <1>9

LEMMA OldCplItemsAre ==
  ASSUME NEW h, HistoryOk(h), NEW p \in Proc, Matches(h, p)
  PROVE  /\ \A i \in OldCplItems(p) :
               /\ i.gid \in Gid /\ i.proc \in Proc /\ i.to \in Proc
               /\ IsNew(h, i.to, i.gid) /\ Sends(h, p, i.gid, i.to)
               /\ Owns(h, i.proc, i.gid) /\ i.prio = h.obj[i.proc][i.gid]
         /\ \A g \in Gid, d, q \in Proc : IsNew(h, d, g) /\ Sends(h, p, g, d) /\ Owns(h, q, g) =>
               \E i \in OldCplItems(p) : i.to = d /\ i.gid = g /\ i.proc = q
<1> DEFINE Prio1(q, o) == IF q = p THEN obj[p][o[1]] ELSE cpl[p][o[1]][q]
           Item1(q, o) == [to |-> o[2], gid |-> o[1], proc |-> q, prio |-> Prio1(q, o)]
<1>1. \A i : i \in OldCplItems(p) <=> \E o \in NewOwners(p) : \E q \in Partners(p, o[1]) \cup {p} : i = Item1(q, o)
  BY DEF OldCplItems
<1>2. \A o : o \in NewOwners(p) <=> /\ o \in Gid \X Proc
                                     /\ Sends(h, p, o[1], o[2]) /\ IsNew(h, o[2], o[1])
  BY NewOwnersAre DEF NewOwnersOf
<1>3. \A g \in Gid, q \in Proc : Owns(h, p, g) =>
          /\ q \in Partners(p, g) \cup {p} <=> Owns(h, q, g)
          /\ Owns(h, q, g) => (IF q = p THEN obj[p][g] ELSE cpl[p][g][q]) = h.obj[q][g]
  BY DEF Partners, Matches, Before, Owns
<1>4. \A g \in Gid : Partners(p, g) \cup {p} \subseteq Proc
  BY DEF Partners
<1>5. \A g \in Gid, d \in Proc : Sends(h, p, g, d) => Owns(h, p, g)
  BY DEF HistoryOk
<1>6. ASSUME NEW i \in OldCplItems(p)
      PROVE  /\ i.gid \in Gid /\ i.proc \in Proc /\ i.to \in Proc
             /\ IsNew(h, i.to, i.gid) /\ Sends(h, p, i.gid, i.to)
             /\ Owns(h, i.proc, i.gid) /\ i.prio = h.obj[i.proc][i.gid]
  <2>1. PICK o \in NewOwners(p) : \E q \in Partners(p, o[1]) \cup {p} : i = Item1(q, o)
    BY <1>1
  <2>4. PICK q \in Partners(p, o[1]) \cup {p} : i = Item1(q, o)
    BY <2>1
  <2>2. i.to = o[2] /\ i.gid = o[1] /\ i.proc = q /\ i.prio = Prio1(q, o)
    BY <2>4
  <2>3. o[1] \in Gid /\ o[2] \in Proc /\ q \in Proc
    BY <1>2, <1>4
  <2> QED  BY <1>2, <1>3, <1>5, <2>1, <2>2, <2>3, <2>4
<1>7. ASSUME NEW g \in Gid, NEW d \in Proc, NEW q \in Proc, IsNew(h, d, g), Sends(h, p, g, d), Owns(h, q, g)
      PROVE  \E i \in OldCplItems(p) : i.to = d /\ i.gid = g /\ i.proc = q
  <2>1. <<g, d>> \in NewOwners(p) /\ q \in Partners(p, g) \cup {p}
    BY <1>2, <1>3, <1>5, <1>7
  <2>2. Item1(q, <<g, d>>) \in OldCplItems(p)
    BY <1>1, <2>1
  <2> QED  BY <2>2
<1> QED  BY <1>6, <1>7

LEMMA ObjMsgsAre ==
  ASSUME NEW h, HistoryOk(h), NEW p \in Proc, Matches(h, p)
  PROVE  ObjMsgsOk(h, p, ObjMsgs(p))
<1> DEFINE Objs(q) == {[gid |-> x, prio |-> copyObj[p][x][q]] : x \in {y \in Gid : copyObj[p][y][q] # NoPrio}}
           News(q) == {x \in NewCplItems(p) : x.to = q}
           Olds(q) == {x \in OldCplItems(p) : x.to = q}
           To(q) == ObjMsg(p, q, Objs(q), News(q), Olds(q))
<1>1. ObjMsgs(p) = {m \in {To(q) : q \in Proc \ {p}} : m.objs # {} \/ m.newCpl # {}}
  BY DEF ObjMsgs
<1>2. \A g \in Gid, q \in Proc : copyObj[p][g][q] = h.copy[p][g][q]
  BY DEF Matches
<1>3. \A q \in Proc : /\ \A o \in Objs(q) : o.gid \in Gid /\ Sends(h, p, o.gid, q) /\ o.prio = h.copy[p][o.gid][q]
                      /\ \A g \in Gid : Sends(h, p, g, q) => \E o \in Objs(q) : o.gid = g
  <2> SUFFICES ASSUME NEW q \in Proc
               PROVE  /\ \A o \in Objs(q) : o.gid \in Gid /\ Sends(h, p, o.gid, q) /\ o.prio = h.copy[p][o.gid][q]
                      /\ \A g \in Gid : Sends(h, p, g, q) => \E o \in Objs(q) : o.gid = g
    OBVIOUS
  <2>1. \A x \in Objs(q) : x.gid \in Gid /\ Sends(h, p, x.gid, q) /\ x.prio = h.copy[p][x.gid][q]
    BY <1>2 DEF Sends
  <2>2. ASSUME NEW g \in Gid, Sends(h, p, g, q) PROVE \E o \in Objs(q) : o.gid = g
    <3>1. [gid |-> g, prio |-> copyObj[p][g][q]] \in Objs(q)
      BY <1>2, <2>2 DEF Sends
    <3> QED  BY <3>1
  <2> QED  BY <2>1, <2>2
<1> HIDE DEF Objs
<1>4. \A q \in Proc : /\ \A i \in News(q) : /\ i.gid \in Gid /\ i.dest \in Proc
                                            /\ p \in Tellers(h, q, i.gid, i.dest) /\ i.prio = h.copy[p][i.gid][i.dest]
                      /\ \A g \in Gid, d \in Proc : p \in Tellers(h, q, g, d) => \E i \in News(q) : i.gid = g /\ i.dest = d
  BY NewCplItemsAre
<1>5. \A q \in Proc : /\ \A i \in Olds(q) : /\ i.gid \in Gid /\ i.proc \in Proc
                                            /\ IsNew(h, q, i.gid) /\ Sends(h, p, i.gid, q)
                                            /\ Owns(h, i.proc, i.gid) /\ i.prio = h.obj[i.proc][i.gid]
                      /\ \A g \in Gid, r \in Proc : IsNew(h, q, g) /\ Sends(h, p, g, q) /\ Owns(h, r, g) =>
                            \E i \in Olds(q) : i.gid = g /\ i.proc = r
  BY OldCplItemsAre
<1> HIDE DEF News, Olds
<1>6. \A q : /\ To(q).kind = "obj" /\ To(q).from = p /\ To(q).to = q
             /\ To(q).objs = Objs(q) /\ To(q).newCpl = News(q) /\ To(q).oldCpl = Olds(q)
  BY DEF ObjMsg
<1> HIDE DEF To
<1>7. ASSUME NEW q \in Proc \ {p} PROVE ObjMsgOk(h, To(q))
  BY <1>3, <1>4, <1>5, <1>6 DEF ObjMsgOk
<1>8. ASSUME NEW d \in Proc \ {p}, Tells(h, p, d) PROVE \E m \in ObjMsgs(p) : m.to = d
  <2>1. PICK g \in Gid : Sends(h, p, g, d) \/ \E x \in Proc : p \in Tellers(h, d, g, x)
    BY <1>8 DEF Tells
  <2>2. Objs(d) # {} \/ News(d) # {}
    BY <1>3, <1>4, <2>1
  <2>3. To(d) \in ObjMsgs(p)
    BY <1>1, <1>6, <2>2
  <2> QED  BY <1>6, <2>3
<1> QED  BY <1>1, <1>6, <1>7, <1>8 DEF ObjMsgsOk

-------------------------------------------------------------------------------
(* Unpacking of the objects.                                                 *)

(* The items of p when its own commands have been executed.                  *)
Executed(h, p) ==
    /\ \A g \in Gid : obj[p][g] = Local(h, p, g)
    /\ \A g \in Gid, q \in Proc : cpl[p][g][q] = IF g \in h.del[p] THEN NoPrio ELSE Before(h, p, g, q)
    /\ \A g \in Gid : setPrio[p][g] = h.set[p][g]
    /\ pruned[p] = h.pruned[p]
    /\ newOwner[p] = NewOwnersOf(h, p)
    /\ DOMAIN delObj[p] = h.del[p]
    /\ \A g \in h.del[p], q \in Proc :
          delObj[p][g][q] = IF <<g, q>> \in NewOwnersOf(h, p) THEN PrioInvalid ELSE Before(h, p, g, q)
    /\ \A i \in modCpl[p] :
          /\ i.gid \in Gid /\ i.to \in Proc /\ h.set[p][i.gid] # NoPrio /\ i.prio = h.set[p][i.gid]
          /\ Before(h, p, i.gid, i.to) # NoPrio \/ <<i.gid, i.to>> \in NewOwnersOf(h, p)
    /\ \A g \in Gid, q \in Proc :
          h.set[p][g] # NoPrio /\ (Before(h, p, g, q) # NoPrio \/ <<g, q>> \in NewOwnersOf(h, p)) =>
              \E i \in modCpl[p] : i.gid = g /\ i.to = q

(* All that is told to p. *)
AllIn(h, p, in) ==
    /\ \A m \in in : ObjMsgOk(h, m) /\ m.to = p
    /\ \A s \in Proc \ {p} : Tells(h, s, p) => \E m \in in : m.from = s

LEMMA IncomingIs ==
  ASSUME NEW h, HistoryOk(h), NEW p \in Proc, NEW g \in Gid, NEW in, AllIn(h, p, in)
  PROVE  /\ Incoming(in, g) = Sent(h, g, p)
         /\ IsReceived(in, g) <=> Gets(h, p, g)
<1>1. \A x : x \in Incoming(in, g) <=> \E m \in in : \E o \in m.objs : o.gid = g /\ x = o.prio
  BY DEF Incoming
<1>2. \A x : x \in Sent(h, g, p) <=> \E s \in Proc : Sends(h, s, g, p) /\ x = h.copy[s][g][p]
  BY DEF Sent, PriosOf, Senders
<1>3. ASSUME NEW x \in Incoming(in, g) PROVE x \in Sent(h, g, p)
  <2>1. PICK m \in in : \E o \in m.objs : o.gid = g /\ x = o.prio
    BY <1>1
  <2>2. m.from \in Proc /\ Sends(h, m.from, g, p) /\ x = h.copy[m.from][g][p]
    BY <2>1 DEF AllIn, ObjMsgOk
  <2> QED  BY <1>2, <2>2
<1>4. ASSUME NEW x \in Sent(h, g, p) PROVE x \in Incoming(in, g)
  <2>1. PICK s \in Proc : Sends(h, s, g, p) /\ x = h.copy[s][g][p]
    BY <1>2
  <2>2. s # p /\ Tells(h, s, p)
    BY <2>1 DEF HistoryOk, Tells
  <2>3. PICK m \in in : m.from = s
    BY <2>2 DEF AllIn
  <2>4. PICK o \in m.objs : o.gid = g
    BY <2>1, <2>3 DEF AllIn, ObjMsgOk
  <2>5. o.prio = x
    BY <2>1, <2>3, <2>4 DEF AllIn, ObjMsgOk
  <2> QED  BY <1>1, <2>4, <2>5
<1>5. Incoming(in, g) = Sent(h, g, p)
  BY <1>3, <1>4
<1>6. Sent(h, g, p) # {} <=> Gets(h, p, g)
  BY DEF Sent, PriosOf, Gets
<1> QED  BY <1>5, <1>6 DEF IsReceived

LEMMA NewCplAre ==
  ASSUME NEW h, HistoryOk(h), NEW p \in Proc, NEW g \in Gid, NEW in, AllIn(h, p, in)
  PROVE  /\ \A d \in Proc : NewCplPrios(in, g, d) = Told(h, p, g, d)
         /\ \A d : d \in NewCplDests(in, g) <=> d \in Proc /\ Tellers(h, p, g, d) # {}
<1>1. ASSUME NEW d \in Proc PROVE NewCplPrios(in, g, d) = Told(h, p, g, d)
  <2>1. \A x : x \in NewCplPrios(in, g, d) <=> \E m \in in : \E i \in m.newCpl : i.gid = g /\ i.dest = d /\ x = i.prio
    BY DEF NewCplPrios
  <2>2. \A x : x \in Told(h, p, g, d) <=> \E s \in Tellers(h, p, g, d) : x = h.copy[s][g][d]
    BY DEF Told, PriosOf
  <2>3. ASSUME NEW x \in NewCplPrios(in, g, d) PROVE x \in Told(h, p, g, d)
    <3>1. PICK m \in in : \E i \in m.newCpl : i.gid = g /\ i.dest = d /\ x = i.prio
      BY <2>1
    <3>2. m.from \in Tellers(h, p, g, d) /\ x = h.copy[m.from][g][d]
      BY <3>1 DEF AllIn, ObjMsgOk
    <3> QED  BY <2>2, <3>2
  <2>4. ASSUME NEW x \in Told(h, p, g, d) PROVE x \in NewCplPrios(in, g, d)
    <3>1. PICK s \in Tellers(h, p, g, d) : x = h.copy[s][g][d]
      BY <2>2
    <3>2. s \in Proc \ {p} /\ Tells(h, s, p)
      BY <3>1 DEF Tells, Tellers, Senders
    <3>3. PICK m \in in : m.from = s
      BY <3>2 DEF AllIn
    <3>4. PICK i \in m.newCpl : i.gid = g /\ i.dest = d
      BY <3>1, <3>3 DEF AllIn, ObjMsgOk
    <3>5. i.prio = x
      BY <3>1, <3>3, <3>4 DEF AllIn, ObjMsgOk
    <3> QED  BY <2>1, <3>4, <3>5
  <2> QED  BY <2>3, <2>4
<1>2. \A d : Told(h, p, g, d) # {} <=> Tellers(h, p, g, d) # {}
  BY DEF Told, PriosOf
<1> QED  BY <1>1, <1>2 DEF NewCplDests

LEMMA LocalCoupledAre ==
  ASSUME NEW h, HistoryOk(h), NEW p \in Proc, NEW g \in Gid, Executed(h, p)
  PROVE  /\ g \in LocalCoupledObjects(p) => Owns(h, p, g) /\ g \notin h.del[p]
         /\ Owns(h, p, g) /\ g \notin h.del[p] /\ Gets(h, p, g) => g \in LocalCoupledObjects(p)
         /\ \A d \in Proc : Owns(h, p, g) /\ g \notin h.del[p] /\ Tellers(h, p, g, d) # {} => g \in LocalCoupledObjects(p)
<1>1. obj[p][g] = NoPrio <=> ~Owns(h, p, g) \/ g \in h.del[p]
  BY HistoryType DEF Executed
<1>2. ASSUME NEW s \in Proc, s # p, Owns(h, s, g), Owns(h, p, g), g \notin h.del[p]
      PROVE  g \in LocalCoupledObjects(p)
  <2>1. cpl[p][g][s] # NoPrio
    BY <1>2 DEF Executed, Before, Owns
  <2> QED  BY <1>1, <1>2, <2>1 DEF LocalCoupledObjects, HasCpl, Partners
<1>3. Gets(h, p, g) => \E s \in Proc : s # p /\ Owns(h, s, g)
  BY DEF Gets, Senders, HistoryOk
<1>4. \A d \in Proc : Tellers(h, p, g, d) # {} => \E s \in Proc : s # p /\ Owns(h, s, g)
  BY DEF Tellers, Senders, HistoryOk
<1> QED  BY <1>1, <1>2, <1>3, <1>4 DEF LocalCoupledObjects

Merges(h, p, g) == Owns(h, p, g) /\ g \notin h.del[p] /\ g \notin h.pruned[p] /\ Gets(h, p, g)

LEMMA NewnessIs ==
  ASSUME NEW h, HistoryOk(h), NEW p \in Proc, NEW g \in Gid, NEW in, AllIn(h, p, in), Executed(h, p)
  PROVE  /\ Newness(p, in, g) = "none" <=> ~Gets(h, p, g)
         /\ Newness(p, in, g) = "TOTALNEW" <=> Gets(h, p, g) /\ (~Owns(h, p, g) \/ g \in h.del[p])
         /\ Newness(p, in, g) = "PRUNEDNEW" <=> Gets(h, p, g) /\ Owns(h, p, g) /\ g \notin h.del[p] /\ g \in h.pruned[p]
         /\ Newness(p, in, g) = "PARTNEW" <=> Merges(h, p, g) /\ FirstWins(MergeAll(Sent(h, g, p)), Local(h, p, g))
         /\ Newness(p, in, g) = "NOTNEW" <=> Merges(h, p, g) /\ ~FirstWins(MergeAll(Sent(h, g, p)), Local(h, p, g))
         /\ Newness(p, in, g) \in {"none", "TOTALNEW", "PRUNEDNEW", "PARTNEW", "NOTNEW"}
<1>1. Incoming(in, g) = Sent(h, g, p) /\ (IsReceived(in, g) <=> Gets(h, p, g))
  BY IncomingIs
<1>2. Gets(h, p, g) => (g \in LocalCoupledObjects(p) <=> Owns(h, p, g) /\ g \notin h.del[p])
  BY LocalCoupledAre
<1>3. obj[p][g] = Local(h, p, g) /\ pruned[p] = h.pruned[p]
  BY DEF Executed
<1> QED  BY <1>1, <1>2, <1>3 DEF Newness, Merges

LEMMA AcceptedIs ==
  ASSUME IsMergeLattice, NEW h, HistoryOk(h), NEW p \in Proc, NEW g \in Gid, NEW in, AllIn(h, p, in), Executed(h, p)
  PROVE  AcceptedPrio(p, in, g) = Final(h, p, g)
<1>1. Incoming(in, g) = Sent(h, g, p)
  BY IncomingIs
<1>2. obj[p][g] = Local(h, p, g)
  BY DEF Executed
<1> QED  BY <1>1, <1>2, NewnessIs DEF AcceptedPrio, Final, Merges

LEMMA NewOwnerPrioIs ==
  ASSUME IsMergeLattice, NEW h, HistoryOk(h), NEW p \in Proc, NEW g \in Gid, NEW in, AllIn(h, p, in), Executed(h, p),
         copyObj[p] = h.copy[p], NEW d \in Proc, IsNew(h, d, g)
  PROVE  NewOwnerPrio(p, in, g, d) = IF Owns(h, p, g) THEN Final(h, d, g) ELSE MergeAll(Told(h, p, g, d))
<1>1. NewCplPrios(in, g, d) = Told(h, p, g, d)
  BY NewCplAre
<1>2. d \in Dests(newOwner[p], g) <=> Sends(h, p, g, d)
  BY DestsAre DEF Executed
<1>3. Sends(h, p, g, d) => Owns(h, p, g)
  BY DEF HistoryOk
<1>4. Told(h, p, g, d) = {} <=> Tellers(h, p, g, d) = {}
  BY DEF Told, PriosOf
<1>5. CASE Owns(h, p, g)
  BY <1>1, <1>2, <1>4, <1>5, OwnerHearsAll DEF NewOwnerPrio
<1>6. CASE ~Owns(h, p, g)
  BY <1>1, <1>2, <1>3, <1>6 DEF NewOwnerPrio
<1> QED  BY <1>5, <1>6

LEMMA OldCplIs ==
  ASSUME NEW h, HistoryOk(h), NEW p \in Proc, NEW g \in Gid, NEW in, AllIn(h, p, in), Gets(h, p, g), NEW q \in Proc
  PROVE  LET old == OldCpl(AcceptedMsg(in, g), g, q)
         IN  IF IsNew(h, p, g) /\ Owns(h, q, g) THEN old = {h.obj[q][g]} ELSE old = {}
<1> DEFINE with == {m \in in : \E o \in m.objs : o.gid = g}
           best == {m \in with : \E o \in m.objs : o.gid = g /\ o.prio = MergeAll(Incoming(in, g))}
           msg == AcceptedMsg(in, g)
<1>1. msg = IF best # {} THEN CHOOSE m \in best : TRUE ELSE CHOOSE m \in with : TRUE
  BY DEF AcceptedMsg
<1>2. with # {}
  <2>1. Incoming(in, g) # {}
    BY IncomingIs DEF IsReceived
  <2> QED  BY <2>1 DEF Incoming
<1>3. msg \in with
  BY <1>1, <1>2
<1> HIDE DEF msg
<1>4. ObjMsgOk(h, msg) /\ msg.to = p /\ Sends(h, msg.from, g, p)
  BY <1>3 DEF AllIn, ObjMsgOk
<1>5. ASSUME NEW x PROVE x \in OldCpl(msg, g, q) <=> \E i \in msg.oldCpl : i.gid = g /\ i.proc = q /\ x = i.prio
  BY DEF OldCpl
<1>6. CASE IsNew(h, p, g) /\ Owns(h, q, g)
  <2>1. \E i \in msg.oldCpl : i.gid = g /\ i.proc = q
    BY <1>4, <1>6 DEF ObjMsgOk
  <2>2. \A i \in msg.oldCpl : i.gid = g /\ i.proc = q => i.prio = h.obj[q][g]
    BY <1>4 DEF ObjMsgOk
  <2> QED  BY <1>5, <1>6, <2>1, <2>2 DEF msg
<1>7. CASE ~(IsNew(h, p, g) /\ Owns(h, q, g))
  <2>1. \A i \in msg.oldCpl : ~(i.gid = g /\ i.proc = q)
    BY <1>4, <1>7 DEF ObjMsgOk
  <2> QED  BY <1>5, <1>7, <2>1 DEF msg
<1> QED  BY <1>6, <1>7

LEMMA UpdatedIs ==
  ASSUME IsMergeLattice, NEW h, HistoryOk(h), NEW p \in Proc, NEW g \in Gid, NEW in, AllIn(h, p, in), Executed(h, p),
         copyObj[p] = h.copy[p], NEW q \in Proc
  PROVE  UpdatedCpl(p, in, g, q) = Middle(h, p, g, q)
<1> DEFINE Given == q \in Dests(newOwner[p], g)
           Heard == q \in NewCplDests(in, g) /\ (IsReceived(in, g) \/ g \in LocalCoupledObjects(p))
           Back == IsReceived(in, g) /\ g \in DOMAIN delObj[p] /\ delObj[p][g][q] \notin {NoPrio, PrioInvalid}
           First == Newness(p, in, g) = "TOTALNEW" /\ OldCpl(AcceptedMsg(in, g), g, q) # {}
<1>1. /\ IsReceived(in, g) <=> Gets(h, p, g)
      /\ Newness(p, in, g) = "none" <=> ~Gets(h, p, g)
      /\ Newness(p, in, g) = "TOTALNEW" <=> Gets(h, p, g) /\ (~Owns(h, p, g) \/ g \in h.del[p])
  BY IncomingIs, NewnessIs
<1>2. /\ obj[p][g] = NoPrio <=> ~Owns(h, p, g) \/ g \in h.del[p]
      /\ Final(h, p, g) = NoPrio <=> ~Gets(h, p, g) /\ (~Owns(h, p, g) \/ g \in h.del[p])
      /\ cpl[p][g][q] = IF g \in h.del[p] THEN NoPrio ELSE Before(h, p, g, q)
  BY HistoryType, FinalType DEF Executed
<1>3. Given <=> Sends(h, p, g, q) /\ IsNew(h, q, g)
  BY DestsAre DEF Executed
<1>4. q \in NewCplDests(in, g) <=> Tellers(h, p, g, q) # {}
  BY NewCplAre
<1>5. Sends(h, p, g, q) => Owns(h, p, g) /\ p # q
  BY DEF HistoryOk
<1>6. g \in h.del[p] => Owns(h, p, g)
  BY DEF HistoryOk
<1>7. Tellers(h, p, g, q) # {} => IsNew(h, q, g) /\ p # q /\ (Owns(h, p, g) \/ Gets(h, p, g))
  BY DEF Tellers, Gets, Senders
<1>8. /\ g \in LocalCoupledObjects(p) => Owns(h, p, g) /\ g \notin h.del[p]
      /\ Owns(h, p, g) /\ g \notin h.del[p] /\ Tellers(h, p, g, q) # {} => g \in LocalCoupledObjects(p)
  BY LocalCoupledAre
<1>9. Owns(h, p, g) /\ IsNew(h, q, g) /\ ~Sends(h, p, g, q) => Tellers(h, p, g, q) # {}
  BY OwnerHearsAll
<1>10. IsNew(h, q, g) <=> ~Owns(h, q, g) /\ Gets(h, q, g)
  BY DEF IsNew
<1>11. IsNew(h, q, g) => NewOwnerPrio(p, in, g, q) = IF Owns(h, p, g) THEN Final(h, q, g) ELSE MergeAll(Told(h, p, g, q))
  BY NewOwnerPrioIs
<1>12. CASE Final(h, p, g) = NoPrio
  BY <1>1, <1>2, <1>12 DEF UpdatedCpl, Middle
<1>13. CASE Final(h, p, g) # NoPrio /\ (Given \/ Heard)
  <2>1. IsNew(h, q, g) /\ p # q
    BY <1>3, <1>4, <1>5, <1>7, <1>13
  <2>2. UpdatedCpl(p, in, g, q) = NewOwnerPrio(p, in, g, q)
    BY <1>1, <1>2, <1>13 DEF UpdatedCpl
  <2>3. ~Owns(h, p, g) => Tellers(h, p, g, q) # {}
    BY <1>3, <1>4, <1>5, <1>13
  <2> QED  BY <1>10, <1>11, <1>13, <2>1, <2>2, <2>3 DEF Middle
<1>14. CASE Final(h, p, g) # NoPrio /\ ~(Given \/ Heard)
  <2>1. Tellers(h, p, g, q) = {}
    BY <1>1, <1>2, <1>4, <1>7, <1>8, <1>14
  <2>2. UpdatedCpl(p, in, g, q) = IF Back THEN delObj[p][g][q]
                                  ELSE IF First THEN CHOOSE prio \in OldCpl(AcceptedMsg(in, g), g, q) : TRUE
                                  ELSE cpl[p][g][q]
    BY <1>1, <1>2, <1>14 DEF UpdatedCpl
  <2>3. g \in h.del[p] => delObj[p][g][q] = Before(h, p, g, q)
    <3>1. <<g, q>> \notin NewOwnersOf(h, p)
      BY <1>3, <1>14 DEF NewOwnersOf
    <3> QED  BY <3>1 DEF Executed
  <2>4. DOMAIN delObj[p] = h.del[p]
    BY DEF Executed
  <2>5. Before(h, p, g, q) \in PrioOrNone /\ PrioInvalid \notin PrioOrNone
    BY HistoryType, Distinct DEF Before, PrioOrNone
  <2>6. Middle(h, p, g, q) = IF p # q /\ Owns(h, q, g) THEN h.obj[q][g] ELSE NoPrio
    <3>1. IsNew(h, q, g) => ~Owns(h, p, g)
      BY <1>3, <1>9, <1>14, <2>1
    <3> QED  BY <1>10, <1>14, <2>1, <3>1 DEF Middle
  <2>7. CASE Owns(h, p, g)
    <3>1. ~First \/ g \in h.del[p]
      BY <1>1, <2>7
    <3>2. Before(h, p, g, q) = IF p # q /\ Owns(h, q, g) THEN h.obj[q][g] ELSE NoPrio
      BY <2>7 DEF Before, Owns
    <3>3. CASE g \notin h.del[p]
      BY <1>1, <1>2, <2>2, <2>4, <2>6, <2>7, <3>2, <3>3
    <3>4. CASE g \in h.del[p]
      <4>1. Gets(h, p, g)
        BY <1>2, <1>14, <3>4
      <4>2. Back <=> Before(h, p, g, q) # NoPrio
        BY <1>1, <2>3, <2>4, <2>5, <3>4, <4>1
      <4>3. ~Back => ~First
        BY <2>7, <4>1, OldCplIs DEF IsNew
      <4> QED  BY <1>2, <2>2, <2>3, <2>6, <3>2, <3>4, <4>2, <4>3
    <3> QED  BY <3>3, <3>4
  <2>8. CASE ~Owns(h, p, g)
    <3>1. IsNew(h, p, g)
      BY <1>2, <1>14, <2>8 DEF IsNew
    <3>2. ~Back /\ cpl[p][g][q] = NoPrio
      BY <1>2, <1>6, <2>4, <2>8 DEF Before
    <3>3. IF Owns(h, q, g) THEN OldCpl(AcceptedMsg(in, g), g, q) = {h.obj[q][g]} ELSE OldCpl(AcceptedMsg(in, g), g, q) = {}
      BY <3>1, OldCplIs DEF IsNew
    <3>4. First <=> Owns(h, q, g)
      BY <1>1, <1>2, <1>14, <2>8, <3>3
    <3>5. p # q \/ ~Owns(h, q, g)
      BY <2>8
    <3> QED  BY <2>2, <2>6, <3>2, <3>3, <3>4, <3>5
  <2> QED  BY <2>7, <2>8
<1> QED  BY <1>12, <1>13, <1>14

-------------------------------------------------------------------------------
(* The messages of the phase of couplings.                                   *)

(* What a message says is so after the transfer; who is told to forget the   *)
(* sender's copy is told of the new one by the same message, if there is one;*)
(* and who is told of a new priority knows of the copy.                      *)
CplMsgOk(h, m) ==
    /\ m.kind = "cpl" /\ m.from \in Proc /\ m.to \in Proc /\ m.from # m.to
    /\ \A i \in m.add : /\ i.gid \in Gid /\ i.proc \in Proc /\ i.proc # m.to
                        /\ i.prio = Final(h, i.proc, i.gid) /\ i.prio # NoPrio
    /\ \A g \in m.del : /\ g \in Gid
                        /\ Final(h, m.from, g) = NoPrio \/ \E i \in m.add : i.gid = g /\ i.proc = m.from
    /\ \A i \in m.mod : /\ i.gid \in Gid /\ i.prio = Final(h, m.from, i.gid) /\ i.prio # NoPrio
                        /\ Final(h, m.to, i.gid) # NoPrio => Middle(h, m.to, i.gid, m.from) # NoPrio

(* The part of p in making the couplings right: owners tell of their own     *)
(* copies, senders introduce the new owners to each other.                   *)
Covers(h, p, M) ==
    \A g \in Gid, d \in Proc \ {p} : Final(h, d, g) # NoPrio =>
        /\ Owns(h, p, g) /\ Final(h, p, g) = NoPrio => \E m \in M : m.to = d /\ g \in m.del
        /\ Owns(h, p, g) /\ Final(h, p, g) # NoPrio /\ Middle(h, d, g, p) # Final(h, p, g) =>
              \E m \in M : m.to = d /\ \E i \in m.mod : i.gid = g
        /\ IsNew(h, d, g) /\ Sends(h, p, g, d) =>
              \A q \in Proc \ {d} : IsNew(h, q, g) =>
                  \E m \in M : m.to = d /\ \E i \in m.add : i.gid = g /\ i.proc = q

(* The items are right, and all that are needed; messages carry all items.   *)
AddsRight(h, p, add) ==
    /\ \A x \in add : /\ x.to \in Proc /\ x.gid \in Gid /\ x.proc \in Proc /\ x.proc # x.to /\ x.to # p
                      /\ x.prio = Final(h, x.proc, x.gid) /\ x.prio # NoPrio
    /\ \A g \in Gid, d \in Proc : Gets(h, p, g) /\ Tellers(h, p, g, d) # {} =>
          \E x \in add : x.to = d /\ x.gid = g /\ x.proc = p
    /\ \A g \in Gid, d, q \in Proc : d # q /\ Sends(h, p, g, d) /\ IsNew(h, d, g) /\ IsNew(h, q, g) =>
          \E x \in add : x.to = d /\ x.gid = g /\ x.proc = q
DelsRight(h, p, del) ==
    /\ \A x \in del : /\ x.to \in Proc /\ x.gid \in Gid /\ x.to # p
                      /\ Final(h, p, x.gid) = NoPrio \/ (Gets(h, p, x.gid) /\ Tellers(h, p, x.gid, x.to) # {})
    /\ \A g \in Gid, d \in Proc \ {p} : Owns(h, p, g) /\ Final(h, p, g) = NoPrio /\ Final(h, d, g) # NoPrio =>
          \E x \in del : x.to = d /\ x.gid = g
ModsRight(h, p, mod) ==
    /\ \A x \in mod : /\ x.to \in Proc /\ x.gid \in Gid /\ x.to # p
                      /\ UnifiedPrio(mod, x.to, x.gid) = Final(h, p, x.gid)
                      /\ Final(h, p, x.gid) # NoPrio
                      /\ Final(h, x.to, x.gid) # NoPrio => Middle(h, x.to, x.gid, p) # NoPrio
    /\ \A g \in Gid, d \in Proc \ {p} : Owns(h, p, g) /\ Final(h, d, g) # NoPrio
             /\ Final(h, p, g) # NoPrio /\ Middle(h, d, g, p) # Final(h, p, g) =>
          \E x \in mod : x.to = d /\ x.gid = g
Carry(p, M, mod, del, add) ==
    /\ \A m \in M :
         /\ m.kind = "cpl" /\ m.from = p /\ m.to \in Proc
         /\ m.mod # {} \/ m.del # {} \/ m.add # {}
         /\ \A i \in m.add : \E x \in add : x.to = m.to /\ x.gid = i.gid /\ x.proc = i.proc /\ x.prio = i.prio
         /\ \A x \in add : x.to = m.to => \E i \in m.add : i.gid = x.gid /\ i.proc = x.proc
         /\ \A g \in m.del : \E x \in del : x.to = m.to /\ x.gid = g
         /\ \A i \in m.mod : i.prio = UnifiedPrio(mod, m.to, i.gid) /\ \E x \in mod : x.to = m.to /\ x.gid = i.gid
    /\ \A x \in add : x.to \in Proc => \E m \in M : m.to = x.to /\ \E i \in m.add : i.gid = x.gid /\ i.proc = x.proc
    /\ \A x \in del : x.to \in Proc => \E m \in M : m.to = x.to /\ x.gid \in m.del
    /\ \A x \in mod : x.to \in Proc => \E m \in M : m.to = x.to /\ \E i \in m.mod : i.gid = x.gid

LEMMA CplMsgsAre ==
  ASSUME NEW p \in Proc, NEW mod, NEW del, NEW add
  PROVE  Carry(p, CplMsgs(p, mod, del, add), mod, del, add)
<1> DEFINE Mods(q) == {[gid |-> g, prio |-> UnifiedPrio(mod, q, g)] : g \in {i.gid : i \in {x \in mod : x.to = q}}}
           Dels(q) == {i.gid : i \in {x \in del : x.to = q}}
           Adds(q) == {[gid |-> i.gid, proc |-> i.proc, prio |-> i.prio] : i \in {x \in add : x.to = q}}
           To(q)   == CplMsg(p, q, Mods(q), Dels(q), Adds(q))
<1>1. CplMsgs(p, mod, del, add) = {m \in {To(q) : q \in Proc} : m.mod # {} \/ m.del # {} \/ m.add # {}}
  BY DEF CplMsgs
<1>2. ASSUME NEW q
      PROVE  /\ \A i \in Adds(q) : \E x \in add : x.to = q /\ x.gid = i.gid /\ x.proc = i.proc /\ x.prio = i.prio
             /\ \A x \in add : x.to = q => \E i \in Adds(q) : i.gid = x.gid /\ i.proc = x.proc
             /\ \A g \in Dels(q) : \E x \in del : x.to = q /\ x.gid = g
             /\ \A x \in del : x.to = q => x.gid \in Dels(q)
             /\ \A i \in Mods(q) : i.prio = UnifiedPrio(mod, q, i.gid) /\ \E x \in mod : x.to = q /\ x.gid = i.gid
             /\ \A x \in mod : x.to = q => \E i \in Mods(q) : i.gid = x.gid
  <2>1. \A i \in Adds(q) : \E x \in add : x.to = q /\ x.gid = i.gid /\ x.proc = i.proc /\ x.prio = i.prio
    OBVIOUS
  <2>2. ASSUME NEW x \in add, x.to = q PROVE \E i \in Adds(q) : i.gid = x.gid /\ i.proc = x.proc
    <3>1. [gid |-> x.gid, proc |-> x.proc, prio |-> x.prio] \in Adds(q)
      BY <2>2
    <3> QED  BY <3>1
  <2>3. \A g \in Dels(q) : \E x \in del : x.to = q /\ x.gid = g
    OBVIOUS
  <2>4. \A x \in del : x.to = q => x.gid \in Dels(q)
    OBVIOUS
  <2>5. \A i \in Mods(q) : i.prio = UnifiedPrio(mod, q, i.gid) /\ \E x \in mod : x.to = q /\ x.gid = i.gid
    <3> SUFFICES ASSUME NEW i \in Mods(q)
                 PROVE  i.prio = UnifiedPrio(mod, q, i.gid) /\ \E x \in mod : x.to = q /\ x.gid = i.gid
      OBVIOUS
    <3>1. PICK x \in mod : x.to = q /\ i = [gid |-> x.gid, prio |-> UnifiedPrio(mod, q, x.gid)]
      OBVIOUS
    <3> QED  BY <3>1
  <2>6. ASSUME NEW x \in mod, x.to = q PROVE \E i \in Mods(q) : i.gid = x.gid
    <3>1. [gid |-> x.gid, prio |-> UnifiedPrio(mod, q, x.gid)] \in Mods(q)
      BY <2>6
    <3> QED  BY <3>1
  <2> HIDE DEF Adds, Dels, Mods
  <2> QED  BY <2>1, <2>2, <2>3, <2>4, <2>5, <2>6
<1>3. \A q : /\ To(q).kind = "cpl" /\ To(q).from = p /\ To(q).to = q
             /\ To(q).mod = Mods(q) /\ To(q).del = Dels(q) /\ To(q).add = Adds(q)
  BY DEF CplMsg
<1> HIDE DEF Mods, Dels, Adds, To
<1>4. \A q \in Proc : Adds(q) # {} \/ Dels(q) # {} \/ Mods(q) # {} => To(q) \in CplMsgs(p, mod, del, add)
  BY <1>1, <1>3
<1>5. ASSUME NEW m \in CplMsgs(p, mod, del, add)
      PROVE  /\ m.kind = "cpl" /\ m.from = p /\ m.to \in Proc
             /\ m.mod # {} \/ m.del # {} \/ m.add # {}
             /\ \A i \in m.add : \E x \in add : x.to = m.to /\ x.gid = i.gid /\ x.proc = i.proc /\ x.prio = i.prio
             /\ \A x \in add : x.to = m.to => \E i \in m.add : i.gid = x.gid /\ i.proc = x.proc
             /\ \A g \in m.del : \E x \in del : x.to = m.to /\ x.gid = g
             /\ \A i \in m.mod : i.prio = UnifiedPrio(mod, m.to, i.gid) /\ \E x \in mod : x.to = m.to /\ x.gid = i.gid
  <2>1. PICK q \in Proc : m = To(q)
    BY <1>1
  <2>2. m.mod # {} \/ m.del # {} \/ m.add # {}
    BY <1>1
  <2> QED  BY <1>2, <1>3, <2>1, <2>2
<1>6. \A x \in add : x.to \in Proc => \E m \in CplMsgs(p, mod, del, add) :
               m.to = x.to /\ \E i \in m.add : i.gid = x.gid /\ i.proc = x.proc
  <2> SUFFICES ASSUME NEW x \in add, x.to \in Proc
               PROVE  \E m \in CplMsgs(p, mod, del, add) : m.to = x.to /\ \E i \in m.add : i.gid = x.gid /\ i.proc = x.proc
    OBVIOUS
  <2>1. PICK i \in Adds(x.to) : i.gid = x.gid /\ i.proc = x.proc
    BY <1>2
  <2>2. To(x.to) \in CplMsgs(p, mod, del, add) /\ i \in To(x.to).add /\ To(x.to).to = x.to
    BY <1>3, <1>4, <2>1
  <2> QED  BY <2>1, <2>2
<1>7. \A x \in del : x.to \in Proc => \E m \in CplMsgs(p, mod, del, add) : m.to = x.to /\ x.gid \in m.del
  BY <1>2, <1>3, <1>4
<1>8. \A x \in mod : x.to \in Proc => \E m \in CplMsgs(p, mod, del, add) :
               m.to = x.to /\ \E i \in m.mod : i.gid = x.gid
  <2> SUFFICES ASSUME NEW x \in mod, x.to \in Proc
               PROVE  \E m \in CplMsgs(p, mod, del, add) : m.to = x.to /\ \E i \in m.mod : i.gid = x.gid
    OBVIOUS
  <2>1. PICK i \in Mods(x.to) : i.gid = x.gid
    BY <1>2
  <2>2. To(x.to) \in CplMsgs(p, mod, del, add) /\ i \in To(x.to).mod /\ To(x.to).to = x.to
    BY <1>3, <1>4, <2>1
  <2> QED  BY <2>1, <2>2
<1>9. \A M : M = CplMsgs(p, mod, del, add) => Carry(p, M, mod, del, add)
  BY <1>5, <1>6, <1>7, <1>8 DEF Carry
<1> QED  BY <1>9

(* What has been received by p, with its own commands executed.              *)
Unpacks(h, p, in, now, list) ==
    /\ HistoryOk(h) /\ AllIn(h, p, in) /\ Executed(h, p) /\ copyObj[p] = h.copy[p]
    /\ \A g \in Gid : now[g] = Final(h, p, g)
    /\ \A g \in Gid, q \in Proc : list[g][q] = Middle(h, p, g, q)

LEMMA AddItemsAre ==
  ASSUME IsMergeLattice, NEW h, NEW p \in Proc, NEW in, NEW now, NEW list, Unpacks(h, p, in, now, list)
  PROVE  AddsRight(h, p, AddCplItems(p, in, now))
<1> DEFINE Own(d, g) == [to |-> d, gid |-> g, proc |-> p, prio |-> now[g]]
           Other(x, g) == [to |-> x[1], gid |-> g, proc |-> x[2], prio |-> NewOwnerPrio(p, in, g, x[2])]
           Hears(g) == IF IsReceived(in, g) THEN NewCplDests(in, g) ELSE {}
           Pairs(g) == {y \in Dests(newOwner[p], g) \X (Dests(newOwner[p], g) \cup NewCplDests(in, g)) : y[1] # y[2]}
<1>0. /\ HistoryOk(h) /\ AllIn(h, p, in) /\ Executed(h, p) /\ copyObj[p] = h.copy[p]
      /\ \A g \in Gid : now[g] = Final(h, p, g)
  BY DEF Unpacks
<1>1. \A x : x \in AddCplItems(p, in, now) <=> \/ \E g \in Gid : \E d \in Hears(g) : x = Own(d, g)
                                               \/ \E g \in Gid : \E y \in Pairs(g) : x = Other(y, g)
  <2> DEFINE OwnItems == UNION {{Own(d, g) : d \in Hears(g)} : g \in Gid}
             OtherItems == UNION {{Other(y, g) : y \in Pairs(g)} : g \in Gid}
  <2>1. AddCplItems(p, in, now) = OwnItems \cup OtherItems
    BY DEF AddCplItems
  <2> HIDE DEF Own, Other, Hears, Pairs
  <2>2. \A x : x \in OwnItems <=> \E g \in Gid : \E d \in Hears(g) : x = Own(d, g)
    OBVIOUS
  <2>3. \A x : x \in OtherItems <=> \E g \in Gid : \E y \in Pairs(g) : x = Other(y, g)
    OBVIOUS
  <2> QED  BY <2>1, <2>2, <2>3
<1>2. \A g \in Gid : \A d : d \in Hears(g) <=> d \in Proc /\ Gets(h, p, g) /\ Tellers(h, p, g, d) # {}
  BY <1>0, IncomingIs, NewCplAre
<1>3. \A g \in Gid : \A d : d \in Dests(newOwner[p], g) <=> d \in Proc /\ Sends(h, p, g, d) /\ IsNew(h, d, g)
  BY <1>0, DestsAre DEF Executed
<1>4. \A g \in Gid : \A d : d \in NewCplDests(in, g) <=> d \in Proc /\ Tellers(h, p, g, d) # {}
  BY <1>0, NewCplAre
<1>5. \A g \in Gid, d \in Proc : /\ Tellers(h, p, g, d) # {} => d # p /\ IsNew(h, d, g)
                                 /\ Sends(h, p, g, d) => d # p /\ Owns(h, p, g)
  BY <1>0 DEF Tellers, HistoryOk
<1>6. \A g \in Gid, d \in Proc : Gets(h, d, g) => Final(h, d, g) # NoPrio
  BY <1>0, FinalType
<1>7. ASSUME NEW g \in Gid, NEW y \in Pairs(g)
      PROVE  LET x == Other(y, g)
             IN  /\ x.to \in Proc /\ x.gid \in Gid /\ x.proc \in Proc /\ x.proc # x.to /\ x.to # p
                 /\ x.prio = Final(h, x.proc, x.gid) /\ x.prio # NoPrio
  <2>1. y[1] \in Dests(newOwner[p], g) /\ y[2] \in Dests(newOwner[p], g) \cup NewCplDests(in, g) /\ y[1] # y[2]
    OBVIOUS
  <2>2. y[1] \in Proc /\ y[2] \in Proc /\ IsNew(h, y[2], g) /\ Owns(h, p, g) /\ y[1] # p
    BY <1>3, <1>4, <1>5, <2>1
  <2>3. NewOwnerPrio(p, in, g, y[2]) = Final(h, y[2], g)
    BY <1>0, <2>2, NewOwnerPrioIs
  <2>4. Final(h, y[2], g) # NoPrio
    BY <1>6, <2>2 DEF IsNew
  <2> HIDE DEF Pairs
  <2> QED  BY <2>1, <2>2, <2>3, <2>4
<1>8. ASSUME NEW g \in Gid, NEW d \in Hears(g)
      PROVE  LET x == Own(d, g)
             IN  /\ x.to \in Proc /\ x.gid \in Gid /\ x.proc \in Proc /\ x.proc # x.to /\ x.to # p
                 /\ x.prio = Final(h, x.proc, x.gid) /\ x.prio # NoPrio
  <2>1. d \in Proc /\ d # p /\ Gets(h, p, g)
    BY <1>2, <1>5
  <2> QED  BY <1>0, <1>6, <2>1
<1>9. \A x \in AddCplItems(p, in, now) :
               /\ x.to \in Proc /\ x.gid \in Gid /\ x.proc \in Proc /\ x.proc # x.to /\ x.to # p
               /\ x.prio = Final(h, x.proc, x.gid) /\ x.prio # NoPrio
  <2> HIDE DEF Own, Other, Hears, Pairs
  <2> QED  BY <1>1, <1>7, <1>8
<1>10. ASSUME NEW g \in Gid, NEW d \in Proc, Gets(h, p, g), Tellers(h, p, g, d) # {}
       PROVE  \E x \in AddCplItems(p, in, now) : x.to = d /\ x.gid = g /\ x.proc = p
  <2>1. Own(d, g) \in AddCplItems(p, in, now)
    BY <1>1, <1>2, <1>10
  <2> QED  BY <2>1
<1>11. ASSUME NEW g \in Gid, NEW d \in Proc, NEW q \in Proc,
              d # q, Sends(h, p, g, d), IsNew(h, d, g), IsNew(h, q, g)
       PROVE  \E x \in AddCplItems(p, in, now) : x.to = d /\ x.gid = g /\ x.proc = q
  <2>1. Sends(h, p, g, q) \/ Tellers(h, p, g, q) # {}
    BY <1>0, <1>5, <1>11, OwnerHearsAll
  <2>2. <<d, q>> \in Pairs(g)
    BY <1>3, <1>4, <1>11, <2>1
  <2>3. Other(<<d, q>>, g) \in AddCplItems(p, in, now)
    BY <1>1, <2>2
  <2> QED  BY <2>3
<1> QED  BY <1>9, <1>10, <1>11 DEF AddsRight

LEMMA DelItemsAre ==
  ASSUME IsMergeLattice, NEW h, NEW p \in Proc, NEW in, NEW now, NEW list, Unpacks(h, p, in, now, list)
  PROVE  DelsRight(h, p, DelCplItems(p, in))
<1> DEFINE Item(q, g) == [to |-> q, gid |-> g]
           Known(g) == IF IsReceived(in, g) THEN {} ELSE {r \in Proc : delObj[p][g][r] # NoPrio}
<1>0. HistoryOk(h) /\ AllIn(h, p, in) /\ Executed(h, p)
  BY DEF Unpacks
<1>1. \A x : x \in DelCplItems(p, in) <=>
          \E g \in DOMAIN delObj[p] : \E q \in NewCplDests(in, g) \cup Known(g) : x = Item(q, g)
  BY DEF DelCplItems
<1>2. DOMAIN delObj[p] = h.del[p] /\ h.del[p] \subseteq Gid
  BY <1>0 DEF Executed, HistoryOk, History
<1>3. \A g \in Gid : \A d : d \in NewCplDests(in, g) <=> d \in Proc /\ Tellers(h, p, g, d) # {}
  BY <1>0, NewCplAre
<1>4. \A g \in Gid, d \in Proc : /\ Tellers(h, p, g, d) # {} => d # p
                                 /\ Sends(h, p, g, d) => d # p /\ Owns(h, p, g)
  BY <1>0 DEF Tellers, HistoryOk
<1>5. \A g \in h.del[p] : \A d : d \in Known(g) <=>
          d \in Proc /\ ~Gets(h, p, g) /\ (<<g, d>> \in NewOwnersOf(h, p) \/ Before(h, p, g, d) # NoPrio)
  <2> SUFFICES ASSUME NEW g \in h.del[p], NEW d
               PROVE  d \in Known(g) <=> /\ d \in Proc /\ ~Gets(h, p, g)
                                         /\ <<g, d>> \in NewOwnersOf(h, p) \/ Before(h, p, g, d) # NoPrio
    OBVIOUS
  <2>1. IsReceived(in, g) <=> Gets(h, p, g)
    BY <1>0, <1>2, IncomingIs
  <2>2. d \in Proc => (delObj[p][g][d] # NoPrio <=> <<g, d>> \in NewOwnersOf(h, p) \/ Before(h, p, g, d) # NoPrio)
    BY <1>0, Distinct DEF Executed
  <2> QED  BY <2>1, <2>2
<1>6. \A g \in Gid : \A d : <<g, d>> \in NewOwnersOf(h, p) <=> d \in Proc /\ Sends(h, p, g, d) /\ IsNew(h, d, g)
  BY DEF NewOwnersOf
<1>7. \A g \in Gid, d \in Proc : Before(h, p, g, d) # NoPrio <=> d # p /\ Owns(h, p, g) /\ Owns(h, d, g)
  BY DEF Before, Owns
<1>8. \A g \in Gid, d \in Proc : Final(h, d, g) = NoPrio <=> ~Gets(h, d, g) /\ (~Owns(h, d, g) \/ g \in h.del[d])
  BY <1>0, FinalType
<1> HIDE DEF Known
<1>9. ASSUME NEW x \in DelCplItems(p, in)
      PROVE  /\ x.to \in Proc /\ x.gid \in Gid /\ x.to # p
             /\ Final(h, p, x.gid) = NoPrio \/ (Gets(h, p, x.gid) /\ Tellers(h, p, x.gid, x.to) # {})
  <2>1. PICK g \in DOMAIN delObj[p] : \E q \in NewCplDests(in, g) \cup Known(g) : x = Item(q, g)
    BY <1>1
  <2>2. PICK q \in NewCplDests(in, g) \cup Known(g) : x = Item(q, g)
    BY <2>1
  <2>3. g \in Gid /\ g \in h.del[p] /\ x.to = q /\ x.gid = g
    BY <1>2, <2>2
  <2>4. CASE q \in NewCplDests(in, g)
    BY <1>3, <1>4, <1>8, <2>3, <2>4
  <2>5. CASE q \in Known(g)
    BY <1>4, <1>5, <1>6, <1>7, <1>8, <2>3, <2>5
  <2> QED  BY <2>2, <2>4, <2>5
<1>10. ASSUME NEW g \in Gid, NEW d \in Proc \ {p}, Owns(h, p, g), Final(h, p, g) = NoPrio, Final(h, d, g) # NoPrio
       PROVE  \E x \in DelCplItems(p, in) : x.to = d /\ x.gid = g
  <2>1. g \in h.del[p] /\ ~Gets(h, p, g)
    BY <1>8, <1>10
  <2>2. IsNew(h, d, g) \/ Owns(h, d, g)
    BY <1>8, <1>10 DEF IsNew
  <2>3. IsNew(h, d, g) => Sends(h, p, g, d) \/ Tellers(h, p, g, d) # {}
    BY <1>0, <1>10, OwnerHearsAll
  <2>4. d \in NewCplDests(in, g) \cup Known(g)
    BY <1>3, <1>5, <1>6, <1>7, <1>10, <2>1, <2>2, <2>3
  <2>5. Item(d, g) \in DelCplItems(p, in)
    BY <1>1, <1>2, <2>1, <2>4
  <2> QED  BY <2>5
<1> QED  BY <1>9, <1>10 DEF DelsRight

(* Whom p tells of a new priority by its commands, and by what it received.   *)
ByCommand(h, p, q, g) == /\ h.set[p][g] # NoPrio
                         /\ \/ Before(h, p, g, q) # NoPrio \/ <<g, q>> \in NewOwnersOf(h, p)
                            \/ Tellers(h, p, g, q) # {}
ByIncoming(h, p, q, g, new) == /\ new \in {"TOTALNEW", "PARTNEW", "PRUNEDNEW"}
                               /\ \/ Middle(h, p, g, q) # NoPrio
                                  \/ new # "TOTALNEW" /\ <<g, q>> \in NewOwnersOf(h, p)

LEMMA ModItemsUnfolded ==
  ASSUME IsMergeLattice, NEW h, NEW p \in Proc, NEW in, NEW now, NEW list, Unpacks(h, p, in, now, list)
  PROVE  /\ \A x \in ModCplItems(p, in, now, list) :
               /\ x.to \in Proc /\ x.gid \in Gid
               /\ \/ ByCommand(h, p, x.to, x.gid) /\ x.prio = h.set[p][x.gid]
                  \/ ByIncoming(h, p, x.to, x.gid, Newness(p, in, x.gid)) /\ x.prio = Final(h, p, x.gid)
         /\ \A g \in Gid, q \in Proc :
               /\ ByCommand(h, p, q, g) => \E x \in ModCplItems(p, in, now, list) :
                      x.to = q /\ x.gid = g /\ x.prio = h.set[p][g]
               /\ ByIncoming(h, p, q, g, Newness(p, in, g)) => \E x \in ModCplItems(p, in, now, list) :
                      x.to = q /\ x.gid = g /\ x.prio = Final(h, p, g)
<1> DEFINE ItemC(d, g) == [to |-> d, gid |-> g, prio |-> setPrio[p][g]]
           ItemI(q, g) == [to |-> q, gid |-> g, prio |-> now[g]]
           SetC == {x \in Gid : setPrio[p][x] # NoPrio}
           SetI == {x \in Gid : Newness(p, in, x) \in {"TOTALNEW", "PARTNEW", "PRUNEDNEW"}}
           ToI(g) == {r \in Proc : list[g][r] # NoPrio}
                        \cup (IF Newness(p, in, g) = "TOTALNEW" THEN {} ELSE Dests(newOwner[p], g))
           CmdItems == UNION {{ItemC(d, g) : d \in NewCplDests(in, g)} : g \in SetC}
           IncItems == UNION {{ItemI(q, g) : q \in ToI(g)} : g \in SetI}
           Mod == ModCplItems(p, in, now, list)
<1>0. /\ HistoryOk(h) /\ AllIn(h, p, in) /\ Executed(h, p) /\ copyObj[p] = h.copy[p]
      /\ \A g \in Gid : now[g] = Final(h, p, g)
      /\ \A g \in Gid, q \in Proc : list[g][q] = Middle(h, p, g, q)
  BY DEF Unpacks
<1>1. Mod = modCpl[p] \cup CmdItems \cup IncItems
  BY DEF ModCplItems
<1>2. \A x : x \in CmdItems <=> \E g \in SetC : \E d \in NewCplDests(in, g) : x = ItemC(d, g)
  <2> HIDE DEF SetC, ItemC
  <2> QED  OBVIOUS
<1>3. \A x : x \in IncItems <=> \E g \in SetI : \E q \in ToI(g) : x = ItemI(q, g)
  <2> HIDE DEF SetI, ItemI, ToI
  <2> QED  OBVIOUS
<1> HIDE DEF CmdItems, IncItems, Mod
<1>4. \A g \in Gid : setPrio[p][g] = h.set[p][g]
  BY <1>0 DEF Executed
<1>5. \A g \in Gid : \A d : d \in NewCplDests(in, g) <=> d \in Proc /\ Tellers(h, p, g, d) # {}
  BY <1>0, NewCplAre
<1>6. \A g \in Gid : \A q : q \in Dests(newOwner[p], g) <=> q \in Proc /\ <<g, q>> \in NewOwnersOf(h, p)
  BY <1>0, DestsAre DEF Executed, NewOwnersOf
<1>7. \A g \in Gid : \A q : g \in SetI /\ q \in ToI(g) <=> q \in Proc /\ ByIncoming(h, p, q, g, Newness(p, in, g))
  BY <1>0, <1>6 DEF ByIncoming
<1>8. ASSUME NEW x \in modCpl[p]
      PROVE  x.to \in Proc /\ x.gid \in Gid /\ ByCommand(h, p, x.to, x.gid) /\ x.prio = h.set[p][x.gid]
  BY <1>0 DEF Executed, ByCommand
<1>9. ASSUME NEW x \in CmdItems
      PROVE  x.to \in Proc /\ x.gid \in Gid /\ ByCommand(h, p, x.to, x.gid) /\ x.prio = h.set[p][x.gid]
  <2>1. PICK g \in SetC : \E d \in NewCplDests(in, g) : x = ItemC(d, g)
    BY <1>2
  <2>2. PICK d \in NewCplDests(in, g) : x = ItemC(d, g)
    BY <2>1
  <2> QED  BY <1>4, <1>5, <2>2 DEF ByCommand
<1>10. ASSUME NEW x \in IncItems
       PROVE  /\ x.to \in Proc /\ x.gid \in Gid
              /\ ByIncoming(h, p, x.to, x.gid, Newness(p, in, x.gid)) /\ x.prio = Final(h, p, x.gid)
  <2>1. PICK g \in SetI : \E q \in ToI(g) : x = ItemI(q, g)
    BY <1>3
  <2>2. PICK q \in ToI(g) : x = ItemI(q, g)
    BY <2>1
  <2>3. x.to = q /\ x.gid = g /\ x.prio = now[g] /\ g \in Gid
    BY <2>2
  <2> QED  BY <1>0, <1>7, <2>1, <2>2, <2>3
<1>11. ASSUME NEW g \in Gid, NEW q \in Proc, ByCommand(h, p, q, g)
       PROVE  \E x \in Mod : x.to = q /\ x.gid = g /\ x.prio = h.set[p][g]
  <2>1. CASE Tellers(h, p, g, q) # {}
    <3>1. ItemC(q, g) \in CmdItems
      BY <1>2, <1>4, <1>5, <1>11, <2>1 DEF ByCommand
    <3>2. ItemC(q, g).to = q /\ ItemC(q, g).gid = g /\ ItemC(q, g).prio = h.set[p][g]
      BY <1>4
    <3> QED  BY <1>1, <3>1, <3>2
  <2>2. CASE Before(h, p, g, q) # NoPrio \/ <<g, q>> \in NewOwnersOf(h, p)
    <3>1. PICK i \in modCpl[p] : i.gid = g /\ i.to = q
      BY <1>0, <1>11, <2>2 DEF Executed, ByCommand
    <3> QED  BY <1>1, <1>8, <3>1
  <2> QED  BY <1>11, <2>1, <2>2 DEF ByCommand
<1>12. ASSUME NEW g \in Gid, NEW q \in Proc, ByIncoming(h, p, q, g, Newness(p, in, g))
       PROVE  \E x \in Mod : x.to = q /\ x.gid = g /\ x.prio = Final(h, p, g)
  <2>1. ItemI(q, g) \in IncItems
    BY <1>3, <1>7, <1>12
  <2>2. ItemI(q, g).to = q /\ ItemI(q, g).gid = g /\ ItemI(q, g).prio = Final(h, p, g)
    BY <1>0
  <2> QED  BY <1>1, <2>1, <2>2
<1>13. \A x \in Mod :
               /\ x.to \in Proc /\ x.gid \in Gid
               /\ \/ ByCommand(h, p, x.to, x.gid) /\ x.prio = h.set[p][x.gid]
                  \/ ByIncoming(h, p, x.to, x.gid, Newness(p, in, x.gid)) /\ x.prio = Final(h, p, x.gid)
  BY <1>1, <1>8, <1>9, <1>10
<1> QED  BY <1>11, <1>12, <1>13 DEF Mod

LEMMA ModItemsAre ==
  ASSUME IsMergeLattice, NEW h, NEW p \in Proc, NEW in, NEW now, NEW list, Unpacks(h, p, in, now, list)
  PROVE  ModsRight(h, p, ModCplItems(p, in, now, list))
<1> DEFINE Mod == ModCplItems(p, in, now, list)
           New(g) == Newness(p, in, g)
<1>0. HistoryOk(h) /\ AllIn(h, p, in) /\ Executed(h, p)
  BY DEF Unpacks
<1>1. \A x \in Mod :
         /\ x.to \in Proc /\ x.gid \in Gid
         /\ \/ ByCommand(h, p, x.to, x.gid) /\ x.prio = h.set[p][x.gid]
            \/ ByIncoming(h, p, x.to, x.gid, New(x.gid)) /\ x.prio = Final(h, p, x.gid)
  BY ModItemsUnfolded
<1>2. \A g \in Gid, q \in Proc :
         /\ ByCommand(h, p, q, g) => \E x \in Mod : x.to = q /\ x.gid = g /\ x.prio = h.set[p][g]
         /\ ByIncoming(h, p, q, g, New(g)) => \E x \in Mod : x.to = q /\ x.gid = g /\ x.prio = Final(h, p, g)
  BY ModItemsUnfolded
<1> HIDE DEF Mod
<1>3. \A d \in Proc, g \in Gid :
         /\ Final(h, d, g) \in PrioOrNone
         /\ Final(h, d, g) = NoPrio <=> ~Gets(h, d, g) /\ (~Owns(h, d, g) \/ g \in h.del[d])
  BY <1>0, FinalType
<1>4. \A g \in Gid : /\ h.set[p][g] # NoPrio => /\ Owns(h, p, g) /\ g \notin h.del[p] /\ Local(h, p, g) = h.set[p][g]
                                                /\ h.set[p][g] \in Prio /\ g \notin h.pruned[p]
                     /\ h.set[p][g] = NoPrio /\ g \notin h.del[p] => Local(h, p, g) = h.obj[p][g]
  BY <1>0, HistoryType DEF HistoryOk, Local, PrioOrNone
<1>5. \A g \in Gid, q \in Proc : <<g, q>> \in NewOwnersOf(h, p) => Owns(h, p, g) /\ IsNew(h, q, g) /\ q # p
  BY <1>0 DEF NewOwnersOf, HistoryOk
<1>6. \A g \in Gid, q \in Proc : Tellers(h, p, g, q) # {} => IsNew(h, q, g) /\ q # p /\ (Owns(h, p, g) \/ Gets(h, p, g))
  BY DEF Tellers, Gets, Senders
<1>7. \A g \in Gid, q \in Proc : Before(h, p, g, q) # NoPrio => q # p /\ Owns(h, q, g) /\ Owns(h, p, g)
  BY DEF Before, Owns
<1>8. \A g \in Gid, q \in Proc : Owns(h, p, g) /\ q # p /\ Final(h, p, g) # NoPrio /\ (Owns(h, q, g) \/ IsNew(h, q, g)) =>
         Middle(h, p, g, q) # NoPrio
  BY <1>3 DEF Middle, IsNew, Owns
<1>9. \A g \in Gid, q \in Proc : Owns(h, p, g) /\ q # p /\ Final(h, q, g) # NoPrio =>
         Middle(h, q, g, p) = h.obj[p][g] /\ h.obj[p][g] # NoPrio
  BY DEF Middle, Owns
<1>10. \A g \in Gid : /\ New(g) \in {"TOTALNEW", "PARTNEW", "PRUNEDNEW"} => Gets(h, p, g)
                      /\ New(g) = "TOTALNEW" <=> Gets(h, p, g) /\ (~Owns(h, p, g) \/ g \in h.del[p])
  BY <1>0, NewnessIs
<1>11. \A g \in Gid : h.set[p][g] # NoPrio =>
          \/ Final(h, p, g) = h.set[p][g]
          \/ /\ New(g) = "PARTNEW" /\ \E r \in Prio : Final(h, p, g) = MergedPrio(r, h.set[p][g])
  <2> SUFFICES ASSUME NEW g \in Gid, h.set[p][g] # NoPrio
               PROVE  \/ Final(h, p, g) = h.set[p][g]
                      \/ /\ New(g) = "PARTNEW" /\ \E r \in Prio : Final(h, p, g) = MergedPrio(r, h.set[p][g])
    OBVIOUS
  <2>1. Owns(h, p, g) /\ g \notin h.del[p] /\ g \notin h.pruned[p] /\ Local(h, p, g) = h.set[p][g]
    BY <1>4
  <2>2. CASE ~Gets(h, p, g)
    BY <2>1, <2>2 DEF Final
  <2>3. CASE Gets(h, p, g)
    <3>1. Final(h, p, g) = MergedPrio(MergeAll(Sent(h, g, p)), h.set[p][g]) /\ MergeAll(Sent(h, g, p)) \in Prio
      BY <1>0, <2>1, <2>3, FinalType DEF Final
    <3>2. New(g) = "PARTNEW" \/ MergedPrio(MergeAll(Sent(h, g, p)), h.set[p][g]) = h.set[p][g]
      BY <1>0, <2>1, <2>3, NewnessIs DEF Merges, FirstWins
    <3> QED  BY <3>1, <3>2
  <2> QED  BY <2>2, <2>3
<1>12. ASSUME NEW x \in Mod
       PROVE  /\ x.to # p /\ Final(h, p, x.gid) # NoPrio
              /\ Final(h, x.to, x.gid) # NoPrio => Middle(h, x.to, x.gid, p) # NoPrio
  <2> DEFINE g == x.gid
             q == x.to
  <2>1. g \in Gid /\ q \in Proc
    BY <1>1
  <2>2. CASE ByCommand(h, p, q, g)
    <3>1. Owns(h, p, g) /\ g \notin h.del[p] /\ q # p
      BY <1>4, <1>5, <1>6, <1>7, <2>1, <2>2 DEF ByCommand
    <3> QED  BY <1>3, <1>9, <2>1, <3>1
  <2>3. CASE ByIncoming(h, p, q, g, New(g))
    <3>1. Gets(h, p, g) /\ Final(h, p, g) # NoPrio
      BY <1>3, <1>10, <2>1, <2>3 DEF ByIncoming
    <3>2. q # p
      BY <1>5, <2>1, <2>3 DEF ByIncoming, Middle
    <3>3. CASE Owns(h, p, g)
      BY <1>9, <2>1, <3>1, <3>2, <3>3
    <3>4. CASE ~Owns(h, p, g)
      <4>1. Middle(h, p, g, q) # NoPrio
        BY <1>5, <2>1, <2>3, <3>4 DEF ByIncoming
      <4>2. CASE Owns(h, q, g)
        BY <3>1, <3>2, <3>4, <4>2 DEF Middle
      <4>3. CASE ~Owns(h, q, g)
        <5>1. Tellers(h, p, g, q) # {}
          BY <3>4, <4>1, <4>3 DEF Middle
        <5>2. PICK s \in Proc : Sends(h, s, g, p) /\ Sends(h, s, g, q) /\ s # q
          BY <1>0, <2>1, <3>4, <5>1 DEF Tellers, Senders, HistoryOk
        <5>3. s \in Tellers(h, q, g, p)
          BY <3>1, <3>2, <3>4, <5>2 DEF Tellers, Senders, IsNew
        <5>4. MergeAll(Told(h, q, g, p)) \in Prio
          <6>1. Tellers(h, q, g, p) \in SUBSET Senders(h, g, p)
            BY DEF Tellers
          <6>2. LET T == Told(h, q, g, p) IN T \subseteq Prio /\ T # {} /\ IsFiniteSet(T)
            BY <1>0, <2>1, <5>3, <6>1, SentType DEF Told
          <6> QED  BY <6>2, MergeAllType
        <5> QED  BY <3>1, <3>2, <3>4, <4>3, <5>3, <5>4, Distinct DEF Middle
      <4> QED  BY <4>2, <4>3
    <3> QED  BY <3>1, <3>2, <3>3, <3>4
  <2> QED  BY <1>1, <2>2, <2>3
<1>13. ASSUME NEW x \in Mod
       PROVE  UnifiedPrio(Mod, x.to, x.gid) = Final(h, p, x.gid)
  <2> DEFINE g == x.gid
             q == x.to
             P == NewPrios(Mod, q, g)
             f == Final(h, p, g)
  <2>1. g \in Gid /\ q \in Proc /\ f \in Prio
    BY <1>1, <1>3, <1>12 DEF PrioOrNone
  <2>2. \A y : y \in P <=> \E i \in Mod : i.to = q /\ i.gid = g /\ y = i.prio
    BY DEF NewPrios
  <2>3. x.prio \in P
    BY <2>2
  <2>4. \A y \in P : y = f \/ (h.set[p][g] # NoPrio /\ y = h.set[p][g])
    <3> SUFFICES ASSUME NEW y \in P PROVE y = f \/ (h.set[p][g] # NoPrio /\ y = h.set[p][g])
      OBVIOUS
    <3>1. PICK i \in Mod : i.to = q /\ i.gid = g /\ y = i.prio
      BY <2>2
    <3> QED  BY <1>1, <3>1 DEF ByCommand
  <2>5. CASE \A y \in P : y = f
    <3>1. P = {f}
      BY <2>3, <2>5
    <3> HIDE DEF P
    <3> QED  BY <2>1, <3>1, MergeAllOfOne DEF UnifiedPrio, P
  <2>6. CASE \E y \in P : y # f
    <3> DEFINE l == h.set[p][g]
    <3>1. l \in P /\ l # f /\ l # NoPrio /\ l \in Prio
      BY <1>4, <2>1, <2>4, <2>6
    <3>2. New(g) = "PARTNEW" /\ \E r \in Prio : f = MergedPrio(r, l)
      BY <1>11, <2>1, <3>1
    <3>3. PICK r \in Prio : f = MergedPrio(r, l)
      BY <3>2
    <3>4. ByCommand(h, p, q, g) \/ ByIncoming(h, p, q, g, New(g))
      BY <1>1
    <3>5. ByIncoming(h, p, q, g, New(g))
      <4>1. CASE ByCommand(h, p, q, g)
        <5>1. /\ Owns(h, p, g) /\ q # p /\ (Owns(h, q, g) \/ IsNew(h, q, g))
          BY <1>4, <1>5, <1>6, <1>7, <2>1, <4>1 DEF ByCommand
        <5>2. Middle(h, p, g, q) # NoPrio
          BY <1>8, <1>12, <2>1, <5>1
        <5> QED  BY <3>2, <5>2 DEF ByIncoming
      <4> QED  BY <3>4, <4>1
    <3>6. f \in P
      BY <1>2, <2>1, <2>2, <3>5
    <3>7. P = {l, f}
      BY <2>4, <3>1, <3>6
    <3>8. MergedPrio(l, f) = f
      <4>1. AtMost(l, MergedPrio(r, l))
        BY <3>1, <3>3, AtMostBoth
      <4> QED  BY <3>3, <4>1 DEF AtMost
    <3> HIDE DEF P, f, l
    <3> QED  BY <2>1, <3>1, <3>7, <3>8, MergeAllOfTwo DEF UnifiedPrio, P, f
  <2> QED  BY <2>5, <2>6
<1>14. ASSUME NEW g \in Gid, NEW d \in Proc \ {p}, Owns(h, p, g), Final(h, d, g) # NoPrio,
              Final(h, p, g) # NoPrio, Middle(h, d, g, p) # Final(h, p, g)
       PROVE  \E x \in Mod : x.to = d /\ x.gid = g
  <2>1. Final(h, p, g) # h.obj[p][g]
    BY <1>9, <1>14
  <2>2. Owns(h, d, g) \/ IsNew(h, d, g)
    BY <1>3, <1>14 DEF IsNew
  <2>3. CASE h.set[p][g] # NoPrio
    <3>1. Owns(h, d, g) => Before(h, p, g, d) # NoPrio
      BY <1>14 DEF Before, Owns
    <3>2. IsNew(h, d, g) => <<g, d>> \in NewOwnersOf(h, p) \/ Tellers(h, p, g, d) # {}
      BY <1>0, <1>14, OwnerHearsAll DEF NewOwnersOf
    <3>3. ByCommand(h, p, d, g)
      BY <2>2, <2>3, <3>1, <3>2 DEF ByCommand
    <3> QED  BY <1>2, <3>3
  <2>4. CASE h.set[p][g] = NoPrio
    <3>1. Middle(h, p, g, d) # NoPrio
      BY <1>8, <1>14, <2>2
    <3>2. Gets(h, p, g)
      BY <1>3, <1>4, <1>14, <2>1, <2>4 DEF Final
    <3>3. ~ (New(g) = "NOTNEW")
      <4>1. Merges(h, p, g) => Final(h, p, g) = MergedPrio(MergeAll(Sent(h, g, p)), h.obj[p][g]) /\ Local(h, p, g) = h.obj[p][g]
        BY <1>4, <2>4 DEF Merges, Final
      <4> QED  BY <1>0, <2>1, <4>1, NewnessIs DEF FirstWins
    <3>4. New(g) \in {"TOTALNEW", "PARTNEW", "PRUNEDNEW"}
      BY <1>0, <3>2, <3>3, NewnessIs
    <3>5. ByIncoming(h, p, d, g, New(g))
      BY <3>1, <3>4 DEF ByIncoming
    <3> QED  BY <1>2, <3>5
  <2> QED  BY <2>3, <2>4
<1>15. ModsRight(h, p, Mod)
  BY <1>1, <1>12, <1>13, <1>14 DEF ModsRight
<1> QED  BY <1>15 DEF Mod

LEMMA PreparedCplMsgs ==
  ASSUME IsMergeLattice, NEW h, NEW p \in Proc, NEW in, NEW now, NEW list, Unpacks(h, p, in, now, list)
  PROVE  LET M == CplMsgs(p, ModCplItems(p, in, now, list), DelCplItems(p, in), AddCplItems(p, in, now))
         IN  Covers(h, p, M) /\ \A m \in M : CplMsgOk(h, m) /\ m.from = p
<1> DEFINE Mod == ModCplItems(p, in, now, list)
           Del == DelCplItems(p, in)
           Add == AddCplItems(p, in, now)
           M == CplMsgs(p, Mod, Del, Add)
<1>1. AddsRight(h, p, Add) /\ DelsRight(h, p, Del) /\ ModsRight(h, p, Mod)
  BY AddItemsAre, DelItemsAre, ModItemsAre
<1>2. Carry(p, M, Mod, Del, Add)
  BY CplMsgsAre
<1> HIDE DEF M, Mod, Del, Add
<1>3. ASSUME NEW m \in M PROVE CplMsgOk(h, m) /\ m.from = p
  <2>1. \A i \in m.add : /\ i.gid \in Gid /\ i.proc \in Proc /\ i.proc # m.to /\ m.to # p
                         /\ i.prio = Final(h, i.proc, i.gid) /\ i.prio # NoPrio
    BY <1>1, <1>2 DEF AddsRight, Carry
  <2>2. \A i \in m.mod : /\ i.gid \in Gid /\ i.prio = Final(h, p, i.gid) /\ i.prio # NoPrio /\ m.to # p
                         /\ Final(h, m.to, i.gid) # NoPrio => Middle(h, m.to, i.gid, p) # NoPrio
    BY <1>1, <1>2 DEF ModsRight, Carry
  <2>3. ASSUME NEW g \in m.del
        PROVE  /\ g \in Gid /\ m.to # p
               /\ Final(h, p, g) = NoPrio \/ \E i \in m.add : i.gid = g /\ i.proc = p
    <3>1. PICK x \in Del : x.to = m.to /\ x.gid = g
      BY <1>2 DEF Carry
    <3>2. g \in Gid /\ m.to # p /\ (Final(h, p, g) = NoPrio \/ (Gets(h, p, g) /\ Tellers(h, p, g, m.to) # {}))
      BY <1>1, <3>1 DEF DelsRight
    <3>3. ASSUME Gets(h, p, g), Tellers(h, p, g, m.to) # {} PROVE \E i \in m.add : i.gid = g /\ i.proc = p
      <4>1. PICK y \in Add : y.to = m.to /\ y.gid = g /\ y.proc = p
        BY <1>1, <1>2, <3>2, <3>3 DEF AddsRight, Carry
      <4> QED  BY <1>2, <4>1 DEF Carry
    <3> QED  BY <3>2, <3>3
  <2>4. m.to # p
    BY <1>2, <2>1, <2>2, <2>3 DEF Carry
  <2> QED  BY <1>2, <2>1, <2>2, <2>3, <2>4 DEF CplMsgOk, Carry
<1>4. ASSUME NEW g \in Gid, NEW d \in Proc \ {p}, Final(h, d, g) # NoPrio
      PROVE  /\ Owns(h, p, g) /\ Final(h, p, g) = NoPrio => \E m \in M : m.to = d /\ g \in m.del
             /\ Owns(h, p, g) /\ Final(h, p, g) # NoPrio /\ Middle(h, d, g, p) # Final(h, p, g) =>
                   \E m \in M : m.to = d /\ \E i \in m.mod : i.gid = g
             /\ IsNew(h, d, g) /\ Sends(h, p, g, d) =>
                   \A q \in Proc \ {d} : IsNew(h, q, g) =>
                       \E m \in M : m.to = d /\ \E i \in m.add : i.gid = g /\ i.proc = q
  <2>1. ASSUME Owns(h, p, g), Final(h, p, g) = NoPrio PROVE \E m \in M : m.to = d /\ g \in m.del
    <3>1. PICK x \in Del : x.to = d /\ x.gid = g
      BY <1>1, <1>4, <2>1 DEF DelsRight
    <3> QED  BY <1>2, <3>1 DEF Carry
  <2>2. ASSUME Owns(h, p, g), Final(h, p, g) # NoPrio, Middle(h, d, g, p) # Final(h, p, g)
        PROVE  \E m \in M : m.to = d /\ \E i \in m.mod : i.gid = g
    <3>1. PICK x \in Mod : x.to = d /\ x.gid = g
      BY <1>1, <1>4, <2>2 DEF ModsRight
    <3> QED  BY <1>2, <3>1 DEF Carry
  <2>3. ASSUME IsNew(h, d, g), Sends(h, p, g, d), NEW q \in Proc \ {d}, IsNew(h, q, g)
        PROVE  \E m \in M : m.to = d /\ \E i \in m.add : i.gid = g /\ i.proc = q
    <3>1. PICK x \in Add : x.to = d /\ x.gid = g /\ x.proc = q
      BY <1>1, <2>3 DEF AddsRight
    <3> QED  BY <1>2, <3>1 DEF Carry
  <2> QED  BY <2>1, <2>2, <2>3
<1>5. Covers(h, p, M)
  BY <1>4 DEF Covers
<1> QED  BY <1>3, <1>5 DEF M, Mod, Del, Add

-------------------------------------------------------------------------------
(* The invariant.                                                            *)

EarlyPcs == {"user", "prune", "pruneComm", "connect"}
LatePcs  == {"connectCpl", "commCpl"}

Right(p, g, q) == cpl[p][g][q] = IF p # q /\ obj[p][g] # NoPrio THEN obj[q][g] ELSE NoPrio
Settled(p) == \A g \in Gid, q \in Proc : Right(p, g, q)

CmdMsgOk(m) == /\ m.kind = "cmd" /\ m.from \in Proc /\ m.to \in Proc
               /\ \A g \in m.gids : g \in Gid /\ copyObj[m.from][g][m.to] # NoPrio

(* What a processor has collected and prepared before anything is executed.  *)
CommandsOk(p) ==
    /\ \A g \in Gid : /\ \A q \in Proc : copyObj[p][g][q] # NoPrio => obj[p][g] # NoPrio /\ q # p
                      /\ setPrio[p][g] # NoPrio => obj[p][g] # NoPrio
                      /\ g \in delCmd[p] => obj[p][g] # NoPrio
                      /\ Prune /\ g \in delCmd[p] => setPrio[p][g] = NoPrio
    /\ pc[p] = "prune" => \A m \in out[p] : CmdMsgOk(m) /\ m.from = p
    /\ pc[p] = "connect" /\ conn[p] \notin abortAt[p] => Prepared(p)
PrunedOk(p) ==
    \A g \in pruned[p] : /\ g \in Gid /\ Prune /\ pc[p] = "connect"
                         /\ obj[p][g] # NoPrio /\ setPrio[p][g] = NoPrio /\ g \notin delCmd[p]
                         /\ \E s \in Proc : copyObj[s][g][p] # NoPrio

(* Nobody has executed commands yet.                                         *)
Quiet ==
    /\ \A p \in Proc : pc[p] \in EarlyPcs /\ Settled(p) /\ CommandsOk(p) /\ PrunedOk(p)
    /\ \A m \in msgs : CmdMsgOk(m)
    /\ fault = {}

Waiting(h, p) ==
    /\ \A g \in Gid : obj[p][g] = h.obj[p][g]
    /\ \A g \in Gid, q \in Proc : cpl[p][g][q] = Before(h, p, g, q)
    /\ \A g \in Gid : h.set[p][g] = IF g \in h.del[p] THEN NoPrio ELSE setPrio[p][g]
    /\ pruned[p] = h.pruned[p] /\ newOwner[p] = NewOwnersOf(h, p)
    /\ ObjMsgsOk(h, p, out[p])
Unpacked(h, p) ==
    /\ \A g \in Gid : obj[p][g] = Final(h, p, g)
    /\ \A g \in Gid, q \in Proc : cpl[p][g][q] = Middle(h, p, g, q)
    /\ coupled[p] = LocalCoupledObjects(p)
    /\ pruned[p] = {}
    /\ \A m \in out[p] : CplMsgOk(h, m) /\ m.from = p
    /\ Covers(h, p, out[p])

(* Objects are on their way, as the history says.                            *)
ObjMode(h) ==
    /\ HistoryOk(h)
    /\ \A p \in Proc : /\ pc[p] \in {"connect", "comm", "connectCpl"}
                       /\ copyObj[p] = h.copy[p] /\ delCmd[p] = h.del[p]
                       /\ pc[p] = "connect" => Waiting(h, p) /\ ~Exception(p)
                       /\ pc[p] = "comm" => Executed(h, p)
                       /\ pc[p] = "connectCpl" => Unpacked(h, p)
    /\ \A p, q \in Proc : pc[p] = "connect" => conn[q] >= conn[p]
    /\ \A m \in msgs : ObjMsgOk(h, m) /\ pc[m.from] # "connect"
    /\ \A s, d \in Proc : s # d /\ pc[s] # "connect" /\ pc[d] # "connectCpl" /\ Tells(h, s, d) =>
          \E m \in msgs : m.from = s /\ m.to = d
    /\ fault = {}

(* Corrections of couplings are on their way: each coupling is right, or a   *)
(* message that corrects it is pending.                                      *)
CplPending(m) == m \in msgs \/ \E p \in Proc : pc[p] = "connectCpl" /\ m \in out[p]
CplReady(m) ==
    /\ m.kind = "cpl" /\ m.from \in Proc /\ m.to \in Proc /\ m.from # m.to
    /\ pc[m.to] \in LatePcs
    /\ \A i \in m.add : /\ i.gid \in Gid /\ i.proc \in Proc /\ i.proc # m.to
                        /\ i.prio = obj[i.proc][i.gid] /\ i.prio # NoPrio
    /\ \A g \in m.del : /\ g \in Gid
                        /\ obj[m.from][g] = NoPrio \/ \E i \in m.add : i.gid = g /\ i.proc = m.from
    /\ \A i \in m.mod : /\ i.gid \in Gid /\ i.prio = obj[m.from][i.gid] /\ i.prio # NoPrio
                        /\ i.gid \in coupled[m.to] => cpl[m.to][i.gid][m.from] # NoPrio
Corrects(m, p, g, q) ==
    /\ m.to = p /\ g \in coupled[p]
    /\ \/ \E i \in m.add : i.gid = g /\ i.proc = q
       \/ m.from = q /\ g \in m.del
       \/ m.from = q /\ \E i \in m.mod : i.gid = g
CplMode ==
    /\ \A p \in Proc : pc[p] # "comm" /\ pruned[p] = {}
    /\ \A p, q \in Proc : pc[p] \in LatePcs => conn[q] >= conn[p]
    /\ \A p \in Proc : pc[p] \notin LatePcs => Settled(p) /\ CommandsOk(p)
    /\ \A m : CplPending(m) => CplReady(m)
    /\ \A p \in Proc : pc[p] \in LatePcs =>
          /\ \A g \in coupled[p] : obj[p][g] # NoPrio
          /\ \A g \in Gid, q \in Proc : Right(p, g, q) \/ \E m : CplPending(m) /\ Corrects(m, p, g, q)
    /\ fault = {}

DataType == /\ TypeOK
            /\ delObj = [p \in Proc |-> delObj[p]] /\ modCpl = [p \in Proc |-> modCpl[p]]
(* Somebody has executed commands already. *)
Started == \E p \in Proc : pc[p] # "connect"
TransferInv == DataType /\ (Quiet \/ (\E h : ObjMode(h) /\ Started) \/ CplMode)

-------------------------------------------------------------------------------
(* Types, and what a step of one processor leaves alone.                     *)

SameAt(q) ==
    /\ obj'[q] = obj[q] /\ cpl'[q] = cpl[q] /\ pruned'[q] = pruned[q]
    /\ copyObj'[q] = copyObj[q] /\ setPrio'[q] = setPrio[q] /\ delCmd'[q] = delCmd[q]
    /\ newOwner'[q] = newOwner[q] /\ delObj'[q] = delObj[q] /\ modCpl'[q] = modCpl[q] /\ coupled'[q] = coupled[q]
    /\ pc'[q] = pc[q] /\ conn'[q] = conn[q] /\ abortAt'[q] = abortAt[q] /\ out'[q] = out[q]

(* All variables are functions on the processors. *)
AllFunctions ==
    /\ obj = [q \in Proc |-> obj[q]] /\ cpl = [q \in Proc |-> cpl[q]] /\ pruned = [q \in Proc |-> pruned[q]]
    /\ copyObj = [q \in Proc |-> copyObj[q]] /\ setPrio = [q \in Proc |-> setPrio[q]] /\ delCmd = [q \in Proc |-> delCmd[q]]
    /\ newOwner = [q \in Proc |-> newOwner[q]] /\ delObj = [q \in Proc |-> delObj[q]]
    /\ modCpl = [q \in Proc |-> modCpl[q]] /\ coupled = [q \in Proc |-> coupled[q]]
    /\ pc = [q \in Proc |-> pc[q]] /\ conn = [q \in Proc |-> conn[q]]
    /\ abortAt = [q \in Proc |-> abortAt[q]] /\ out = [q \in Proc |-> out[q]]

LEMMA AreFunctions == DataType /\ PhaseInv => AllFunctions
<1> SUFFICES ASSUME DataType, PhaseInv PROVE AllFunctions
  OBVIOUS
<1>1. /\ obj = [q \in Proc |-> obj[q]] /\ cpl = [q \in Proc |-> cpl[q]] /\ pruned = [q \in Proc |-> pruned[q]]
      /\ copyObj = [q \in Proc |-> copyObj[q]] /\ setPrio = [q \in Proc |-> setPrio[q]] /\ delCmd = [q \in Proc |-> delCmd[q]]
      /\ newOwner = [q \in Proc |-> newOwner[q]] /\ coupled = [q \in Proc |-> coupled[q]]
      /\ pc = [q \in Proc |-> pc[q]] /\ conn = [q \in Proc |-> conn[q]] /\ abortAt = [q \in Proc |-> abortAt[q]]
  BY DEF DataType, TypeOK
<1>2. delObj = [q \in Proc |-> delObj[q]] /\ modCpl = [q \in Proc |-> modCpl[q]]
  BY DEF DataType
<1>3. out = [q \in Proc |-> out[q]]
  BY DEF PhaseInv, ControlType
<1> QED  BY <1>1, <1>2, <1>3 DEF AllFunctions

LEMMA OthersSame ==
  ASSUME AllFunctions, NEW p \in Proc, Command(p) \/ XferEnd(p) \/ Transfer(p), NEW q \in Proc, q # p
  PROVE  SameAt(q)
<1>1. CASE Command(p)
  BY <1>1 DEF Command, XferBegin, XferCopyObj, XferPrioChange, XferDeleteObj, SameAt, AllFunctions,
              objVars, itemVars, cmdVars, ctrlVars
<1>2. CASE XferEnd(p)
  BY <1>2 DEF XferEnd, ConnectObj, CallConnect, SameAt, AllFunctions, objVars, itemVars, cmdVars
<1>3. CASE PruneConnect(p)
  BY <1>3 DEF PruneConnect, ConnectObj, CallConnect, SameAt, AllFunctions, objVars, itemVars, cmdVars
<1>4. CASE CmdMsgUnpack(p)
  BY <1>4 DEF CmdMsgUnpack, ConnectObj, CallConnect, SameAt, AllFunctions
<1>5. CASE ExecLocalCommands(p)
  BY <1>5 DEF ExecLocalCommands, SameAt, AllFunctions
<1>6. CASE XferEndAborted(p)
  BY <1>6 DEF XferEndAborted, ResetItems, SameAt, AllFunctions, objVars
<1>7. CASE XferUnpack(p)
  BY <1>7 DEF XferUnpack, CallConnect, SameAt, AllFunctions, cmdVars
<1>8. CASE CplConnect(p)
  BY <1>8 DEF CplConnect, SameAt, AllFunctions, objVars, itemVars, cmdVars
<1>9. CASE XferEndReturn(p)
  BY <1>9 DEF XferEndReturn, ResetItems, SameAt, AllFunctions, objVars
<1>10. CASE \E m \in msgs : CplMsgUnpackSingle(p, m)
  BY <1>10 DEF CplMsgUnpackSingle, SameAt, AllFunctions, itemVars, cmdVars, ctrlVars
<1> QED  BY <1>1, <1>2, <1>3, <1>4, <1>5, <1>6, <1>7, <1>8, <1>9, <1>10 DEF Transfer

LEMMA PreparedAreMessages ==
  ASSUME NEW p \in Proc
  PROVE  /\ \A m \in CmdMsgs(p) : m.kind = "cmd" /\ m.from = p /\ m.to \in Proc
         /\ \A m \in ObjMsgs(p) : m.kind = "obj" /\ m.from = p /\ m.to \in Proc
         /\ \A mod, del, add : \A m \in CplMsgs(p, mod, del, add) : m.kind = "cpl" /\ m.from = p /\ m.to \in Proc
<1>1. \A m \in CmdMsgs(p) : m.kind = "cmd" /\ m.from = p /\ m.to \in Proc
  BY DEF CmdMsgs, CmdMsg
<1>2. \A m \in ObjMsgs(p) : m.kind = "obj" /\ m.from = p /\ m.to \in Proc
  BY DEF ObjMsgs, ObjMsg
<1>3. \A mod, del, add : \A m \in CplMsgs(p, mod, del, add) : m.kind = "cpl" /\ m.from = p /\ m.to \in Proc
  BY DEF CplMsgs, CplMsg
<1> QED  BY <1>1, <1>2, <1>3

(* The items and the messages. *)
ItemType ==
    /\ copyObj \in [Proc -> [Gid -> [Proc -> PrioOrNone]]]
    /\ setPrio \in [Proc -> [Gid -> PrioOrNone]]
    /\ delCmd \in [Proc -> SUBSET Gid] /\ newOwner \in [Proc -> SUBSET (Gid \X Proc)]
    /\ \A p \in Proc : modCpl[p] \subseteq CplItem /\ DOMAIN delObj[p] \subseteq Gid
    /\ coupled \in [Proc -> SUBSET Gid]
    /\ delObj = [p \in Proc |-> delObj[p]] /\ modCpl = [p \in Proc |-> modCpl[p]]
MsgType ==
    /\ \A m \in msgs : m.kind \in {"cmd", "obj", "cpl"} /\ m.from \in Proc /\ m.to \in Proc
    /\ \A p \in Proc : \A m \in out[p] : m.kind \in {"cmd", "obj", "cpl"} /\ m.from \in Proc /\ m.to \in Proc
FlagType ==
    /\ pruned \in [Proc -> SUBSET Gid] /\ resent \in [Proc -> SUBSET Gid]
    /\ mode \in [Proc -> {"IDLE", "CMDS", "BUSY"}]
    /\ pc \in [Proc -> {"user", "prune", "pruneComm", "connect", "comm", "connectCpl", "commCpl"}]
    /\ conn \in [Proc -> Nat] /\ abortAt \in [Proc -> SUBSET Nat] /\ rounds \in [Proc -> 0 .. MaxRounds]
    /\ fault \subseteq Proc
CopyType == obj \in [Proc -> [Gid -> PrioOrNone]] /\ cpl \in [Proc -> [Gid -> [Proc -> PrioOrNone]]]

LEMMA DataParts == DataType <=> ItemType /\ MsgType /\ FlagType /\ CopyType
<1>1. (\A m \in msgs \cup UNION {out[p] : p \in Proc} :
          m.kind \in {"cmd", "obj", "cpl"} /\ m.from \in Proc /\ m.to \in Proc) <=> MsgType
  BY DEF MsgType
<1> HIDE DEF MsgType
<1> QED  BY <1>1, Zenon DEF DataType, TypeOK, ItemType, FlagType, CopyType

LEMMA MergeIntoType ==
  ASSUME NEW a \in PrioOrNone, NEW b \in Prio
  PROVE  MergeInto(a, b) \in PrioOrNone
  BY MergeIsPrio DEF MergeInto, PrioOrNone

LEMMA ItemTypeStep ==
  ASSUME DataType, PhaseInv, NEW p \in Proc, Command(p) \/ XferEnd(p) \/ Transfer(p)
  PROVE  ItemType'
<1>0. ItemType /\ CopyType /\ FlagType
  BY DataParts
<1>1. CASE XferBegin(p)
  BY <1>0, <1>1 DEF XferBegin, ItemType, cmdVars, itemVars
<1>2. CASE \E g \in Gid, d \in Proc, prio \in Prio : XferCopyObj(p, g, d, prio)
  <2> SUFFICES ASSUME NEW g \in Gid, NEW d \in Proc, NEW prio \in Prio, XferCopyObj(p, g, d, prio) PROVE ItemType'
    BY <1>2
  <2>1. MergeInto(copyObj[p][g][d], prio) \in PrioOrNone /\ MergeInto(setPrio[p][g], prio) \in PrioOrNone
    BY <1>0, MergeIntoType DEF ItemType
  <2>2. CASE d = p
    <3>1. setPrio' = [setPrio EXCEPT ![p][g] = MergeInto(@, prio)] /\ UNCHANGED <<copyObj, delCmd, itemVars>>
      BY <2>2 DEF XferCopyObj
    <3>2. setPrio' \in [Proc -> [Gid -> PrioOrNone]]
      BY <1>0, <2>1, <3>1 DEF ItemType
    <3> QED  BY <1>0, <3>1, <3>2 DEF ItemType, itemVars
  <2>3. CASE d # p
    <3>1. copyObj' = [copyObj EXCEPT ![p][g][d] = MergeInto(@, prio)] /\ UNCHANGED <<setPrio, delCmd, itemVars>>
      BY <2>3 DEF XferCopyObj
    <3>2. copyObj' \in [Proc -> [Gid -> [Proc -> PrioOrNone]]]
      BY <1>0, <2>1, <3>1 DEF ItemType
    <3> QED  BY <1>0, <3>1, <3>2 DEF ItemType, itemVars
  <2> QED  BY <2>2, <2>3
<1>3. CASE \E g \in Gid, prio \in Prio : XferPrioChange(p, g, prio)
  <2> SUFFICES ASSUME NEW g \in Gid, NEW prio \in Prio, XferPrioChange(p, g, prio) PROVE ItemType'
    BY <1>3
  <2>1. MergeInto(setPrio[p][g], prio) \in PrioOrNone
    BY <1>0, MergeIntoType DEF ItemType
  <2> QED  BY <1>0, <2>1 DEF XferPrioChange, ItemType, itemVars
<1>4. CASE \E g \in Gid : XferDeleteObj(p, g)
  BY <1>0, <1>4 DEF XferDeleteObj, ItemType, itemVars
<1>5. NewOwners(p) \in SUBSET (Gid \X Proc)
  BY DEF NewOwners
<1>6. CASE XferEnd(p)
  BY <1>0, <1>5, <1>6 DEF XferEnd, ConnectObj, ItemType, cmdVars
<1>7. CASE PruneConnect(p)
  BY <1>0, <1>5, <1>7 DEF PruneConnect, ConnectObj, ItemType, cmdVars
<1>8. CASE CmdMsgUnpack(p)
  BY <1>0, <1>5, <1>8 DEF CmdMsgUnpack, ConnectObj, ItemType
<1>9. CASE ExecLocalCommands(p)
  <2> DEFINE valid == {g \in Gid : setPrio[p][g] # NoPrio /\ g \notin delCmd[p]}
             Items == UNION {{[to |-> q, gid |-> g, prio |-> setPrio[p][g]] :
                                 q \in Partners(p, g) \cup Dests(newOwner[p], g)} : g \in valid}
  <2>1. /\ setPrio' = [setPrio EXCEPT ![p] = [g \in Gid |-> IF g \in valid THEN setPrio[p][g] ELSE NoPrio]]
        /\ modCpl' = [modCpl EXCEPT ![p] = Items]
        /\ delObj' = [delObj EXCEPT ![p] = [g \in delCmd[p] |-> [q \in Proc |->
                      IF <<g, q>> \in newOwner[p] THEN PrioInvalid ELSE cpl[p][g][q]]]]
        /\ UNCHANGED <<copyObj, delCmd, newOwner, coupled>>
    BY <1>9 DEF ExecLocalCommands
  <2>2. Items \subseteq CplItem
    <3>1. \A g \in valid : Partners(p, g) \cup Dests(newOwner[p], g) \subseteq Proc /\ setPrio[p][g] \in Prio /\ g \in Gid
      BY <1>0 DEF ItemType, Partners, Dests, PrioOrNone
    <3> HIDE DEF valid
    <3> QED  BY <3>1 DEF CplItem
  <2>3. setPrio' \in [Proc -> [Gid -> PrioOrNone]]
    <3>1. [g \in Gid |-> IF g \in valid THEN setPrio[p][g] ELSE NoPrio] \in [Gid -> PrioOrNone]
      BY <1>0 DEF ItemType, PrioOrNone
    <3> QED  BY <1>0, <2>1, <3>1 DEF ItemType
  <2>4. delCmd[p] \subseteq Gid
    BY <1>0 DEF ItemType
  <2> HIDE DEF Items, valid
  <2> QED  BY <1>0, <2>1, <2>2, <2>3, <2>4 DEF ItemType
<1>10. ASSUME ResetItems(p) PROVE ItemType'
  <2>1. NoCopies \in [Gid -> [Proc -> PrioOrNone]] /\ NoSetPrio \in [Gid -> PrioOrNone]
    BY DEF NoCopies, NoSetPrio, PrioOrNone
  <2> QED  BY <1>0, <1>10, <2>1 DEF ResetItems, ItemType, NoDelObj
<1>11. CASE XferEndAborted(p) \/ XferEndReturn(p)
  BY <1>10, <1>11 DEF XferEndAborted, XferEndReturn
<1>12. CASE XferUnpack(p)
  <2>1. coupled' = [coupled EXCEPT ![p] = LocalCoupledObjects(p)'] /\ UNCHANGED <<cmdVars, newOwner, delObj, modCpl>>
    BY <1>12 DEF XferUnpack
  <2>2. LocalCoupledObjects(p)' \subseteq Gid
    BY DEF LocalCoupledObjects
  <2> QED  BY <1>0, <2>1, <2>2 DEF ItemType, cmdVars
<1>13. CASE CplConnect(p)
  BY <1>0, <1>13 DEF CplConnect, ItemType, cmdVars, itemVars
<1>14. CASE \E m \in msgs : CplMsgUnpackSingle(p, m)
  BY <1>0, <1>14 DEF CplMsgUnpackSingle, ItemType, cmdVars, itemVars
<1> QED  BY <1>1, <1>2, <1>3, <1>4, <1>6, <1>7, <1>8, <1>9, <1>11, <1>12, <1>13, <1>14 DEF Transfer, Command

LEMMA MsgTypeStep ==
  ASSUME DataType, PhaseInv, NEW p \in Proc, Command(p) \/ XferEnd(p) \/ Transfer(p)
  PROVE  MsgType'
<1>0. MsgType /\ out = [q \in Proc |-> out[q]]
  BY DataParts, AreFunctions DEF AllFunctions
<1>11. /\ \A m \in CmdMsgs(p) : m.kind = "cmd" /\ m.from = p /\ m.to \in Proc
       /\ \A m \in ObjMsgs(p) : m.kind = "obj" /\ m.from = p /\ m.to \in Proc
  BY PreparedAreMessages
<1>1. CASE Command(p)
  BY <1>0, <1>1 DEF Command, XferBegin, XferCopyObj, XferPrioChange, XferDeleteObj, MsgType
<1>2. CASE XferEnd(p)
  <2>1. PICK M : (M = CmdMsgs(p) \/ M = ObjMsgs(p) \/ M = {}) /\ out' = [out EXCEPT ![p] = M]
    BY <1>2 DEF XferEnd, ConnectObj, CallConnect
  <2>2. msgs' \subseteq msgs \cup out[p]
    BY <1>2 DEF XferEnd
  <2>3. \A m \in M : m.kind \in {"cmd", "obj", "cpl"} /\ m.from \in Proc /\ m.to \in Proc
    BY <1>11, <2>1
  <2> QED  BY <1>0, <2>1, <2>2, <2>3 DEF MsgType
<1>3. CASE PruneConnect(p)
  <2>1. PICK M : (M = CmdMsgs(p) \/ M = ObjMsgs(p) \/ M = {}) /\ out' = [out EXCEPT ![p] = M]
    BY <1>3 DEF PruneConnect, ConnectObj, CallConnect
  <2>2. msgs' \subseteq msgs \cup out[p]
    BY <1>3 DEF PruneConnect
  <2>3. \A m \in M : m.kind \in {"cmd", "obj", "cpl"} /\ m.from \in Proc /\ m.to \in Proc
    BY <1>11, <2>1
  <2> QED  BY <1>0, <2>1, <2>2, <2>3 DEF MsgType
<1>4. CASE CmdMsgUnpack(p)
  <2>1. PICK M : (M = CmdMsgs(p) \/ M = ObjMsgs(p) \/ M = {}) /\ out' = [out EXCEPT ![p] = M]
    BY <1>4 DEF CmdMsgUnpack, ConnectObj, CallConnect
  <2>2. msgs' \subseteq msgs \cup out[p]
    BY <1>4 DEF CmdMsgUnpack
  <2>3. \A m \in M : m.kind \in {"cmd", "obj", "cpl"} /\ m.from \in Proc /\ m.to \in Proc
    BY <1>11, <2>1
  <2> QED  BY <1>0, <2>1, <2>2, <2>3 DEF MsgType
<1>5. CASE ExecLocalCommands(p)
  <2>1. msgs' = msgs \cup out[p] /\ out' = [out EXCEPT ![p] = {}]
    BY <1>5 DEF ExecLocalCommands
  <2> QED  BY <1>0, <2>1 DEF MsgType
<1>6. CASE XferEndAborted(p)
  BY <1>0, <1>6 DEF XferEndAborted, MsgType
<1>7. CASE XferUnpack(p)
  <2>1. PICK mod, del, add : msgs' = msgs \ Received(p, "obj") /\ out' = [out EXCEPT ![p] = CplMsgs(p, mod, del, add)]
    BY <1>7 DEF XferUnpack, CallConnect
  <2>2. \A m \in CplMsgs(p, mod, del, add) : m.kind = "cpl" /\ m.from = p /\ m.to \in Proc
    BY PreparedAreMessages
  <2> QED  BY <1>0, <2>1, <2>2 DEF MsgType
<1>8. CASE CplConnect(p)
  BY <1>0, <1>8 DEF CplConnect, MsgType
<1>9. CASE XferEndReturn(p)
  BY <1>0, <1>9 DEF XferEndReturn, MsgType
<1>10. CASE \E m \in msgs : CplMsgUnpackSingle(p, m)
  BY <1>0, <1>10 DEF CplMsgUnpackSingle, MsgType
<1> QED  BY <1>1, <1>2, <1>3, <1>4, <1>5, <1>6, <1>7, <1>8, <1>9, <1>10 DEF Transfer

LEMMA FlagTypeStep ==
  ASSUME DataType, PhaseInv, NEW p \in Proc, Command(p) \/ XferEnd(p) \/ Transfer(p)
  PROVE  FlagType'
<1>0. FlagType /\ ItemType
  BY DataParts
<1>1. CASE Command(p)
  BY <1>0, <1>1, XferAssumption DEF Command, XferBegin, XferCopyObj, XferPrioChange, XferDeleteObj, FlagType, ctrlVars, objVars
<1>2. CASE XferEnd(p)
  BY <1>0, <1>2 DEF XferEnd, ConnectObj, CallConnect, FlagType, objVars
<1>3. CASE PruneConnect(p)
  BY <1>0, <1>3 DEF PruneConnect, ConnectObj, CallConnect, FlagType, objVars
<1>4. CASE CmdMsgUnpack(p)
  <2>1. delCmd[p] \in SUBSET Gid /\ LocalCoupledObjects(p) \in SUBSET Gid
    BY <1>0 DEF ItemType, LocalCoupledObjects
  <2> QED  BY <1>0, <1>4, <2>1 DEF CmdMsgUnpack, ConnectObj, CallConnect, FlagType
<1>5. CASE ExecLocalCommands(p)
  BY <1>0, <1>5 DEF ExecLocalCommands, FlagType
<1>6. CASE XferEndAborted(p)
  BY <1>0, <1>6 DEF XferEndAborted, ResetItems, FlagType, objVars
<1>7. CASE XferUnpack(p)
  <2>1. /\ pruned' = [pruned EXCEPT ![p] = {g \in pruned[p] : Newness(p, Received(p, "obj"), g) # "PRUNEDNEW"}]
        /\ \E M : CallConnect(p, "connectCpl", M)
        /\ UNCHANGED <<resent, mode, abortAt, rounds, fault>>
    BY <1>7 DEF XferUnpack
  <2> QED  BY <1>0, <2>1 DEF CallConnect, FlagType
<1>8. CASE CplConnect(p)
  BY <1>0, <1>8 DEF CplConnect, FlagType, objVars
<1>9. CASE XferEndReturn(p)
  BY <1>0, <1>9 DEF XferEndReturn, ResetItems, FlagType, objVars
<1>10. CASE \E m \in msgs : CplMsgUnpackSingle(p, m)
  BY <1>0, <1>10 DEF CplMsgUnpackSingle, FlagType, ctrlVars
<1> QED  BY <1>1, <1>2, <1>3, <1>4, <1>5, <1>6, <1>7, <1>8, <1>9, <1>10 DEF Transfer

-------------------------------------------------------------------------------
(* The preparations of a processor that has not executed anything yet.       *)

(* No command to send a copy is dropped. *)
Grows == \A s \in Proc : \A g \in Gid, d \in Proc : copyObj[s][g][d] # NoPrio => copyObj'[s][g][d] # NoPrio

LEMMA CommandsSame ==
  ASSUME NEW q \in Proc, SameAt(q), CommandsOk(q)
  PROVE  CommandsOk(q)'
<1>1. \A m \in out[q] : CmdMsgOk(m) /\ m.from = q => CmdMsgOk(m)'
  BY DEF SameAt, CmdMsgOk
<1>2. Prepared(q) => Prepared(q)'
  BY DEF SameAt, Prepared, Matches
<1> QED  BY <1>1, <1>2 DEF SameAt, CommandsOk

LEMMA PrunedSame ==
  ASSUME NEW q \in Proc, SameAt(q), PrunedOk(q), Grows
  PROVE  PrunedOk(q)'
  BY DEF SameAt, PrunedOk, Grows

LEMMA SettledSame ==
  ASSUME NEW q \in Proc, Settled(q), obj' = obj, cpl'[q] = cpl[q]
  PROVE  Settled(q)'
  BY DEF Settled, Right

LEMMA CmdMsgSame ==
  ASSUME NEW m, CmdMsgOk(m), Grows
  PROVE  CmdMsgOk(m)'
  BY DEF CmdMsgOk, Grows

(* What a command of the application changes. *)
LEMMA CommandStep ==
  ASSUME Prune => ~MixPrioDelete, DataType, NEW p \in Proc, Command(p), CommandsOk(p)
  PROVE  /\ CommandsOk(p)' /\ Grows /\ pc[p] = "user"
         /\ UNCHANGED <<objVars, itemVars, pc, conn, abortAt, out, msgs, fault>>
<1>0. /\ copyObj \in [Proc -> [Gid -> [Proc -> PrioOrNone]]] /\ setPrio \in [Proc -> [Gid -> PrioOrNone]]
      /\ delCmd \in [Proc -> SUBSET Gid]
  BY DataParts DEF ItemType
<1>1. pc[p] = "user" /\ UNCHANGED <<objVars, itemVars, pc, conn, abortAt, out, msgs, fault>>
  BY DEF Command, XferBegin, XferCopyObj, XferPrioChange, XferDeleteObj, ctrlVars, CanCommand
<1>2. obj' = obj /\ pc' = pc
  BY <1>1 DEF objVars
<1>3. CASE XferBegin(p)
  BY <1>1, <1>2, <1>3 DEF XferBegin, CommandsOk, Grows, cmdVars
<1>4. ASSUME NEW g \in Gid, NEW d \in Proc, NEW prio \in Prio, XferCopyObj(p, g, d, prio)
      PROVE  CommandsOk(p)' /\ Grows
  <2>1. obj[p][g] # NoPrio /\ delCmd' = delCmd
    BY <1>4 DEF XferCopyObj, CanCommand
  <2>2. Prune => \A x \in delCmd'[p] : setPrio'[p][x] = NoPrio
    BY <1>4 DEF XferCopyObj, PrioAndDeleteOk
  <2>3. MergeInto(copyObj[p][g][d], prio) # NoPrio
    BY <1>0, MergeIsPrio, Distinct DEF MergeInto, PrioOrNone
  <2>4. CASE d = p
    <3>1. setPrio' = [setPrio EXCEPT ![p][g] = MergeInto(@, prio)] /\ copyObj' = copyObj
      BY <1>4, <2>4 DEF XferCopyObj
    <3> QED  BY <1>0, <1>1, <1>2, <2>1, <2>2, <3>1 DEF CommandsOk, Grows
  <2>5. CASE d # p
    <3>1. copyObj' = [copyObj EXCEPT ![p][g][d] = MergeInto(@, prio)] /\ setPrio' = setPrio
      BY <1>4, <2>5 DEF XferCopyObj
    <3>2. \A s \in Proc, x \in Gid, q \in Proc :
             copyObj'[s][x][q] = IF s = p /\ x = g /\ q = d THEN MergeInto(copyObj[p][g][d], prio) ELSE copyObj[s][x][q]
      BY <1>0, <3>1
    <3>3. Grows
      BY <2>3, <3>2 DEF Grows
    <3> QED  BY <1>1, <1>2, <2>1, <2>2, <2>3, <2>5, <3>1, <3>2, <3>3 DEF CommandsOk
  <2> QED  BY <2>4, <2>5
<1>5. ASSUME NEW g \in Gid, NEW prio \in Prio, XferPrioChange(p, g, prio)
      PROVE  CommandsOk(p)' /\ Grows
  <2>1. obj[p][g] # NoPrio /\ UNCHANGED <<copyObj, delCmd>> /\ setPrio' = [setPrio EXCEPT ![p][g] = MergeInto(@, prio)]
    BY <1>5 DEF XferPrioChange, CanCommand
  <2>2. Prune => \A x \in delCmd'[p] : setPrio'[p][x] = NoPrio
    BY <1>5 DEF XferPrioChange, PrioAndDeleteOk
  <2> QED  BY <1>0, <1>1, <1>2, <2>1, <2>2 DEF CommandsOk, Grows
<1>6. ASSUME NEW g \in Gid, XferDeleteObj(p, g)
      PROVE  CommandsOk(p)' /\ Grows
  <2>1. obj[p][g] # NoPrio /\ UNCHANGED <<copyObj, setPrio>> /\ delCmd' = [delCmd EXCEPT ![p] = @ \cup {g}]
    BY <1>6 DEF XferDeleteObj, CanCommand
  <2>2. Prune => \A x \in delCmd'[p] : setPrio'[p][x] = NoPrio
    BY <1>6 DEF XferDeleteObj, PrioAndDeleteOk
  <2> QED  BY <1>0, <1>1, <1>2, <2>1, <2>2 DEF CommandsOk, Grows
<1> QED  BY <1>1, <1>3, <1>4, <1>5, <1>6 DEF Command

(* Where XferEnd comes to the exchange of objects. *)
LEMMA ConnectObjPrepares ==
  ASSUME DataType, PhaseInv, NEW p \in Proc, ConnectObj(p),
         obj'[p] = obj[p], cpl'[p] = cpl[p], copyObj'[p] = copyObj[p]
  PROVE  pc'[p] = "connect" /\ (conn'[p] \notin abortAt'[p] => Prepared(p)')
<1>0. AllFunctions
  BY AreFunctions
<1>1. CASE CallConnect(p, "connect", ObjMsgs(p)) /\ newOwner' = [newOwner EXCEPT ![p] = NewOwners(p)]
  <2>1. pc'[p] = "connect" /\ out'[p] = ObjMsgs(p) /\ newOwner'[p] = NewOwners(p)
    BY <1>0, <1>1 DEF CallConnect, AllFunctions
  <2>2. ASSUME NEW h, HistoryOk(h), Matches(h, p)'
        PROVE  ObjMsgsOk(h, p, out'[p]) /\ newOwner'[p] = NewOwnersOf(h, p)
    <3>1. Matches(h, p)
      BY <2>2 DEF Matches
    <3> QED  BY <2>1, <2>2, <3>1, ObjMsgsAre, NewOwnersAre
  <2> QED  BY <2>1, <2>2 DEF Prepared
<1>2. CASE CallConnect(p, "connect", {}) /\ abortAt' = [abortAt EXCEPT ![p] = @ \cup {conn[p] + 1}]
  BY <1>0, <1>2 DEF CallConnect, AllFunctions
<1> QED  BY <1>1, <1>2 DEF ConnectObj

LEMMA XferEndStep ==
  ASSUME Prune => ~NoMem, DataType, PhaseInv, NEW p \in Proc, XferEnd(p), CommandsOk(p)
  PROVE  /\ CommandsOk(p)' /\ pc[p] = "user" /\ pc'[p] \in {"prune", "connect"} /\ conn' = [conn EXCEPT ![p] = @ + 1]
         /\ UNCHANGED <<objVars, cmdVars, delObj, modCpl, coupled, msgs, fault>>
<1>0. AllFunctions
  BY AreFunctions
<1>1. /\ pc[p] = "user" /\ conn' = [conn EXCEPT ![p] = @ + 1]
      /\ UNCHANGED <<objVars, cmdVars, delObj, modCpl, coupled, msgs, fault>>
  BY DEF XferEnd, ConnectObj, CallConnect
<1>2. obj' = obj /\ cpl' = cpl /\ copyObj' = copyObj /\ setPrio' = setPrio /\ delCmd' = delCmd
  BY <1>1 DEF objVars, cmdVars
<1>3. CASE Prune
  <2>1. CallConnect(p, "prune", CmdMsgs(p))
    BY <1>3 DEF XferEnd
  <2>2. pc'[p] = "prune" /\ out'[p] = CmdMsgs(p)
    BY <1>0, <2>1 DEF CallConnect, AllFunctions
  <2>3. \A m \in CmdMsgs(p) : CmdMsgOk(m)' /\ m.from = p
    BY <1>2 DEF CmdMsgs, CmdMsg, CmdMsgOk
  <2> QED  BY <1>1, <1>2, <2>2, <2>3 DEF CommandsOk
<1>4. CASE ~Prune
  <2>1. ConnectObj(p)
    BY <1>4 DEF XferEnd
  <2>2. pc'[p] = "connect" /\ (conn'[p] \notin abortAt'[p] => Prepared(p)')
    BY <1>2, <2>1, ConnectObjPrepares
  <2> QED  BY <1>1, <1>2, <2>2 DEF CommandsOk
<1> QED  BY <1>3, <1>4

(* While nobody has executed anything, deletions are at most pruned. *)
LEMMA QuietStep ==
  ASSUME Prune => ~NoMem /\ ~MixPrioDelete, DataType, PhaseInv, Quiet, NEW p \in Proc,
         Command(p) \/ XferEnd(p) \/ Transfer(p), ~ExecLocalCommands(p)
  PROVE  Quiet'
<1>0. AllFunctions /\ \A q \in Proc : q # p => SameAt(q)
  BY AreFunctions, OthersSame
<1>1. /\ \A q \in Proc : pc[q] \in EarlyPcs /\ Settled(q) /\ CommandsOk(q) /\ PrunedOk(q)
      /\ \A m \in msgs : CmdMsgOk(m)
      /\ fault = {}
  BY DEF Quiet
<1>2. ASSUME obj' = obj, cpl' = cpl, Grows
      PROVE  \A q \in Proc : q # p => pc'[q] \in EarlyPcs /\ Settled(q)' /\ CommandsOk(q)' /\ PrunedOk(q)'
  <2> SUFFICES ASSUME NEW q \in Proc, q # p
               PROVE  pc'[q] \in EarlyPcs /\ Settled(q)' /\ CommandsOk(q)' /\ PrunedOk(q)'
    OBVIOUS
  <2>1. SameAt(q) /\ pc'[q] = pc[q] /\ cpl'[q] = cpl[q]
    BY <1>0, <1>2 DEF SameAt
  <2> QED  BY <1>1, <1>2, <2>1, SettledSame, CommandsSame, PrunedSame
<1>3. ASSUME obj' = obj, cpl' = cpl
      PROVE  Settled(p)'
  BY <1>1, <1>3, SettledSame
<1>4. ASSUME copyObj' = copyObj PROVE Grows
  BY <1>4 DEF Grows
<1>5. CASE Command(p)
  <2>1. /\ CommandsOk(p)' /\ Grows /\ pc[p] = "user"
        /\ UNCHANGED <<objVars, itemVars, pc, conn, abortAt, out, msgs, fault>>
    BY <1>1, <1>5, CommandStep
  <2>2. obj' = obj /\ cpl' = cpl /\ pruned' = pruned
    BY <2>1 DEF objVars
  <2>3. PrunedOk(p)'
    BY <1>1, <2>1, <2>2 DEF PrunedOk
  <2>4. \A m \in msgs' : CmdMsgOk(m)'
    BY <1>1, <2>1, CmdMsgSame
  <2> QED  BY <1>1, <1>2, <1>3, <2>1, <2>2, <2>3, <2>4 DEF Quiet, EarlyPcs
<1>6. CASE XferEnd(p)
  <2>1. /\ CommandsOk(p)' /\ pc[p] = "user" /\ pc'[p] \in {"prune", "connect"}
        /\ UNCHANGED <<objVars, cmdVars, delObj, modCpl, coupled, msgs, fault>>
    BY <1>1, <1>6, XferEndStep
  <2>2. obj' = obj /\ cpl' = cpl /\ pruned' = pruned /\ copyObj' = copyObj
    BY <2>1 DEF objVars, cmdVars
  <2>3. PrunedOk(p)'
    BY <1>1, <2>1, <2>2 DEF PrunedOk
  <2>4. Grows /\ \A m \in msgs' : CmdMsgOk(m)'
    BY <1>1, <1>4, <2>1, <2>2, CmdMsgSame
  <2> QED  BY <1>1, <1>2, <1>3, <2>1, <2>2, <2>3, <2>4 DEF Quiet, EarlyPcs
<1>7. CASE PruneConnect(p)
  <2>1. Prune /\ ~Exception(p)
    BY <1>7 DEF PruneConnect, PhaseInv, PhaseIfPruned, AbortsInLastCall, Exception
  <2>2. /\ pc[p] = "prune" /\ pc' = [pc EXCEPT ![p] = "pruneComm"] /\ msgs' = msgs \cup out[p]
        /\ UNCHANGED <<objVars, cmdVars, fault>>
    BY <1>7, <2>1 DEF PruneConnect
  <2>3. obj' = obj /\ cpl' = cpl /\ pruned' = pruned /\ copyObj' = copyObj /\ setPrio' = setPrio /\ delCmd' = delCmd
    BY <2>2 DEF objVars, cmdVars
  <2>4. pc'[p] = "pruneComm"
    BY <1>0, <2>2 DEF AllFunctions
  <2>5. CommandsOk(p)' /\ PrunedOk(p)'
    BY <1>1, <2>2, <2>3, <2>4 DEF CommandsOk, PrunedOk
  <2>6. Grows /\ \A m \in out[p] : CmdMsgOk(m)
    BY <1>1, <1>4, <2>2, <2>3 DEF CommandsOk
  <2>7. \A m \in msgs' : CmdMsgOk(m)'
    BY <1>1, <2>2, <2>6, CmdMsgSame
  <2> QED  BY <1>1, <1>2, <1>3, <2>2, <2>3, <2>4, <2>5, <2>6, <2>7 DEF Quiet, EarlyPcs
<1>8. CASE CmdMsgUnpack(p)
  <2> DEFINE in == Received(p, "cmd")
             gids == UNION {m.gids : m \in in}
  <2>1. /\ pc[p] = "pruneComm" /\ ConnectObj(p)
        /\ pruned' = [pruned EXCEPT ![p] = @ \cup (delCmd[p] \cap gids)]
        /\ delCmd' = [delCmd EXCEPT ![p] = @ \ gids]
        /\ msgs' = msgs \ in
        /\ UNCHANGED <<obj, cpl, copyObj, setPrio, fault>>
    BY <1>8 DEF CmdMsgUnpack
  <2>2. pc'[p] = "connect" /\ (conn'[p] \notin abortAt'[p] => Prepared(p)')
    BY <2>1, ConnectObjPrepares
  <2>3. Grows /\ \A m \in msgs' : CmdMsgOk(m)'
    BY <1>1, <1>4, <2>1, CmdMsgSame
  <2>4. delCmd'[p] = delCmd[p] \ gids /\ pruned'[p] = pruned[p] \cup (delCmd[p] \cap gids)
    BY <1>0, <2>1 DEF AllFunctions
  <2>5. CommandsOk(p)'
    BY <1>1, <2>1, <2>2, <2>4 DEF CommandsOk
  <2>6. pruned[p] = {} /\ Prune
    BY <1>1, <2>1 DEF PrunedOk, PhaseInv, PhaseIfPruned
  <2>7. \A g \in gids : g \in Gid /\ \E s \in Proc : copyObj[s][g][p] # NoPrio
    BY <1>1 DEF Received, CmdMsgOk
  <2>8. PrunedOk(p)'
    <3> HIDE DEF gids, in
    <3> SUFFICES ASSUME NEW g \in pruned'[p]
                 PROVE  /\ g \in Gid /\ Prune /\ pc'[p] = "connect"
                        /\ obj'[p][g] # NoPrio /\ setPrio'[p][g] = NoPrio /\ g \notin delCmd'[p]
                        /\ \E s \in Proc : copyObj'[s][g][p] # NoPrio
      BY DEF PrunedOk
    <3>1. g \in delCmd[p] /\ g \in gids /\ g \in Gid
      BY <2>4, <2>6, <2>7
    <3>2. obj[p][g] # NoPrio /\ setPrio[p][g] = NoPrio
      BY <1>1, <2>6, <3>1 DEF CommandsOk
    <3> QED  BY <2>1, <2>2, <2>4, <2>6, <2>7, <3>1, <3>2
  <2> HIDE DEF in, gids
  <2> QED  BY <1>1, <1>2, <1>3, <2>1, <2>2, <2>3, <2>5, <2>8 DEF Quiet, EarlyPcs
<1>9. CASE XferEndAborted(p)
  <2>1. ~Prune
    BY <1>9 DEF XferEndAborted, PhaseInv, AbortsInLastCall, Exception
  <2>2. (\A q \in Proc : pruned[q] = {}) /\ msgs = {}
    <3>1. \A q \in Proc : pruned[q] = {}
      BY <1>1, <2>1 DEF PrunedOk
    <3>2. \A m \in msgs : FALSE
      BY <1>1, <2>1 DEF CmdMsgOk, PhaseInv, MsgsOfCommonCall, PhaseIfPruned, Takes
    <3> QED  BY <3>1, <3>2
  <2>3. /\ ResetItems(p)
        /\ UNCHANGED <<objVars, msgs, fault>>
    BY <1>9 DEF XferEndAborted
  <2>4. obj' = obj /\ cpl' = cpl /\ pruned' = pruned
    BY <2>3 DEF objVars
  <2>5. copyObj'[p] = NoCopies /\ setPrio'[p] = NoSetPrio /\ delCmd'[p] = {} /\ pc'[p] = "user"
    BY <1>0, <2>3 DEF ResetItems, AllFunctions
  <2>6. CommandsOk(p)'
    BY <2>5 DEF CommandsOk, NoCopies, NoSetPrio
  <2>7. \A q \in Proc : PrunedOk(q)'
    BY <2>2, <2>4 DEF PrunedOk
  <2>8. \A q \in Proc : q # p => pc'[q] \in EarlyPcs /\ Settled(q)' /\ CommandsOk(q)'
    <3> SUFFICES ASSUME NEW q \in Proc, q # p PROVE pc'[q] \in EarlyPcs /\ Settled(q)' /\ CommandsOk(q)'
      OBVIOUS
    <3>1. SameAt(q) /\ pc'[q] = pc[q] /\ cpl'[q] = cpl[q]
      BY <1>0 DEF SameAt
    <3> QED  BY <1>1, <2>4, <3>1, SettledSame, CommandsSame
  <2> QED  BY <1>1, <1>3, <2>2, <2>3, <2>4, <2>5, <2>6, <2>7, <2>8 DEF Quiet, EarlyPcs
<1>10. CASE \/ XferUnpack(p) \/ CplConnect(p) \/ XferEndReturn(p)
            \/ \E m \in msgs : CplMsgUnpackSingle(p, m)
  <2>1. pc[p] \in {"comm", "connectCpl", "commCpl"}
    BY <1>10 DEF XferUnpack, CplConnect, XferEndReturn, CplMsgUnpackSingle
  <2> QED  BY <1>1, <2>1 DEF EarlyPcs
<1> QED  BY <1>5, <1>6, <1>7, <1>8, <1>9, <1>10 DEF Transfer

(* When the first processor executes its commands, all are about to, and     *)
(* what they have collected is the history of the transfer.                  *)
LEMMA QuietToObj ==
  ASSUME DataType, PhaseInv, Quiet, NEW p \in Proc, pc[p] = "connect", Connected(p), ~Exception(p)
  PROVE  \E h : ObjMode(h)
<1>0. ItemType /\ CopyType /\ FlagType
  BY DataParts
<1>1. \A q \in Proc : pc[q] = "connect" /\ conn[q] = conn[p]
  <2> SUFFICES ASSUME NEW q \in Proc PROVE pc[q] = "connect" /\ conn[q] = conn[p]
    OBVIOUS
  <2>1. pc[q] \in EarlyPcs /\ conn[q] >= conn[p] /\ conn[p] \in Nat /\ conn[q] \in Nat
    BY <1>0 DEF Quiet, Connected, FlagType
  <2>2. conn[q] # conn[p] + 1
    BY <2>1 DEF PhaseInv, Lockstep, OneAhead, AtEnd, EarlyPcs
  <2>3. conn[q] = conn[p]
    BY <2>1, <2>2 DEF PhaseInv, Lockstep
  <2> QED  BY <2>1, <2>3 DEF PhaseInv, Lockstep, SamePhase, AtEnd, EarlyPcs, Takes
<1>2. \A q \in Proc : ~Exception(q) /\ Settled(q) /\ CommandsOk(q) /\ PrunedOk(q) /\ Prepared(q)
  BY <1>1 DEF Exception, Quiet, CommandsOk
<1>3. msgs = {}
  BY <1>1 DEF Quiet, CmdMsgOk, PhaseInv, MsgsOfCommonCall, Takes
<1> DEFINE Set == [q \in Proc |-> [g \in Gid |-> IF g \in delCmd[q] THEN NoPrio ELSE setPrio[q][g]]]
           h == [obj |-> obj, copy |-> copyObj, set |-> Set, del |-> delCmd, pruned |-> pruned]
<1>4. Set \in [Proc -> [Gid -> PrioOrNone]]
  BY <1>0 DEF ItemType, PrioOrNone
<1>5. \A q \in Proc, g \in Gid : Set[q][g] = IF g \in delCmd[q] THEN NoPrio ELSE setPrio[q][g]
  OBVIOUS
<1> HIDE DEF Set
<1>6. /\ h.obj = obj /\ h.copy = copyObj /\ h.set = Set /\ h.del = delCmd /\ h.pruned = pruned
      /\ h \in History
  BY <1>0, <1>4 DEF ItemType, CopyType, FlagType, History
<1> HIDE DEF h
<1>7. HistoryOk(h)
  <2> SUFFICES ASSUME NEW q \in Proc, NEW g \in Gid
      PROVE  /\ \A r \in Proc : Sends(h, q, g, r) => Owns(h, q, g) /\ r # q
             /\ h.set[q][g] # NoPrio => Owns(h, q, g) /\ g \notin h.del[q]
             /\ g \in h.del[q] => Owns(h, q, g)
             /\ g \in h.pruned[q] => Owns(h, q, g) /\ Gets(h, q, g) /\ g \notin h.del[q] /\ h.set[q][g] = NoPrio
    BY <1>6 DEF HistoryOk
  <2>1. CommandsOk(q) /\ PrunedOk(q)
    BY <1>2
  <2> QED  BY <1>5, <1>6, <2>1 DEF CommandsOk, PrunedOk, Sends, Owns, Gets, Senders
<1>8. \A q \in Proc : Matches(h, q)
  BY <1>2, <1>6 DEF Matches, Settled, Right, Before, Owns
<1>9. \A q \in Proc : Waiting(h, q)
  <2> SUFFICES ASSUME NEW q \in Proc PROVE Waiting(h, q)
    OBVIOUS
  <2>1. ObjMsgsOk(h, q, out[q]) /\ newOwner[q] = NewOwnersOf(h, q)
    BY <1>2, <1>7, <1>8 DEF Prepared
  <2>2. \A g \in Gid, r \in Proc : cpl[q][g][r] = Before(h, q, g, r)
    BY <1>8 DEF Matches
  <2> QED  BY <1>5, <1>6, <2>1, <2>2 DEF Waiting
<1>10. fault = {}
  BY DEF Quiet
<1>11. conn[p] \in Nat
  BY <1>0 DEF FlagType
<1>12. ObjMode(h)
  BY <1>1, <1>2, <1>3, <1>6, <1>7, <1>9, <1>10, <1>11 DEF ObjMode
<1> QED  BY <1>12

(* What a step of another processor leaves as it is while objects are sent.  *)
LEMMA ObjSame ==
  ASSUME NEW h, NEW q \in Proc, SameAt(q)
  PROVE  /\ Waiting(h, q) => Waiting(h, q)'
         /\ Executed(h, q) => Executed(h, q)'
         /\ Unpacked(h, q) => Unpacked(h, q)'
<1>1. Waiting(h, q) => Waiting(h, q)'
  BY DEF SameAt, Waiting
<1>2. Executed(h, q) => Executed(h, q)'
  BY DEF SameAt, Executed
<1>3. Unpacked(h, q) => Unpacked(h, q)'
  BY DEF SameAt, Unpacked, LocalCoupledObjects, HasCpl, Partners
<1> QED  BY <1>1, <1>2, <1>3

(* The commands of p are executed. *)
LEMMA ExecutedStep ==
  ASSUME NEW h, HistoryOk(h), NEW p \in Proc, AllFunctions, Waiting(h, p), delCmd[p] = h.del[p],
         ExecLocalCommands(p)
  PROVE  Executed(h, p)'
<1> DEFINE valid == {g \in Gid : setPrio[p][g] # NoPrio /\ g \notin delCmd[p]}
           Item(q, g) == [to |-> q, gid |-> g, prio |-> setPrio[p][g]]
           To(g) == Partners(p, g) \cup Dests(newOwner[p], g)
           Items == UNION {{Item(q, g) : q \in To(g)} : g \in valid}
<1>1. /\ obj'[p] = [g \in Gid |-> IF g \in delCmd[p] THEN NoPrio ELSE IF g \in valid THEN setPrio[p][g] ELSE obj[p][g]]
      /\ cpl'[p] = [g \in Gid |-> IF g \in delCmd[p] THEN NoCopies[g] ELSE cpl[p][g]]
      /\ pruned'[p] = pruned[p] \ delCmd[p]
      /\ setPrio'[p] = [g \in Gid |-> IF g \in valid THEN setPrio[p][g] ELSE NoPrio]
      /\ delObj'[p] = [g \in delCmd[p] |-> [q \in Proc |-> IF <<g, q>> \in newOwner[p] THEN PrioInvalid ELSE cpl[p][g][q]]]
      /\ modCpl'[p] = Items
      /\ newOwner'[p] = newOwner[p]
  BY DEF ExecLocalCommands, AllFunctions
<1>2. /\ h.del[p] \subseteq Gid
      /\ \A g \in Gid : g \in valid <=> h.set[p][g] # NoPrio
      /\ \A g \in valid : setPrio[p][g] = h.set[p][g]
      /\ \A g \in Gid : obj[p][g] = h.obj[p][g]
      /\ \A g \in Gid, q \in Proc : cpl[p][g][q] = Before(h, p, g, q)
      /\ newOwner[p] = NewOwnersOf(h, p) /\ pruned[p] = h.pruned[p]
      /\ \A g \in Gid : h.set[p][g] # NoPrio => g \notin h.del[p]
      /\ \A g \in h.pruned[p] \cap Gid : g \notin h.del[p]
      /\ h.pruned[p] \subseteq Gid
  BY DEF Waiting, HistoryOk, History
<1>3. \A i : i \in Items <=> \E g \in valid : \E q \in To(g) : i = Item(q, g)
  OBVIOUS
<1>4. \A g \in Gid : \A q : q \in To(g) <=> q \in Proc /\ (Before(h, p, g, q) # NoPrio \/ <<g, q>> \in NewOwnersOf(h, p))
  <2> SUFFICES ASSUME NEW g \in Gid, NEW q
               PROVE  q \in To(g) <=> q \in Proc /\ (Before(h, p, g, q) # NoPrio \/ <<g, q>> \in NewOwnersOf(h, p))
    OBVIOUS
  <2>1. q \in Dests(newOwner[p], g) <=> q \in Proc /\ Sends(h, p, g, q) /\ IsNew(h, q, g)
    BY <1>2, DestsAre
  <2>2. q \in Proc => (<<g, q>> \in NewOwnersOf(h, p) <=> Sends(h, p, g, q) /\ IsNew(h, q, g))
    BY DEF NewOwnersOf
  <2> QED  BY <1>2, <2>1, <2>2 DEF Partners
<1> HIDE DEF Items, valid, To
<1>5. \A g \in Gid : obj'[p][g] = Local(h, p, g)
  <2> SUFFICES ASSUME NEW g \in Gid PROVE obj'[p][g] = Local(h, p, g)
    OBVIOUS
  <2>1. obj'[p][g] = IF g \in h.del[p] THEN NoPrio ELSE IF g \in valid THEN setPrio[p][g] ELSE obj[p][g]
    BY <1>1
  <2>2. (g \in valid <=> h.set[p][g] # NoPrio) /\ (g \in valid => setPrio[p][g] = h.set[p][g]) /\ obj[p][g] = h.obj[p][g]
    BY <1>2
  <2> QED  BY <2>1, <2>2 DEF Local
<1>6. \A g \in Gid, q \in Proc : cpl'[p][g][q] = IF g \in h.del[p] THEN NoPrio ELSE Before(h, p, g, q)
  <2>1. \A g \in Gid, q \in Proc : NoCopies[g][q] = NoPrio
    BY DEF NoCopies
  <2> QED  BY <1>1, <1>2, <2>1
<1>7. \A g \in Gid : setPrio'[p][g] = h.set[p][g]
  BY <1>1, <1>2
<1>8. pruned'[p] = h.pruned[p] /\ newOwner'[p] = NewOwnersOf(h, p) /\ DOMAIN delObj'[p] = h.del[p]
  BY <1>1, <1>2
<1>9. \A g \in h.del[p], q \in Proc :
          delObj'[p][g][q] = IF <<g, q>> \in NewOwnersOf(h, p) THEN PrioInvalid ELSE Before(h, p, g, q)
  BY <1>1, <1>2
<1>10. \A i \in modCpl'[p] :
          /\ i.gid \in Gid /\ i.to \in Proc /\ h.set[p][i.gid] # NoPrio /\ i.prio = h.set[p][i.gid]
          /\ Before(h, p, i.gid, i.to) # NoPrio \/ <<i.gid, i.to>> \in NewOwnersOf(h, p)
  <2> SUFFICES ASSUME NEW i \in Items
               PROVE  /\ i.gid \in Gid /\ i.to \in Proc /\ h.set[p][i.gid] # NoPrio /\ i.prio = h.set[p][i.gid]
                      /\ Before(h, p, i.gid, i.to) # NoPrio \/ <<i.gid, i.to>> \in NewOwnersOf(h, p)
    BY <1>1
  <2>1. PICK g \in valid : \E q \in To(g) : i = Item(q, g)
    BY <1>3
  <2>2. PICK q \in To(g) : i = Item(q, g)
    BY <2>1
  <2>3. i.gid = g /\ i.to = q /\ i.prio = setPrio[p][g] /\ g \in Gid
    BY <2>2 DEF valid
  <2> QED  BY <1>2, <1>4, <2>3
<1>11. \A g \in Gid, q \in Proc :
          h.set[p][g] # NoPrio /\ (Before(h, p, g, q) # NoPrio \/ <<g, q>> \in NewOwnersOf(h, p)) =>
              \E i \in modCpl'[p] : i.gid = g /\ i.to = q
  <2> SUFFICES ASSUME NEW g \in Gid, NEW q \in Proc, h.set[p][g] # NoPrio,
                      Before(h, p, g, q) # NoPrio \/ <<g, q>> \in NewOwnersOf(h, p)
               PROVE  \E i \in Items : i.gid = g /\ i.to = q
    BY <1>1
  <2>1. Item(q, g) \in Items
    BY <1>2, <1>3, <1>4
  <2> QED  BY <2>1
<1> QED  BY <1>5, <1>6, <1>7, <1>8, <1>9, <1>10, <1>11, Zenon DEF Executed

LEMMA ObjStepExec ==
  ASSUME DataType, PhaseInv, NEW h, ObjMode(h), NEW p \in Proc, ExecLocalCommands(p)
  PROVE  ObjMode(h)'
<1>0. AllFunctions /\ \A q \in Proc : q # p => SameAt(q)
  BY AreFunctions, OthersSame DEF Transfer
<1>1. /\ HistoryOk(h)
      /\ \A q \in Proc : /\ pc[q] \in {"connect", "comm", "connectCpl"}
                         /\ copyObj[q] = h.copy[q] /\ delCmd[q] = h.del[q]
                         /\ pc[q] = "connect" => Waiting(h, q) /\ ~Exception(q)
                         /\ pc[q] = "comm" => Executed(h, q)
                         /\ pc[q] = "connectCpl" => Unpacked(h, q)
      /\ \A q, r \in Proc : pc[q] = "connect" => conn[r] >= conn[q]
      /\ \A m \in msgs : ObjMsgOk(h, m) /\ pc[m.from] # "connect"
      /\ \A s, d \in Proc : s # d /\ pc[s] # "connect" /\ pc[d] # "connectCpl" /\ Tells(h, s, d) =>
            \E m \in msgs : m.from = s /\ m.to = d
      /\ fault = {}
  BY DEF ObjMode
<1>2. /\ pc[p] = "connect" /\ pc'[p] = "comm" /\ msgs' = msgs \cup out[p]
      /\ UNCHANGED <<copyObj, delCmd, conn, abortAt, fault>>
  BY <1>0 DEF ExecLocalCommands, AllFunctions
<1>3. Executed(h, p)'
  BY <1>0, <1>1, <1>2, ExecutedStep
<1>4. ASSUME NEW q \in Proc, q # p
      PROVE  /\ pc'[q] = pc[q]
             /\ pc'[q] = "connect" => Waiting(h, q)' /\ ~Exception(q)'
             /\ pc'[q] = "comm" => Executed(h, q)'
             /\ pc'[q] = "connectCpl" => Unpacked(h, q)'
  <2>1. SameAt(q) /\ pc'[q] = pc[q]
    BY <1>0, <1>4 DEF SameAt
  <2>2. Exception(q)' <=> Exception(q)
    BY <1>2 DEF Exception
  <2> QED  BY <1>1, <2>1, <2>2, ObjSame
<1>5. ObjMsgsOk(h, p, out[p])
  BY <1>1, <1>2 DEF Waiting
<1>6. ASSUME NEW m \in msgs' PROVE ObjMsgOk(h, m) /\ pc'[m.from] # "connect"
  <2>1. ObjMsgOk(h, m) /\ (pc[m.from] # "connect" \/ m.from = p)
    BY <1>1, <1>2, <1>5 DEF ObjMsgsOk
  <2>2. m.from \in Proc
    BY <2>1 DEF ObjMsgOk
  <2> QED  BY <1>2, <1>4, <2>1, <2>2
<1>7. ASSUME NEW s \in Proc, NEW d \in Proc, s # d, pc'[s] # "connect", pc'[d] # "connectCpl", Tells(h, s, d)
      PROVE  \E m \in msgs' : m.from = s /\ m.to = d
  <2>1. CASE s = p
    BY <1>2, <1>5, <1>7, <2>1 DEF ObjMsgsOk
  <2>2. CASE s # p
    BY <1>1, <1>2, <1>4, <1>7, <2>2
  <2> QED  BY <2>1, <2>2
<1>8. \A q \in Proc : /\ pc'[q] \in {"connect", "comm", "connectCpl"}
                      /\ copyObj'[q] = h.copy[q] /\ delCmd'[q] = h.del[q]
                      /\ pc'[q] = "connect" => Waiting(h, q)' /\ ~Exception(q)'
                      /\ pc'[q] = "comm" => Executed(h, q)'
                      /\ pc'[q] = "connectCpl" => Unpacked(h, q)'
  BY <1>1, <1>2, <1>3, <1>4
<1>9. \A q, r \in Proc : pc'[q] = "connect" => conn'[r] >= conn'[q]
  BY <1>1, <1>2, <1>4
<1> QED  BY <1>1, <1>2, <1>6, <1>7, <1>8, <1>9 DEF ObjMode

(* p unpacks all it has been sent. *)
LEMMA ObjStepUnpack ==
  ASSUME IsMergeLattice, DataType, PhaseInv, NEW h, ObjMode(h), NEW p \in Proc, XferUnpack(p)
  PROVE  ObjMode(h)'
<1> DEFINE in == Received(p, "obj")
           now == [g \in Gid |-> AcceptedPrio(p, in, g)]
           list == [g \in Gid |-> [q \in Proc |-> UpdatedCpl(p, in, g, q)]]
           M == CplMsgs(p, ModCplItems(p, in, now, list), DelCplItems(p, in), AddCplItems(p, in, now))
<1>0. AllFunctions /\ \A q \in Proc : q # p => SameAt(q)
  BY AreFunctions, OthersSame DEF Transfer
<1>1. /\ HistoryOk(h)
      /\ \A q \in Proc : /\ pc[q] \in {"connect", "comm", "connectCpl"}
                         /\ copyObj[q] = h.copy[q] /\ delCmd[q] = h.del[q]
                         /\ pc[q] = "connect" => Waiting(h, q) /\ ~Exception(q)
                         /\ pc[q] = "comm" => Executed(h, q)
                         /\ pc[q] = "connectCpl" => Unpacked(h, q)
      /\ \A q, r \in Proc : pc[q] = "connect" => conn[r] >= conn[q]
      /\ \A m \in msgs : ObjMsgOk(h, m) /\ pc[m.from] # "connect"
      /\ \A s, d \in Proc : s # d /\ pc[s] # "connect" /\ pc[d] # "connectCpl" /\ Tells(h, s, d) =>
            \E m \in msgs : m.from = s /\ m.to = d
      /\ fault = {}
  BY DEF ObjMode
<1>2. /\ pc[p] = "comm" /\ Communicated(p, "obj")
      /\ obj' = [obj EXCEPT ![p] = now] /\ cpl' = [cpl EXCEPT ![p] = list]
      /\ pruned' = [pruned EXCEPT ![p] = {g \in @ : Newness(p, in, g) # "PRUNEDNEW"}]
      /\ coupled' = [coupled EXCEPT ![p] = LocalCoupledObjects(p)']
      /\ pc' = [pc EXCEPT ![p] = "connectCpl"] /\ out' = [out EXCEPT ![p] = M] /\ msgs' = msgs \ in
      /\ UNCHANGED <<copyObj, delCmd, abortAt, fault>>
  BY DEF XferUnpack, CallConnect, cmdVars
<1> HIDE DEF M, now, list
<1>3. /\ pc'[p] = "connectCpl" /\ obj'[p] = now /\ cpl'[p] = list /\ coupled'[p] = LocalCoupledObjects(p)' /\ out'[p] = M
      /\ pruned'[p] = {g \in pruned[p] : Newness(p, in, g) # "PRUNEDNEW"}
  BY <1>0, <1>2 DEF AllFunctions
<1>4. AllIn(h, p, in)
  <2>1. \A m \in in : ObjMsgOk(h, m) /\ m.to = p
    BY <1>1 DEF Received
  <2>2. ASSUME NEW s \in Proc \ {p}, Tells(h, s, p) PROVE \E m \in in : m.from = s
    <3>1. pc[s] # "connect"
      <4> SUFFICES ASSUME pc[s] = "connect" PROVE FALSE
        OBVIOUS
      <4>1. ObjMsgsOk(h, s, out[s])
        BY <1>1 DEF Waiting
      <4>2. PICK m \in out[s] : m.to = p /\ ObjMsgOk(h, m)
        BY <2>2, <4>1 DEF ObjMsgsOk
      <4> QED  BY <1>2, <4>2 DEF Communicated, ObjMsgOk
    <3>2. PICK m \in msgs : m.from = s /\ m.to = p
      BY <1>1, <1>2, <2>2, <3>1
    <3>3. m.kind = "obj"
      BY <1>1 DEF ObjMsgOk
    <3> QED  BY <3>2, <3>3 DEF Received
  <2> QED  BY <2>1, <2>2 DEF AllIn
<1>5. Executed(h, p) /\ copyObj[p] = h.copy[p]
  BY <1>1, <1>2
<1> HIDE DEF in
<1>6. (\A g \in Gid : now[g] = Final(h, p, g)) /\ \A g \in Gid, q \in Proc : list[g][q] = Middle(h, p, g, q)
  BY <1>1, <1>4, <1>5, AcceptedIs, UpdatedIs DEF now, list
<1>7. Unpacks(h, p, in, now, list)
  BY <1>1, <1>4, <1>5, <1>6 DEF Unpacks
<1>8. Covers(h, p, M) /\ \A m \in M : CplMsgOk(h, m) /\ m.from = p
  BY <1>7, PreparedCplMsgs DEF M
<1>9. pruned'[p] = {}
  <2>1. ASSUME NEW g \in pruned[p] PROVE Newness(p, in, g) = "PRUNEDNEW"
    <3>1. g \in h.pruned[p] /\ g \in Gid
      BY <1>1, <1>5, <2>1 DEF Executed, HistoryOk, History
    <3>2. Gets(h, p, g) /\ Owns(h, p, g) /\ g \notin h.del[p]
      BY <1>1, <3>1 DEF HistoryOk
    <3> QED  BY <1>1, <1>4, <1>5, <3>1, <3>2, NewnessIs
  <2> QED  BY <1>3, <2>1
<1>10. Unpacked(h, p)'
  BY <1>3, <1>6, <1>8, <1>9 DEF Unpacked
<1>11. ASSUME NEW q \in Proc, q # p
       PROVE  /\ pc'[q] = pc[q]
              /\ pc'[q] = "connect" => Waiting(h, q)' /\ ~Exception(q)'
              /\ pc'[q] = "comm" => Executed(h, q)'
              /\ pc'[q] = "connectCpl" => Unpacked(h, q)'
  <2>1. SameAt(q) /\ pc'[q] = pc[q] /\ conn'[q] = conn[q]
    BY <1>0, <1>11 DEF SameAt
  <2>2. Exception(q)' <=> Exception(q)
    BY <1>2, <2>1 DEF Exception
  <2> QED  BY <1>1, <2>1, <2>2, ObjSame
<1>12. ASSUME NEW m \in msgs' PROVE ObjMsgOk(h, m) /\ pc'[m.from] # "connect"
  <2>1. ObjMsgOk(h, m) /\ pc[m.from] # "connect"
    BY <1>1, <1>2
  <2>2. m.from \in Proc
    BY <2>1 DEF ObjMsgOk
  <2> QED  BY <1>3, <1>11, <2>1, <2>2
<1>13. ASSUME NEW s \in Proc, NEW d \in Proc, s # d, pc'[s] # "connect", pc'[d] # "connectCpl", Tells(h, s, d)
       PROVE  \E m \in msgs' : m.from = s /\ m.to = d
  <2>1. d # p /\ pc[d] # "connectCpl" /\ pc[s] # "connect"
    BY <1>2, <1>3, <1>11, <1>13
  <2>2. PICK m \in msgs : m.from = s /\ m.to = d
    BY <1>1, <1>13, <2>1
  <2> QED  BY <1>2, <2>1, <2>2 DEF in, Received
<1>14. \A q \in Proc : /\ pc'[q] \in {"connect", "comm", "connectCpl"}
                       /\ copyObj'[q] = h.copy[q] /\ delCmd'[q] = h.del[q]
                       /\ pc'[q] = "connect" => Waiting(h, q)' /\ ~Exception(q)'
                       /\ pc'[q] = "comm" => Executed(h, q)'
                       /\ pc'[q] = "connectCpl" => Unpacked(h, q)'
  BY <1>1, <1>2, <1>3, <1>10, <1>11
<1>15. \A q, r \in Proc : pc'[q] = "connect" => conn'[r] >= conn'[q]
  <2>1. conn' = [conn EXCEPT ![p] = @ + 1] /\ conn \in [Proc -> Nat]
    BY DataParts DEF XferUnpack, CallConnect, FlagType
  <2> QED  BY <1>1, <1>3, <1>11, <2>1
<1> QED  BY <1>1, <1>2, <1>12, <1>13, <1>14, <1>15 DEF ObjMode

(* When the first processor goes on to the corrections of the couplings, all *)
(* have unpacked their objects, and what is wrong will be corrected.         *)
LEMMA ObjToCpl ==
  ASSUME IsMergeLattice, DataType, PhaseInv, NEW h, ObjMode(h), NEW p \in Proc, pc[p] = "connectCpl", Connected(p)
  PROVE  CplMode
<1>1. \A q \in Proc : pc[q] = "connectCpl" /\ conn[q] = conn[p] /\ conn[q] \in Nat
  <2> SUFFICES ASSUME NEW q \in Proc PROVE pc[q] = "connectCpl" /\ conn[q] = conn[p] /\ conn[q] \in Nat
    OBVIOUS
  <2>1. pc[q] \in {"connect", "comm", "connectCpl"} /\ conn[q] >= conn[p] /\ conn[p] \in Nat /\ conn[q] \in Nat
    BY DataParts DEF ObjMode, Connected, FlagType
  <2>2. conn[q] # conn[p] + 1
    <3>1. pc[q] = "connect" => conn[p] >= conn[q]
      BY DEF ObjMode
    <3> QED  BY <2>1, <3>1 DEF PhaseInv, Lockstep, OneAhead, AtEnd
  <2>3. conn[q] = conn[p]
    BY <2>1, <2>2 DEF PhaseInv, Lockstep
  <2> QED  BY <2>1, <2>3 DEF PhaseInv, Lockstep, SamePhase, Takes
<1>2. HistoryOk(h) /\ (\A q \in Proc : Unpacked(h, q)) /\ fault = {}
  BY <1>1 DEF ObjMode
<1>3. msgs = {}
  BY <1>1 DEF ObjMode, ObjMsgOk, PhaseInv, MsgsOfCommonCall, Takes
<1>4. /\ \A q \in Proc, g \in Gid : obj[q][g] = Final(h, q, g)
      /\ \A q \in Proc, g \in Gid : \A r \in Proc : cpl[q][g][r] = Middle(h, q, g, r)
      /\ \A q \in Proc : pruned[q] = {} /\ Covers(h, q, out[q])
      /\ \A q \in Proc : \A m \in out[q] : CplMsgOk(h, m) /\ m.from = q
      /\ \A q \in Proc : coupled[q] = {g \in Gid : Final(h, q, g) # NoPrio /\ \E r \in Proc : Middle(h, q, g, r) # NoPrio}
  <2>1. \A q \in Proc, g \in Gid : obj[q][g] = Final(h, q, g)
    BY <1>2 DEF Unpacked
  <2>2. \A q \in Proc, g \in Gid : \A r \in Proc : cpl[q][g][r] = Middle(h, q, g, r)
    BY <1>2 DEF Unpacked
  <2>3. \A q \in Proc : coupled[q] = LocalCoupledObjects(q)
    BY <1>2 DEF Unpacked
  <2>4. \A q \in Proc : LocalCoupledObjects(q) = {g \in Gid : Final(h, q, g) # NoPrio /\ \E r \in Proc : Middle(h, q, g, r) # NoPrio}
    BY <2>1, <2>2 DEF LocalCoupledObjects, HasCpl, Partners
  <2>5. /\ \A q \in Proc : pruned[q] = {} /\ Covers(h, q, out[q])
        /\ \A q \in Proc : \A m \in out[q] : CplMsgOk(h, m) /\ m.from = q
    BY <1>2 DEF Unpacked
  <2> QED  BY <2>1, <2>2, <2>3, <2>4, <2>5
<1>5. \A m : CplPending(m) <=> \E q \in Proc : m \in out[q]
  BY <1>1, <1>3 DEF CplPending
<1>6. ASSUME NEW m, CplPending(m) PROVE CplReady(m)
  <2>1. CplMsgOk(h, m)
    BY <1>4, <1>5, <1>6
  <2>2. m.kind = "cpl" /\ m.from \in Proc /\ m.to \in Proc /\ m.from # m.to /\ pc[m.to] \in LatePcs
    BY <1>1, <2>1 DEF CplMsgOk, LatePcs
  <2>3. \A i \in m.add : /\ i.gid \in Gid /\ i.proc \in Proc /\ i.proc # m.to
                         /\ i.prio = obj[i.proc][i.gid] /\ i.prio # NoPrio
    BY <1>4, <2>1 DEF CplMsgOk
  <2>4. \A g \in m.del : /\ g \in Gid
                         /\ obj[m.from][g] = NoPrio \/ \E i \in m.add : i.gid = g /\ i.proc = m.from
    BY <1>4, <2>1, <2>2 DEF CplMsgOk
  <2>5. \A i \in m.mod : /\ i.gid \in Gid /\ i.prio = obj[m.from][i.gid] /\ i.prio # NoPrio
                         /\ i.gid \in coupled[m.to] => cpl[m.to][i.gid][m.from] # NoPrio
    BY <1>4, <2>1, <2>2 DEF CplMsgOk
  <2> QED  BY <2>2, <2>3, <2>4, <2>5 DEF CplReady
<1>7. ASSUME NEW q \in Proc, NEW g \in Gid, NEW r \in Proc, ~Right(q, g, r)
      PROVE  \E m : CplPending(m) /\ Corrects(m, q, g, r)
  <2>1. q # r /\ Final(h, q, g) # NoPrio /\ Middle(h, q, g, r) # Final(h, r, g)
    BY <1>4, <1>7 DEF Right, Middle
  <2>2. g \in coupled[q] <=> \E s \in Proc : Middle(h, q, g, s) # NoPrio
    BY <1>4, <2>1
  <2>3. \A s \in Proc : s # q /\ Owns(h, s, g) => Middle(h, q, g, s) # NoPrio
    BY <2>1 DEF Middle, Owns
  <2>4. CASE Owns(h, r, g)
    <3>1. g \in coupled[q]
      BY <2>1, <2>2, <2>3, <2>4
    <3>2. CASE Final(h, r, g) = NoPrio
      <4>1. PICK m \in out[r] : m.to = q /\ g \in m.del
        BY <1>4, <2>1, <2>4, <3>2 DEF Covers
      <4> QED  BY <1>4, <1>5, <3>1, <4>1 DEF Corrects
    <3>3. CASE Final(h, r, g) # NoPrio
      <4>1. PICK m \in out[r] : m.to = q /\ \E i \in m.mod : i.gid = g
        BY <1>4, <2>1, <2>4, <3>3 DEF Covers
      <4> QED  BY <1>4, <1>5, <3>1, <4>1 DEF Corrects
    <3> QED  BY <3>2, <3>3
  <2>5. CASE ~Owns(h, r, g)
    <3>1. Gets(h, r, g) \/ Final(h, r, g) = NoPrio
      BY <1>2, <2>5, FinalType
    <3>2. Gets(h, r, g) /\ ~Owns(h, q, g)
      BY <2>1, <2>5, <3>1 DEF Middle
    <3>3. Gets(h, q, g)
      BY <1>2, <2>1, <3>2, FinalType
    <3>4. IsNew(h, r, g) /\ IsNew(h, q, g)
      BY <2>5, <3>2, <3>3 DEF IsNew
    <3>5. PICK s \in Proc : Sends(h, s, g, q)
      BY <3>3 DEF Gets, Senders
    <3>6. s # q /\ Owns(h, s, g)
      BY <1>2, <3>5 DEF HistoryOk
    <3>7. g \in coupled[q]
      BY <2>2, <2>3, <3>6
    <3>8. PICK m \in out[s] : m.to = q /\ \E i \in m.add : i.gid = g /\ i.proc = r
      BY <1>4, <2>1, <3>4, <3>5, <3>6 DEF Covers
    <3> QED  BY <1>5, <3>7, <3>8 DEF Corrects
  <2> QED  BY <2>4, <2>5
<1>8. \A q \in Proc : \A g \in coupled[q] : obj[q][g] # NoPrio
  BY <1>4
<1> QED  BY <1>1, <1>2, <1>4, <1>6, <1>7, <1>8 DEF CplMode, LatePcs

(* Who has left the transfer before others waits for them in the next one.   *)
LEMMA EarlyOnesWait ==
  ASSUME DataType, PhaseInv, CplMode, NEW l \in Proc, pc[l] \in LatePcs, NEW q \in Proc, pc[q] \notin LatePcs
  PROVE  pc[q] = "user" \/ (pc[q] \in {"prune", "connect"} /\ ~Connected(q))
<1>1. conn[q] \in Nat /\ conn[l] \in Nat /\ conn[q] >= conn[l] /\ conn[q] <= conn[l] + 1
  BY DataParts DEF CplMode, FlagType, PhaseInv, Lockstep
<1>2. CASE conn[q] = conn[l] + 1
  <2>1. OneAhead(q, l)
    BY <1>2 DEF PhaseInv, Lockstep
  <2> QED  BY <1>1, <1>2, <2>1 DEF OneAhead, Connected, LatePcs
<1>3. CASE conn[q] = conn[l]
  BY <1>3 DEF PhaseInv, Lockstep, SamePhase, Takes, LatePcs
<1> QED  BY <1>1, <1>2, <1>3

LEMMA CplReadySame ==
  ASSUME NEW m, CplReady(m), obj' = obj, cpl'[m.to] = cpl[m.to], coupled'[m.to] = coupled[m.to], pc'[m.to] \in LatePcs
  PROVE  CplReady(m)'
  BY DEF CplReady

(* A message leaves a coupling as it is, or makes it right. *)
LEMMA CplAfterIs ==
  ASSUME NEW m, CplReady(m), NEW g \in Gid, NEW q \in Proc, g \in coupled[m.to] => obj[m.to][g] # NoPrio
  PROVE  IF Corrects(m, m.to, g, q) THEN m.to # q /\ obj[m.to][g] # NoPrio /\ CplAfter(m.to, m, g, q) = obj[q][g]
                                    ELSE CplAfter(m.to, m, g, q) = cpl[m.to][g][q]
<1>1. AddsOf(m, g, q) # {} <=> \E i \in m.add : i.gid = g /\ i.proc = q
  BY DEF AddsOf
<1>2. ModsOf(m, g) # {} <=> \E i \in m.mod : i.gid = g
  BY DEF ModsOf
<1>3. \A x \in AddsOf(m, g, q) : x = obj[q][g] /\ x # NoPrio /\ q # m.to
  BY DEF AddsOf, CplReady
<1>4. \A x \in ModsOf(m, g) : x = obj[m.from][g] /\ x # NoPrio /\ (g \in coupled[m.to] => cpl[m.to][g][m.from] # NoPrio)
  BY DEF ModsOf, CplReady
<1>5. CASE g \notin coupled[m.to]
  BY <1>5 DEF CplAfter, Corrects
<1>6. CASE g \in coupled[m.to] /\ AddsOf(m, g, q) # {}
  <2>1. CplAfter(m.to, m, g, q) \in AddsOf(m, g, q)
    BY <1>6 DEF CplAfter
  <2> QED  BY <1>1, <1>3, <1>6, <2>1 DEF Corrects
<1>7. CASE g \in coupled[m.to] /\ AddsOf(m, g, q) = {} /\ q = m.from /\ g \in m.del
  <2>1. obj[q][g] = NoPrio /\ m.from # m.to
    BY <1>1, <1>7 DEF CplReady
  <2> QED  BY <1>7, <2>1 DEF Corrects, CplAfter
<1>8. CASE g \in coupled[m.to] /\ AddsOf(m, g, q) = {} /\ ~(q = m.from /\ g \in m.del) /\ q = m.from /\ ModsOf(m, g) # {}
  <2>1. cpl[m.to][g][q] # NoPrio /\ m.from # m.to
    BY <1>4, <1>8 DEF CplReady
  <2>2. CplAfter(m.to, m, g, q) \in ModsOf(m, g)
    BY <1>8, <2>1 DEF CplAfter
  <2> QED  BY <1>2, <1>4, <1>8, <2>1, <2>2 DEF Corrects
<1>9. CASE g \in coupled[m.to] /\ AddsOf(m, g, q) = {} /\ ~(q = m.from /\ g \in m.del) /\ ~(q = m.from /\ ModsOf(m, g) # {})
  BY <1>1, <1>2, <1>9 DEF CplAfter, Corrects
<1> QED  BY <1>5, <1>6, <1>7, <1>8, <1>9

LEMMA CplStepUnpack ==
  ASSUME DataType, PhaseInv, CplMode, NEW p \in Proc, NEW m \in msgs, CplMsgUnpackSingle(p, m)
  PROVE  CplMode'
<1>0. AllFunctions /\ \A q \in Proc : q # p => SameAt(q)
  BY AreFunctions, OthersSame DEF Transfer
<1>1. /\ \A q \in Proc : pc[q] # "comm" /\ pruned[q] = {}
      /\ \A q, r \in Proc : pc[q] \in LatePcs => conn[r] >= conn[q]
      /\ \A q \in Proc : pc[q] \notin LatePcs => Settled(q) /\ CommandsOk(q)
      /\ \A n : CplPending(n) => CplReady(n)
      /\ \A q \in Proc : pc[q] \in LatePcs =>
            /\ \A g \in coupled[q] : obj[q][g] # NoPrio
            /\ \A g \in Gid, r \in Proc : Right(q, g, r) \/ \E n : CplPending(n) /\ Corrects(n, q, g, r)
      /\ fault = {}
  BY DEF CplMode
<1>2. /\ pc[p] = "commCpl" /\ m \in msgs /\ m.to = p
      /\ cpl' = [cpl EXCEPT ![p] = [g \in Gid |-> [q \in Proc |-> CplAfter(p, m, g, q)]]]
      /\ fault' = IF Missing(p, m) = {} THEN fault ELSE fault \cup {p}
      /\ msgs' = msgs \ {m}
      /\ UNCHANGED <<obj, pruned, coupled, pc, conn, out>>
  BY DEF CplMsgUnpackSingle, Received, itemVars, ctrlVars
<1>3. CplReady(m) /\ pc[p] \in LatePcs
  BY <1>1, <1>2 DEF CplPending, LatePcs
<1>4. \A g \in Gid, q \in Proc : cpl'[p][g][q] = CplAfter(p, m, g, q)
  <2>1. cpl'[p] = [g \in Gid |-> [q \in Proc |-> CplAfter(p, m, g, q)]]
    BY <1>0, <1>2 DEF AllFunctions
  <2> QED  BY <2>1
<1>5. \A g \in Gid, q \in Proc :
         IF Corrects(m, p, g, q) THEN p # q /\ obj[p][g] # NoPrio /\ cpl'[p][g][q] = obj[q][g]
                                 ELSE cpl'[p][g][q] = cpl[p][g][q]
  BY <1>1, <1>2, <1>3, <1>4, CplAfterIs
<1>6. \A q \in Proc : q # p => cpl'[q] = cpl[q]
  BY <1>0 DEF SameAt
<1>7. \A n : /\ CplPending(n)' => CplPending(n)
             /\ CplPending(n) /\ n # m => CplPending(n)'
  BY <1>2 DEF CplPending
<1>8. fault' = {}
  <2>1. Missing(p, m) = {}
    BY <1>2, <1>3 DEF Missing, ModsOf, CplReady
  <2> QED  BY <1>1, <1>2, <2>1
<1>9. ASSUME NEW n, CplPending(n)' PROVE CplReady(n)'
  <2>1. CplReady(n)
    BY <1>1, <1>7, <1>9
  <2>2. CASE n.to # p
    <3>1. n.to \in Proc /\ cpl'[n.to] = cpl[n.to] /\ pc'[n.to] \in LatePcs
      BY <1>2, <1>6, <2>1, <2>2 DEF CplReady
    <3> QED  BY <1>2, <2>1, <3>1, CplReadySame
  <2>3. CASE n.to = p
    <3>1. \A i \in n.mod : i.gid \in coupled[p] => cpl'[p][i.gid][n.from] # NoPrio
      <4> SUFFICES ASSUME NEW i \in n.mod, i.gid \in coupled[p] PROVE cpl'[p][i.gid][n.from] # NoPrio
        OBVIOUS
      <4>1. i.gid \in Gid /\ n.from \in Proc /\ obj[n.from][i.gid] # NoPrio /\ cpl[p][i.gid][n.from] # NoPrio
        BY <2>1, <2>3 DEF CplReady
      <4> QED  BY <1>5, <4>1
    <3> QED  BY <1>2, <1>3, <2>1, <2>3, <3>1 DEF CplReady
  <2> QED  BY <2>2, <2>3
<1>10. ASSUME NEW q \in Proc, pc'[q] \in LatePcs, NEW g \in Gid, NEW r \in Proc
       PROVE  Right(q, g, r)' \/ \E n : CplPending(n)' /\ Corrects(n, q, g, r)'
  <2>1. \A n : Corrects(n, q, g, r)' <=> Corrects(n, q, g, r)
    BY <1>2 DEF Corrects
  <2>2. Right(q, g, r) \/ \E n : CplPending(n) /\ Corrects(n, q, g, r)
    BY <1>1, <1>2, <1>10
  <2>3. CASE q = p /\ Corrects(m, p, g, r)
    BY <1>2, <1>5, <2>3 DEF Right
  <2>4. CASE ~(q = p /\ Corrects(m, p, g, r))
    <3>1. cpl'[q][g][r] = cpl[q][g][r]
      BY <1>5, <1>6, <2>4
    <3>2. Right(q, g, r) => Right(q, g, r)'
      BY <1>2, <3>1 DEF Right
    <3>3. ASSUME NEW n, CplPending(n), Corrects(n, q, g, r) PROVE CplPending(n)' /\ Corrects(n, q, g, r)'
      <4>1. n # m
        BY <1>2, <2>4, <3>3 DEF Corrects
      <4> QED  BY <1>7, <2>1, <3>3, <4>1
    <3> QED  BY <2>2, <3>2, <3>3
  <2> QED  BY <2>3, <2>4
<1>11. ASSUME NEW q \in Proc, pc'[q] \notin LatePcs PROVE Settled(q)' /\ CommandsOk(q)'
  <2>1. q # p /\ SameAt(q) /\ Settled(q) /\ CommandsOk(q)
    BY <1>0, <1>1, <1>2, <1>3, <1>11
  <2> QED  BY <1>2, <1>6, <2>1, SettledSame, CommandsSame
<1>12. \A q \in Proc : pc'[q] # "comm" /\ pruned'[q] = {}
  BY <1>1, <1>2
<1>13. \A q \in Proc : pc'[q] \in LatePcs => \A g \in coupled'[q] : obj'[q][g] # NoPrio
  BY <1>1, <1>2
<1>14. \A q, r \in Proc : pc'[q] \in LatePcs => conn'[r] >= conn'[q]
  BY <1>1, <1>2
<1> QED  BY <1>8, <1>9, <1>10, <1>11, <1>12, <1>13, <1>14 DEF CplMode

(* Steps that change neither the copies nor the couplings. *)
LEMMA CplKeep ==
  ASSUME CplMode, obj' = obj, cpl' = cpl, pruned' = pruned, fault' = fault,
         \A q \in Proc : pc'[q] # "comm" /\ conn[q] \in Nat /\ conn'[q] \in Nat /\ conn'[q] >= conn[q],
         \A q \in Proc : pc'[q] \in LatePcs => pc[q] \in LatePcs /\ coupled'[q] = coupled[q] /\ conn'[q] = conn[q],
         \A m : CplPending(m)' <=> CplPending(m),
         \A m : CplPending(m) => pc'[m.to] \in LatePcs,
         \A q \in Proc : pc'[q] \notin LatePcs => Settled(q) /\ CommandsOk(q)'
  PROVE  CplMode'
<1>1. \A q, r \in Proc : pc'[q] \in LatePcs => conn'[r] >= conn'[q]
  BY DEF CplMode
<1>2. \A q \in Proc : pc'[q] \notin LatePcs => Settled(q)' /\ CommandsOk(q)'
  BY SettledSame
<1>3. ASSUME NEW m, CplPending(m)' PROVE CplReady(m)'
  <2>1. CplReady(m) /\ pc'[m.to] \in LatePcs /\ m.to \in Proc
    BY <1>3 DEF CplMode, CplReady
  <2> QED  BY <2>1, CplReadySame
<1>4. ASSUME NEW q \in Proc, pc'[q] \in LatePcs
      PROVE  /\ \A g \in coupled'[q] : obj'[q][g] # NoPrio
             /\ \A g \in Gid, r \in Proc : Right(q, g, r)' \/ \E m : CplPending(m)' /\ Corrects(m, q, g, r)'
  <2>1. /\ \A g \in coupled[q] : obj[q][g] # NoPrio
        /\ \A g \in Gid, r \in Proc : Right(q, g, r) \/ \E m : CplPending(m) /\ Corrects(m, q, g, r)
    BY <1>4 DEF CplMode
  <2>2. \A g \in Gid, r \in Proc : Right(q, g, r)' <=> Right(q, g, r)
    BY DEF Right
  <2>3. \A m : \A g \in Gid, r \in Proc : Corrects(m, q, g, r)' <=> Corrects(m, q, g, r)
    BY <1>4 DEF Corrects
  <2> QED  BY <1>4, <2>1, <2>2, <2>3
<1> QED  BY <1>1, <1>2, <1>3, <1>4 DEF CplMode

LEMMA CplStep ==
  ASSUME Prune => ~NoMem /\ ~MixPrioDelete, DataType, PhaseInv, CplMode, NEW l \in Proc, pc[l] \in LatePcs,
         NEW p \in Proc, Command(p) \/ XferEnd(p) \/ Transfer(p)
  PROVE  CplMode'
<1>0. /\ AllFunctions /\ (\A q \in Proc : q # p => SameAt(q))
      /\ conn \in [Proc -> Nat] /\ pc = [q \in Proc |-> pc[q]]
  BY AreFunctions, OthersSame, DataParts DEF FlagType, AllFunctions
<1>1. /\ \A q \in Proc : pc[q] # "comm" /\ pruned[q] = {}
      /\ \A q \in Proc : pc[q] \notin LatePcs => Settled(q) /\ CommandsOk(q)
      /\ \A m : CplPending(m) => CplReady(m)
  BY DEF CplMode
<1>2. ASSUME NEW q \in Proc, q # p
      PROVE  /\ pc'[q] = pc[q] /\ coupled'[q] = coupled[q] /\ conn'[q] = conn[q] /\ out'[q] = out[q]
             /\ pc'[q] \notin LatePcs => Settled(q) /\ CommandsOk(q)'
  <2>1. SameAt(q)
    BY <1>0, <1>2
  <2>2. pc'[q] \notin LatePcs => Settled(q) /\ CommandsOk(q)'
    BY <1>1, <2>1, CommandsSame DEF SameAt
  <2> QED  BY <2>1, <2>2 DEF SameAt
<1>3. \A m : CplPending(m) => m.to \in Proc /\ pc[m.to] \in LatePcs
  BY <1>1 DEF CplReady
<1>4. CASE Command(p)
  <2>1. /\ CommandsOk(p)' /\ pc[p] = "user"
        /\ UNCHANGED <<objVars, itemVars, pc, conn, abortAt, out, msgs, fault>>
    BY <1>1, <1>4, CommandStep DEF Command, XferBegin, XferCopyObj, XferPrioChange, XferDeleteObj, CanCommand, LatePcs
  <2>2. obj' = obj /\ cpl' = cpl /\ pruned' = pruned /\ coupled' = coupled
    BY <2>1 DEF objVars, itemVars
  <2>3. \A m : CplPending(m)' <=> CplPending(m)
    BY <2>1 DEF CplPending
  <2> QED  BY <1>0, <1>1, <1>2, <1>3, <2>1, <2>2, <2>3, CplKeep DEF LatePcs
<1>5. CASE XferEnd(p)
  <2>1. /\ CommandsOk(p)' /\ pc[p] = "user" /\ pc'[p] \in {"prune", "connect"} /\ conn' = [conn EXCEPT ![p] = @ + 1]
        /\ UNCHANGED <<objVars, cmdVars, delObj, modCpl, coupled, msgs, fault>>
    BY <1>1, <1>5, XferEndStep DEF XferEnd, LatePcs
  <2>2. obj' = obj /\ cpl' = cpl /\ pruned' = pruned
    BY <2>1 DEF objVars
  <2>3. \A m : CplPending(m)' <=> CplPending(m)
    BY <1>2, <2>1 DEF CplPending
  <2>4. \A q \in Proc : conn'[q] \in Nat /\ conn'[q] >= conn[q]
    BY <1>0, <2>1
  <2> QED  BY <1>0, <1>1, <1>2, <1>3, <2>1, <2>2, <2>3, <2>4, CplKeep DEF LatePcs
<1>6. CASE CplConnect(p)
  <2>1. /\ pc[p] = "connectCpl" /\ pc'[p] = "commCpl" /\ msgs' = msgs \cup out[p] /\ out'[p] = {}
        /\ UNCHANGED <<objVars, itemVars, conn, fault>>
    BY <1>0, <1>6 DEF CplConnect, AllFunctions
  <2>2. obj' = obj /\ cpl' = cpl /\ pruned' = pruned /\ coupled' = coupled
    BY <2>1 DEF objVars, itemVars
  <2>3. \A m : CplPending(m)' <=> CplPending(m)
    BY <1>2, <2>1 DEF CplPending
  <2>4. \A q \in Proc : conn'[q] \in Nat /\ conn'[q] >= conn[q]
    BY <1>0, <2>1
  <2> QED  BY <1>0, <1>1, <1>2, <1>3, <2>1, <2>2, <2>3, <2>4, CplKeep DEF LatePcs
<1>7. CASE XferEndReturn(p)
  <2>1. /\ pc[p] = "commCpl" /\ Communicated(p, "cpl") /\ Received(p, "cpl") = {} /\ ResetItems(p)
        /\ UNCHANGED <<objVars, conn, abortAt, rounds, out, msgs, fault>>
    BY <1>7 DEF XferEndReturn
  <2>2. obj' = obj /\ cpl' = cpl /\ pruned' = pruned
    BY <2>1 DEF objVars
  <2>3. copyObj'[p] = NoCopies /\ setPrio'[p] = NoSetPrio /\ delCmd'[p] = {} /\ pc'[p] = "user"
    BY <1>0, <2>1 DEF ResetItems, AllFunctions
  <2>4. \A m : CplPending(m)' <=> CplPending(m)
    BY <1>2, <2>1, <2>3 DEF CplPending
  <2>5. \A m : CplPending(m) => m.to # p
    <3> SUFFICES ASSUME NEW m, CplPending(m), m.to = p PROVE FALSE
      OBVIOUS
    <3>1. m.kind = "cpl"
      BY <1>1 DEF CplReady
    <3> QED  BY <2>1, <3>1 DEF CplPending, Received, Communicated
  <2>6. Settled(p)
    BY <2>1, <2>5 DEF CplMode, Settled, Corrects, LatePcs
  <2>7. CommandsOk(p)'
    BY <2>3 DEF CommandsOk, NoCopies, NoSetPrio
  <2>8. \A m : CplPending(m) => pc'[m.to] \in LatePcs
    BY <1>2, <1>3, <2>5
  <2>9. \A q \in Proc : conn'[q] \in Nat /\ conn'[q] >= conn[q]
    BY <1>0, <2>1
  <2>10. \A q \in Proc : pc'[q] \in LatePcs => pc[q] \in LatePcs /\ coupled'[q] = coupled[q] /\ conn'[q] = conn[q]
    BY <1>2, <2>3 DEF LatePcs
  <2>11. \A q \in Proc : pc'[q] # "comm" /\ conn[q] \in Nat
    BY <1>0, <1>1, <1>2, <2>3
  <2>12. \A q \in Proc : pc'[q] \notin LatePcs => Settled(q) /\ CommandsOk(q)'
    BY <1>2, <2>6, <2>7
  <2> QED  BY <2>1, <2>2, <2>4, <2>8, <2>9, <2>10, <2>11, <2>12, CplKeep
<1>8. CASE \E m \in msgs : CplMsgUnpackSingle(p, m)
  BY <1>8, CplStepUnpack
<1>9. CASE PruneConnect(p) \/ CmdMsgUnpack(p) \/ ExecLocalCommands(p) \/ XferEndAborted(p) \/ XferUnpack(p)
  <2>1. /\ pc[p] \in {"prune", "pruneComm", "connect", "comm"}
        /\ pc[p] \in {"prune", "connect"} => Connected(p)
    BY <1>9 DEF PruneConnect, CmdMsgUnpack, ExecLocalCommands, XferEndAborted, XferUnpack
  <2>2. pc[p] \notin LatePcs
    BY <2>1 DEF LatePcs
  <2>3. pc[p] = "user" \/ (pc[p] \in {"prune", "connect"} /\ ~Connected(p))
    BY <2>2, EarlyOnesWait
  <2> QED  BY <2>1, <2>3
<1> QED  BY <1>4, <1>5, <1>6, <1>7, <1>8, <1>9 DEF Transfer

(* When all have left the phase of couplings, everything is as before a      *)
(* transfer.                                                                 *)
LEMMA CplToQuiet ==
  ASSUME DataType, PhaseInv, CplMode, \A q \in Proc : pc[q] \notin LatePcs
  PROVE  Quiet
<1>1. \A q \in Proc : pc[q] \in EarlyPcs /\ Settled(q) /\ CommandsOk(q) /\ PrunedOk(q)
  BY DataParts DEF CplMode, FlagType, EarlyPcs, LatePcs, PrunedOk
<1>2. msgs = {}
  BY DEF CplMode, CplPending, CplReady
<1> QED  BY <1>1, <1>2 DEF Quiet, CplMode

-------------------------------------------------------------------------------
(* The invariant holds.                                                      *)

LEMMA MiddleType ==
  ASSUME IsMergeLattice, NEW h, HistoryOk(h), NEW p \in Proc, NEW g \in Gid, NEW q \in Proc
  PROVE  Middle(h, p, g, q) \in PrioOrNone
<1>1. Final(h, q, g) \in PrioOrNone /\ h.obj[q][g] \in PrioOrNone /\ NoPrio \in PrioOrNone
  BY FinalType, HistoryType DEF PrioOrNone
<1>2. ASSUME Tellers(h, p, g, q) # {} PROVE MergeAll(Told(h, p, g, q)) \in PrioOrNone
  <2>1. Tellers(h, p, g, q) \in SUBSET Senders(h, g, q)
    BY DEF Tellers
  <2>2. Told(h, p, g, q) \subseteq Prio /\ Told(h, p, g, q) # {} /\ IsFiniteSet(Told(h, p, g, q))
    BY <1>2, <2>1, SentType DEF Told
  <2> QED  BY <2>2, MergeAllType DEF PrioOrNone
<1> QED  BY <1>1, <1>2 DEF Middle

LEMMA CopyTypeStep ==
  ASSUME IsMergeLattice, Prune => ~NoMem /\ ~MixPrioDelete, DataType, PhaseInv,
         Quiet \/ (\E h : ObjMode(h)) \/ CplMode,
         NEW p \in Proc, Command(p) \/ XferEnd(p) \/ Transfer(p)
  PROVE  CopyType'
<1>0. CopyType /\ ItemType
  BY DataParts
<1>1. CASE obj' = obj /\ cpl' = cpl
  BY <1>0, <1>1 DEF CopyType
<1>2. CASE ExecLocalCommands(p)
  <2> DEFINE valid == {g \in Gid : setPrio[p][g] # NoPrio /\ g \notin delCmd[p]}
             newObj == [g \in Gid |-> IF g \in delCmd[p] THEN NoPrio ELSE IF g \in valid THEN setPrio[p][g] ELSE obj[p][g]]
             newCpl == [g \in Gid |-> IF g \in delCmd[p] THEN NoCopies[g] ELSE cpl[p][g]]
  <2>1. obj' = [obj EXCEPT ![p] = newObj] /\ cpl' = [cpl EXCEPT ![p] = newCpl]
    BY <1>2 DEF ExecLocalCommands
  <2>2. newObj \in [Gid -> PrioOrNone]
    BY <1>0 DEF ItemType, CopyType, PrioOrNone
  <2>3. newCpl \in [Gid -> [Proc -> PrioOrNone]]
    BY <1>0 DEF CopyType, NoCopies, PrioOrNone
  <2> HIDE DEF newObj, newCpl
  <2> QED  BY <1>0, <2>1, <2>2, <2>3 DEF CopyType
<1>3. CASE XferUnpack(p)
  <2> DEFINE in == Received(p, "obj")
             now == [g \in Gid |-> AcceptedPrio(p, in, g)]
             list == [g \in Gid |-> [q \in Proc |-> UpdatedCpl(p, in, g, q)]]
  <2>1. pc[p] = "comm" /\ obj' = [obj EXCEPT ![p] = now] /\ cpl' = [cpl EXCEPT ![p] = list]
    BY <1>3 DEF XferUnpack
  <2>2. PICK h : ObjMode(h)
    BY <2>1 DEF Quiet, CplMode, EarlyPcs
  <2>3. ObjMode(h)' /\ HistoryOk(h)
    BY <1>3, <2>2, ObjStepUnpack DEF ObjMode
  <2>4. pc'[p] = "connectCpl"
    BY <1>3, AreFunctions DEF XferUnpack, CallConnect, AllFunctions
  <2>5. (\A g \in Gid : obj'[p][g] = Final(h, p, g)) /\ \A g \in Gid, q \in Proc : cpl'[p][g][q] = Middle(h, p, g, q)
    BY <2>3, <2>4 DEF ObjMode, Unpacked
  <2>6. (\A g \in Gid : obj'[p][g] \in PrioOrNone) /\ \A g \in Gid, q \in Proc : cpl'[p][g][q] \in PrioOrNone
    BY <2>3, <2>5, FinalType, MiddleType
  <2>7. obj'[p] = now /\ cpl'[p] = list
    BY <1>0, <2>1 DEF CopyType
  <2>8. now \in [Gid -> PrioOrNone]
    BY <2>6, <2>7
  <2>9. list \in [Gid -> [Proc -> PrioOrNone]]
    BY <2>6, <2>7
  <2> HIDE DEF now, list
  <2> QED  BY <1>0, <2>1, <2>8, <2>9 DEF CopyType
<1>4. ASSUME NEW m \in msgs, CplMsgUnpackSingle(p, m) PROVE CopyType'
  <2> DEFINE list == [g \in Gid |-> [q \in Proc |-> CplAfter(p, m, g, q)]]
  <2>1. pc[p] = "commCpl" /\ m.to = p /\ cpl' = [cpl EXCEPT ![p] = list] /\ obj' = obj
    BY <1>4 DEF CplMsgUnpackSingle, Received
  <2>2. CplMode
    BY <2>1 DEF Quiet, ObjMode, EarlyPcs
  <2>3. CplReady(m) /\ \A g \in coupled[p] : obj[p][g] # NoPrio
    BY <2>1, <2>2 DEF CplMode, CplPending, LatePcs
  <2>4. \A g \in Gid, q \in Proc : CplAfter(p, m, g, q) = obj[q][g] \/ CplAfter(p, m, g, q) = cpl[p][g][q]
    BY <2>1, <2>3, CplAfterIs
  <2>5. \A g \in Gid, q \in Proc : CplAfter(p, m, g, q) \in PrioOrNone
    BY <1>0, <2>4 DEF CopyType
  <2>6. list \in [Gid -> [Proc -> PrioOrNone]]
    BY <2>5
  <2> HIDE DEF list
  <2> QED  BY <1>0, <2>1, <2>6 DEF CopyType
<1>5. CASE Command(p)
  BY <1>1, <1>5 DEF Command, XferBegin, XferCopyObj, XferPrioChange, XferDeleteObj, objVars
<1>6. CASE XferEnd(p) \/ PruneConnect(p) \/ CmdMsgUnpack(p) \/ XferEndAborted(p) \/ CplConnect(p) \/ XferEndReturn(p)
  BY <1>1, <1>6 DEF XferEnd, PruneConnect, CmdMsgUnpack, XferEndAborted, CplConnect, XferEndReturn, objVars
<1> QED  BY <1>2, <1>3, <1>4, <1>5, <1>6 DEF Transfer

LEMMA TransferInit == Init => TransferInv
<1> SUFFICES ASSUME Init PROVE TransferInv
  OBVIOUS
<1>0. obj \in [Proc -> [Gid -> PrioOrNone]]
  BY DEF Init, PrioOrNone
<1>1. cpl = [p \in Proc |-> [g \in Gid |-> [q \in Proc |->
                 IF obj[p][g] # NoPrio /\ q # p THEN obj[q][g] ELSE NoPrio]]]
  BY DEF Init
<1>2. CopyType
  BY <1>0, <1>1 DEF CopyType, PrioOrNone
<1>3. ItemType
  BY DEF Init, ItemType, NoCopies, NoSetPrio, NoDelObj, PrioOrNone
<1>4. MsgType /\ FlagType
  BY XferAssumption DEF Init, MsgType, FlagType
<1>5. Quiet
  <2>1. \A p \in Proc : Settled(p)
    BY <1>1 DEF Settled, Right
  <2>2. \A p \in Proc : pc[p] = "user" /\ CommandsOk(p) /\ PrunedOk(p)
    BY DEF Init, CommandsOk, PrunedOk, NoCopies, NoSetPrio
  <2>3. msgs = {} /\ fault = {}
    BY DEF Init
  <2> QED  BY <2>1, <2>2, <2>3 DEF Quiet, EarlyPcs
<1> QED  BY <1>2, <1>3, <1>4, <1>5, DataParts DEF TransferInv

(* Which of the three modes follows. *)
LEMMA ModeStep ==
  ASSUME IsMergeLattice, Prune => ~NoMem /\ ~MixPrioDelete, DataType, PhaseInv,
         Quiet \/ (\E h : ObjMode(h)) \/ CplMode,
         NEW p \in Proc, Command(p) \/ XferEnd(p) \/ Transfer(p)
  PROVE  Quiet' \/ (\E h : ObjMode(h)' /\ Started') \/ CplMode'
<1>0. ExecLocalCommands(p) \/ XferUnpack(p) => Started'
  <2>1. pc = [q \in Proc |-> pc[q]]
    BY AreFunctions DEF AllFunctions
  <2> QED  BY <2>1 DEF ExecLocalCommands, XferUnpack, CallConnect, Started
<1>1. CASE Quiet
  <2>1. CASE ExecLocalCommands(p)
    <3>1. PICK h : ObjMode(h)
      BY <1>1, <2>1, QuietToObj DEF ExecLocalCommands
    <3> QED  BY <1>0, <2>1, <3>1, ObjStepExec
  <2>2. CASE ~ExecLocalCommands(p)
    BY <1>1, <2>2, QuietStep
  <2> QED  BY <2>1, <2>2
<1>2. ASSUME NEW l \in Proc, CplMode, pc[l] \in LatePcs PROVE CplMode'
  BY <1>2, CplStep
<1>3. ASSUME NEW h, ObjMode(h) PROVE (\E k : ObjMode(k)' /\ Started') \/ CplMode'
  <2>1. CASE ExecLocalCommands(p)
    BY <1>0, <1>3, <2>1, ObjStepExec
  <2>2. CASE XferUnpack(p)
    BY <1>0, <1>3, <2>2, ObjStepUnpack
  <2>3. CASE CplConnect(p)
    <3>1. CplMode /\ pc[p] \in LatePcs
      BY <1>3, <2>3, ObjToCpl DEF CplConnect, LatePcs
    <3> QED  BY <1>2, <3>1
  <2>4. CASE ~(ExecLocalCommands(p) \/ XferUnpack(p) \/ CplConnect(p))
    <3>1. pc[p] \in {"connect", "comm", "connectCpl"} /\ (pc[p] = "connect" => ~Exception(p))
      BY <1>3 DEF ObjMode
    <3>2. ~Command(p)
      BY <3>1 DEF Command, XferBegin, XferCopyObj, XferPrioChange, XferDeleteObj, CanCommand
    <3>3. ~XferEnd(p) /\ ~PruneConnect(p) /\ ~CmdMsgUnpack(p) /\ ~XferEndAborted(p) /\ ~XferEndReturn(p)
      BY <3>1 DEF XferEnd, PruneConnect, CmdMsgUnpack, XferEndAborted, XferEndReturn
    <3>4. \A m \in msgs : ~CplMsgUnpackSingle(p, m)
      BY <3>1 DEF CplMsgUnpackSingle
    <3> QED  BY <2>4, <3>2, <3>3, <3>4 DEF Transfer
  <2> QED  BY <2>1, <2>2, <2>3, <2>4
<1>4. CASE CplMode
  <2>1. CASE \E l \in Proc : pc[l] \in LatePcs
    BY <1>2, <1>4, <2>1
  <2>2. CASE \A l \in Proc : pc[l] \notin LatePcs
    <3>1. Quiet
      BY <1>4, <2>2, CplToQuiet
    <3>2. CASE ExecLocalCommands(p)
      <4>1. PICK h : ObjMode(h)
        BY <3>1, <3>2, QuietToObj DEF ExecLocalCommands
      <4> QED  BY <1>0, <3>2, <4>1, ObjStepExec
    <3>3. CASE ~ExecLocalCommands(p)
      BY <3>1, <3>3, QuietStep
    <3> QED  BY <3>2, <3>3
  <2> QED  BY <2>1, <2>2
<1> QED  BY <1>1, <1>3, <1>4

LEMMA DataPartsNext == ItemType' /\ MsgType' /\ FlagType' /\ CopyType' => DataType'
<1>1. (\A m \in msgs' \cup UNION {out'[p] : p \in Proc} :
          m.kind \in {"cmd", "obj", "cpl"} /\ m.from \in Proc /\ m.to \in Proc) <=> MsgType'
  BY DEF MsgType
<1> HIDE DEF MsgType
<1> QED  BY <1>1, Zenon DEF DataType, TypeOK, ItemType, FlagType, CopyType

LEMMA TransferStutter ==
  ASSUME TransferInv, UNCHANGED vars
  PROVE  TransferInv'
<1>0. /\ UNCHANGED <<obj, cpl, pruned, resent, copyObj, setPrio, delCmd, newOwner, delObj, modCpl, coupled>>
      /\ UNCHANGED <<mode, pc, conn, abortAt, rounds, out, msgs, fault>>
  BY DEF vars, objVars, cmdVars, itemVars, ctrlVars
<1>1. DataType'
  <2>1. ItemType /\ MsgType /\ FlagType /\ CopyType
    BY DataParts DEF TransferInv
  <2>2. ItemType' /\ CopyType'
    BY <1>0, <2>1 DEF ItemType, CopyType
  <2>3. MsgType' /\ FlagType'
    BY <1>0, <2>1 DEF MsgType, FlagType
  <2> QED  BY <2>2, <2>3, DataPartsNext
<1>2. \A q \in Proc : SameAt(q)
  BY <1>0 DEF SameAt
<1>3. Grows
  BY <1>0 DEF Grows
<1>4. ASSUME Quiet PROVE Quiet'
  <2>1. \A q \in Proc : pc'[q] \in EarlyPcs /\ Settled(q)' /\ CommandsOk(q)' /\ PrunedOk(q)'
    BY <1>0, <1>2, <1>3, <1>4, SettledSame, CommandsSame, PrunedSame DEF Quiet
  <2> QED  BY <1>0, <1>3, <1>4, <2>1, CmdMsgSame DEF Quiet
<1>5. ASSUME NEW h, ObjMode(h) PROVE ObjMode(h)'
  <2>1. \A q \in Proc : Exception(q)' <=> Exception(q)
    BY <1>0 DEF Exception
  <2>2. \A q \in Proc : /\ pc'[q] \in {"connect", "comm", "connectCpl"}
                        /\ copyObj'[q] = h.copy[q] /\ delCmd'[q] = h.del[q]
                        /\ pc'[q] = "connect" => Waiting(h, q)' /\ ~Exception(q)'
                        /\ pc'[q] = "comm" => Executed(h, q)'
                        /\ pc'[q] = "connectCpl" => Unpacked(h, q)'
    BY <1>0, <1>2, <1>5, <2>1, ObjSame DEF ObjMode
  <2> QED  BY <1>0, <1>5, <2>2 DEF ObjMode
<1>6. ASSUME CplMode PROVE CplMode'
  <2>1. \A m : CplPending(m)' <=> CplPending(m)
    BY <1>0 DEF CplPending
  <2>2. \A q \in Proc : CommandsOk(q) => CommandsOk(q)'
    BY <1>2, CommandsSame
  <2>3. conn \in [Proc -> Nat]
    BY DataParts DEF TransferInv, FlagType
  <2>4. \A q \in Proc : pc'[q] # "comm" /\ conn[q] \in Nat /\ conn'[q] \in Nat /\ conn'[q] >= conn[q]
    BY <1>0, <1>6, <2>3 DEF CplMode
  <2>5. \A m : CplPending(m) => pc'[m.to] \in LatePcs
    BY <1>0, <1>6 DEF CplMode, CplReady
  <2>6. \A q \in Proc : pc'[q] \notin LatePcs => Settled(q) /\ CommandsOk(q)'
    BY <1>0, <1>6, <2>2 DEF CplMode
  <2> QED  BY <1>0, <1>6, <2>1, <2>4, <2>5, <2>6, CplKeep
<1>7. Started => Started'
  BY <1>0 DEF Started
<1> QED  BY <1>1, <1>4, <1>5, <1>6, <1>7 DEF TransferInv

LEMMA TransferStep ==
  ASSUME IsMergeLattice, Prune => ~NoMem /\ ~MixPrioDelete, PhaseInv, TransferInv, [Next]_vars
  PROVE  TransferInv'
<1>1. CASE UNCHANGED vars \/ Finished
  BY <1>1, TransferStutter DEF Finished
<1>2. ASSUME NEW p \in Proc, Command(p) \/ XferEnd(p) \/ Transfer(p) PROVE TransferInv'
  <2>1. DataType /\ (Quiet \/ (\E h : ObjMode(h) /\ Started) \/ CplMode)
    BY DEF TransferInv
  <2>2. ItemType' /\ MsgType' /\ FlagType' /\ CopyType'
    BY <1>2, <2>1, ItemTypeStep, MsgTypeStep, FlagTypeStep, CopyTypeStep
  <2>3. Quiet' \/ (\E h : ObjMode(h)' /\ Started') \/ CplMode'
    BY <1>2, <2>1, ModeStep
  <2> QED  BY <2>2, <2>3, DataPartsNext DEF TransferInv
<1> QED  BY <1>1, <1>2 DEF Next

-------------------------------------------------------------------------------
(* What XferEnd is for: on a processor that is back in the application the   *)
(* coupling lists say who else owns a copy and with which priority.          *)
THEOREM CouplingsRight ==
  ASSUME IsMergeLattice, Prune => ~NoMem /\ ~MixPrioDelete
  PROVE  Spec => []CouplingConsistency
<1>0. ~(Prune /\ NoMem)
  OBVIOUS
<1>1. (PhaseInv /\ TransferInv) /\ [Next]_vars => (PhaseInv /\ TransferInv)'
  BY <1>0, PhaseStep, TransferStep
<1>2. PhaseInv /\ TransferInv => CouplingConsistency
  <2> SUFFICES ASSUME TransferInv, NEW p \in Proc, NEW q \in Proc, NEW g \in Gid, pc[p] = "user"
               PROVE  cpl[p][g][q] = IF p # q /\ obj[p][g] # NoPrio THEN obj[q][g] ELSE NoPrio
    BY DEF CouplingConsistency
  <2>1. Settled(p)
    BY DEF TransferInv, Quiet, ObjMode, CplMode, LatePcs
  <2> QED  BY <2>1 DEF Settled, Right
<1>3. Init => PhaseInv /\ TransferInv
  BY PhaseInit, TransferInit
<1> QED  BY <1>1, <1>2, <1>3, PTL DEF Spec

(* And on the way there the result does not depend on the order of messages: *)
(* no two of them contradict each other, and none names a coupling that is   *)
(* missing.                                                                  *)
THEOREM MessagesRight ==
  ASSUME IsMergeLattice, Prune => ~NoMem /\ ~MixPrioDelete
  PROVE  Spec => []MessagesAgree
<1>0. ~(Prune /\ NoMem)
  OBVIOUS
<1>1. (PhaseInv /\ TransferInv) /\ [Next]_vars => (PhaseInv /\ TransferInv)'
  BY <1>0, PhaseStep, TransferStep
<1>2. PhaseInv /\ TransferInv => MessagesAgree
  <2> SUFFICES ASSUME TransferInv PROVE MessagesAgree
    OBVIOUS
  <2>1. OldCplTablesAgree
    <3> SUFFICES ASSUME NEW m \in msgs, m.kind = "obj", NEW n \in msgs, n.kind = "obj",
                        NEW i \in m.oldCpl, NEW j \in n.oldCpl, m.to = n.to, i.gid = j.gid
                 PROVE  /\ i.proc = j.proc => i.prio = j.prio
                        /\ \E k \in n.oldCpl : k.gid = i.gid /\ k.proc = i.proc
      BY DEF OldCplTablesAgree
    <3>1. PICK h : ObjMode(h)
      BY DEF TransferInv, Quiet, CplMode, CmdMsgOk, CplPending, CplReady
    <3>2. ObjMsgOk(h, m) /\ ObjMsgOk(h, n)
      BY <3>1 DEF ObjMode
    <3> QED  BY <3>2 DEF ObjMsgOk
  <2>2. AddsAgree
    <3> SUFFICES ASSUME NEW m \in msgs, m.kind = "cpl", NEW n \in msgs, n.kind = "cpl",
                        NEW i \in m.add, NEW j \in n.add, i.gid = j.gid, i.proc = j.proc
                 PROVE  i.prio = j.prio
      BY DEF AddsAgree
    <3>1. CplMode
      BY DEF TransferInv, Quiet, ObjMode, CmdMsgOk, ObjMsgOk
    <3>2. CplReady(m) /\ CplReady(n)
      BY <3>1 DEF CplMode, CplPending
    <3> QED  BY <3>2 DEF CplReady
  <2>3. NoMissingCoupling
    BY DEF TransferInv, Quiet, ObjMode, CplMode, NoMissingCoupling
  <2> QED  BY <2>1, <2>2, <2>3 DEF MessagesAgree
<1>3. Init => PhaseInv /\ TransferInv
  BY PhaseInit, TransferInit
<1> QED  BY <1>1, <1>2, <1>3, PTL DEF Spec

(* Every variable of the transfer keeps its type. *)
THEOREM TransferTypes ==
  ASSUME IsMergeLattice, Prune => ~NoMem /\ ~MixPrioDelete
  PROVE  Spec => []TypeOK
<1>0. ~(Prune /\ NoMem)
  OBVIOUS
<1>1. (PhaseInv /\ TransferInv) /\ [Next]_vars => (PhaseInv /\ TransferInv)'
  BY <1>0, PhaseStep, TransferStep
<1>2. PhaseInv /\ TransferInv => TypeOK
  BY DEF TransferInv, DataType
<1>3. Init => PhaseInv /\ TransferInv
  BY PhaseInit, TransferInit
<1> QED  BY <1>1, <1>2, <1>3, PTL DEF Spec

-------------------------------------------------------------------------------
(* The collective calls and the transfers they belong to.                    *)

(* How often p has called XferEnd. *)
Begun(p) == IF mode[p] = "CMDS" THEN rounds[p] - 1 ELSE rounds[p]

(* Who is ahead by one collective call is in the same transfer, unless this  *)
(* call is the first of a transfer.                                          *)
BusyInside == \A p \in Proc : mode[p] = "BUSY" <=> pc[p] # "user"
RoundsAgree ==
    \A p, q \in Proc :
        /\ conn[p] = conn[q] => Begun(p) = Begun(q)
        /\ conn[p] = conn[q] + 1 => Begun(p) = IF pc[p] = FirstPhase THEN Begun(q) + 1 ELSE Begun(q)
RoundsInv == BusyInside /\ RoundsAgree

ControlOk == FlagType /\ Lockstep /\ RoundsInv

LEMMA ControlTypes ==
  ASSUME FlagType, NEW p \in Proc
  PROVE  /\ conn[p] \in Nat /\ rounds[p] \in Nat /\ Begun(p) \in Int
         /\ mode[p] \in {"IDLE", "CMDS", "BUSY"} /\ pc[p] \in PCs
  BY DEF FlagType, Begun, PCs

(* p enters its next collective call. *)
LEMMA RoundsEnter ==
  ASSUME ControlOk, FlagType', Lockstep', NEW p \in Proc, NEW at, NEW M, CallConnect(p, at, M), rounds' = rounds,
         \/ /\ pc[p] = "user" /\ at = FirstPhase /\ mode[p] = "CMDS"
            /\ mode' = [mode EXCEPT ![p] = "BUSY"]
         \/ /\ (pc[p] = "pruneComm" /\ at = "connect") \/ (pc[p] = "comm" /\ at = "connectCpl")
            /\ at # FirstPhase /\ mode' = mode
  PROVE  RoundsInv'
<1>1. /\ pc' = [pc EXCEPT ![p] = at] /\ conn' = [conn EXCEPT ![p] = @ + 1]
      /\ pc \in [Proc -> PCs] /\ conn \in [Proc -> Nat] /\ mode \in [Proc -> {"IDLE", "CMDS", "BUSY"}]
      /\ rounds \in [Proc -> Int]
  BY DEF CallConnect, ControlOk, FlagType, PCs
<1>2. /\ pc'[p] = at /\ conn'[p] = conn[p] + 1 /\ at # "user"
      /\ mode'[p] = "BUSY"
      /\ Begun(p)' = IF pc[p] = "user" THEN Begun(p) + 1 ELSE Begun(p)
      /\ at = FirstPhase <=> pc[p] = "user"
  BY <1>1 DEF ControlOk, RoundsInv, BusyInside, FirstPhase, Begun
<1>3. \A q \in Proc : q # p => /\ pc'[q] = pc[q] /\ conn'[q] = conn[q] /\ mode'[q] = mode[q] /\ Begun(q)' = Begun(q)
  BY <1>1 DEF Begun
<1>4. BusyInside'
  BY <1>2, <1>3 DEF ControlOk, RoundsInv, BusyInside
<1>5. \A q \in Proc : q # p => conn[q] = conn[p] \/ conn[q] = conn[p] + 1
  BY <1>1, <1>2, <1>3 DEF ControlOk, Lockstep, OneAhead
<1>6. ASSUME NEW q \in Proc, q # p, conn[q] = conn[p] + 1
      PROVE  pc[q] = FirstPhase <=> pc[p] = "user"
  <2>1. OneAhead(q, p)
    BY <1>6 DEF ControlOk, Lockstep
  <2> QED  BY <2>1 DEF OneAhead, AtEnd, FirstPhase
<1>7. RoundsAgree'
  BY <1>1, <1>2, <1>3, <1>5, <1>6, ControlTypes DEF ControlOk, RoundsInv, RoundsAgree
<1> QED  BY <1>4, <1>7 DEF RoundsInv

(* p goes on inside a transfer, or leaves it. *)
LEMMA RoundsGoOn ==
  ASSUME ControlOk, NEW p \in Proc, NEW at, pc' = [pc EXCEPT ![p] = at], conn' = conn, rounds' = rounds,
         pc[p] # "user", Connected(p) \/ pc[p] = "commCpl",
         \/ at = "user" /\ mode' = [mode EXCEPT ![p] = "IDLE"]
         \/ at # "user" /\ mode' = mode
  PROVE  RoundsInv'
<1>1. /\ pc \in [Proc -> PCs] /\ conn \in [Proc -> Nat] /\ mode \in [Proc -> {"IDLE", "CMDS", "BUSY"}]
      /\ rounds \in [Proc -> Int]
  BY DEF ControlOk, FlagType, PCs
<1>2. \A q \in Proc : Begun(q)' = Begun(q)
  BY <1>1 DEF Begun, ControlOk, RoundsInv, BusyInside
<1>3. \A q \in Proc : conn[p] # conn[q] + 1
  <2> SUFFICES ASSUME NEW q \in Proc, conn[p] = conn[q] + 1 PROVE FALSE
    OBVIOUS
  <2>1. OneAhead(p, q)
    BY DEF ControlOk, Lockstep
  <2> QED  BY <1>1, <2>1 DEF OneAhead, Connected
<1>4. BusyInside'
  BY <1>1 DEF ControlOk, RoundsInv, BusyInside
<1>5. RoundsAgree'
  BY <1>1, <1>2, <1>3 DEF ControlOk, RoundsInv, RoundsAgree
<1> QED  BY <1>4, <1>5 DEF RoundsInv

(* p stays where it is. *)
LEMMA RoundsStay ==
  ASSUME ControlOk, pc' = pc, conn' = conn, \A q \in Proc : Begun(q)' = Begun(q), BusyInside'
  PROVE  RoundsInv'
  BY DEF ControlOk, RoundsInv, RoundsAgree

LEMMA RoundsStep ==
  ASSUME ~(Prune /\ NoMem), PhaseInv, FlagType, RoundsInv, PhaseInv', FlagType',
         NEW p \in Proc, Command(p) \/ XferEnd(p) \/ Transfer(p)
  PROVE  RoundsInv'
<1>0. /\ ControlOk /\ Lockstep'
      /\ pc \in [Proc -> PCs] /\ mode \in [Proc -> {"IDLE", "CMDS", "BUSY"}] /\ rounds \in [Proc -> Int]
      /\ Prune \in BOOLEAN
  BY XferAssumption DEF ControlOk, PhaseInv, FlagType, PCs
<1>1. CASE XferBegin(p)
  <2>1. pc' = pc /\ conn' = conn
    BY <1>1 DEF XferBegin
  <2>2. (\A q \in Proc : Begun(q)' = Begun(q)) /\ BusyInside'
    BY <1>0, <1>1 DEF XferBegin, Begun, RoundsInv, BusyInside
  <2> QED  BY <1>0, <2>1, <2>2, RoundsStay
<1>2. CASE \/ \E g \in Gid, d \in Proc, prio \in Prio : XferCopyObj(p, g, d, prio)
           \/ \E g \in Gid, prio \in Prio : XferPrioChange(p, g, prio)
           \/ \E g \in Gid : XferDeleteObj(p, g)
           \/ \E m \in msgs : CplMsgUnpackSingle(p, m)
  <2>1. pc' = pc /\ conn' = conn /\ mode' = mode /\ rounds' = rounds
    BY <1>2 DEF XferCopyObj, XferPrioChange, XferDeleteObj, CplMsgUnpackSingle, ctrlVars
  <2>2. (\A q \in Proc : Begun(q)' = Begun(q)) /\ BusyInside'
    BY <2>1 DEF Begun, RoundsInv, BusyInside
  <2> QED  BY <1>0, <2>1, <2>2, RoundsStay
<1>3. CASE XferEnd(p)
  <2>1. /\ pc[p] = "user" /\ mode[p] = "CMDS" /\ rounds' = rounds
        /\ mode' = [mode EXCEPT ![p] = "BUSY"]
    BY <1>3 DEF XferEnd
  <2>2. \E M : CallConnect(p, FirstPhase, M)
    BY <1>0, <1>3 DEF XferEnd, ConnectObj, FirstPhase
  <2> QED  BY <1>0, <2>1, <2>2, RoundsEnter
<1>4. CASE PruneConnect(p)
  <2>1. Prune /\ ~Exception(p)
    <3>1. Prune
      BY <1>4 DEF PruneConnect, PhaseInv, PhaseIfPruned
    <3> QED  BY <3>1, <1>0 DEF PhaseInv, AbortsInLastCall, Exception
  <2> QED  BY <1>0, <1>4, <2>1, RoundsGoOn DEF PruneConnect
<1>5. CASE CmdMsgUnpack(p)
  <2>1. pc[p] = "pruneComm" /\ rounds' = rounds /\ mode' = mode
    BY <1>5 DEF CmdMsgUnpack
  <2>2. "connect" # FirstPhase
    BY <2>1 DEF FirstPhase, PhaseInv, PhaseIfPruned
  <2>3. \E M : CallConnect(p, "connect", M)
    BY <1>5 DEF CmdMsgUnpack, ConnectObj
  <2> QED  BY <1>0, <2>1, <2>2, <2>3, RoundsEnter
<1>6. CASE ExecLocalCommands(p)
  <2>1. /\ pc[p] = "connect" /\ Connected(p)
        /\ pc' = [pc EXCEPT ![p] = "comm"] /\ conn' = conn /\ rounds' = rounds /\ mode' = mode
    BY <1>6 DEF ExecLocalCommands
  <2> QED  BY <1>0, <2>1, RoundsGoOn
<1>7. CASE XferEndAborted(p)
  BY <1>0, <1>7, RoundsGoOn DEF XferEndAborted, ResetItems
<1>8. CASE XferUnpack(p)
  <2>1. pc[p] = "comm" /\ rounds' = rounds /\ mode' = mode
    BY <1>8 DEF XferUnpack
  <2>2. "connectCpl" # FirstPhase
    BY DEF FirstPhase
  <2>3. \E M : CallConnect(p, "connectCpl", M)
    BY <1>8 DEF XferUnpack
  <2> QED  BY <1>0, <2>1, <2>2, <2>3, RoundsEnter
<1>9. CASE CplConnect(p)
  BY <1>0, <1>9, RoundsGoOn DEF CplConnect
<1>10. CASE XferEndReturn(p)
  BY <1>0, <1>10, RoundsGoOn DEF XferEndReturn, ResetItems
<1> QED  BY <1>1, <1>2, <1>3, <1>4, <1>5, <1>6, <1>7, <1>8, <1>9, <1>10 DEF Command, Transfer

-------------------------------------------------------------------------------
(* The abstract state in the modes of a transfer.                            *)

(* No transfer is between its two ends for objects: the abstract state is    *)
(* the concrete one.                                                         *)
AbsTransferred == {p \in Proc : Transferred(p)}
PlainView ==
    /\ AbsObj = obj
    /\ AbsCopyObj = [p \in Proc |-> IF pc[p] \in LatePcs THEN NoCopies ELSE copyObj[p]]
    /\ AbsSetPrio = [p \in Proc |-> IF pc[p] \in LatePcs THEN NoSetPrio ELSE setPrio[p]]
    /\ AbsDelCmd = [p \in Proc |-> IF pc[p] \in LatePcs THEN {} ELSE delCmd[p] \cup pruned[p]]
    /\ \A p \in Proc : Transferred(p) <=> pc[p] \in LatePcs
    /\ \A p \in Proc : pruned[p] # {} => Prune /\ pc[p] = "connect"

LEMMA PlainIs == DataType /\ PhaseInv /\ (Quiet \/ CplMode) => PlainView
<1> SUFFICES ASSUME DataType, PhaseInv, Quiet \/ CplMode PROVE PlainView
  OBVIOUS
<1>0. FlagType /\ CopyType
  BY DataParts
<1>1. \A p \in Proc : pc[p] \in EarlyPcs \cup LatePcs
  BY <1>0 DEF FlagType, EarlyPcs, LatePcs, Quiet, CplMode
<1>2. \A p \in Proc : pc[p] = "user" => pruned[p] = {}
  BY <1>0 DEF Quiet, CplMode, PrunedOk
<1>3. \A p \in Proc : ~PassedConnect(p)
  <2> SUFFICES ASSUME NEW p \in Proc, pc[p] = "connect", ~Exception(p), NEW q \in Proc,
                      conn[q] > conn[p] \/ (conn[q] = conn[p] /\ pc[q] = "comm")
               PROVE  FALSE
    BY DEF PassedConnect
  <2>1. conn[p] \in Nat /\ conn[q] \in Nat /\ conn[q] > conn[p]
    BY <1>0, <1>1 DEF FlagType, EarlyPcs, LatePcs
  <2>2. OneAhead(q, p)
    BY <2>1 DEF PhaseInv, Lockstep
  <2>3. pc[q] = "connectCpl"
    BY <2>2 DEF OneAhead, AtEnd
  <2> QED  BY <2>1, <2>3 DEF Quiet, CplMode, EarlyPcs, LatePcs
<1>4. \A p \in Proc : Transferred(p) <=> pc[p] \in LatePcs
  BY <1>1, <1>3 DEF Transferred, EarlyPcs, LatePcs
<1>5. AbsObj = obj
  <2>1. AbsObj = [p \in Proc |-> [g \in Gid |-> obj[p][g]]]
    BY <1>1, <1>3, <1>4 DEF AbsObj, EarlyPcs, LatePcs
  <2> QED  BY <1>0, <2>1 DEF CopyType
<1>6. \A p \in Proc : Deleted(p) = delCmd[p] \cup pruned[p]
  BY <1>2 DEF Deleted
<1>7. \A p \in Proc : pruned[p] # {} => Prune /\ pc[p] = "connect"
  BY <1>0 DEF FlagType, Quiet, CplMode, PrunedOk
<1> QED  BY <1>4, <1>5, <1>6, <1>7 DEF PlainView, AbsCopyObj, AbsSetPrio, AbsDelCmd

(* As soon as somebody has executed commands, the objects are where all      *)
(* commands together put them.                                               *)
SentView(h) ==
    /\ AbsObj = [p \in Proc |-> [g \in Gid |-> Final(h, p, g)]]
    /\ AbsCopyObj = [p \in Proc |-> NoCopies] /\ AbsSetPrio = [p \in Proc |-> NoSetPrio]
    /\ AbsDelCmd = [p \in Proc |-> {}]
    /\ \A p \in Proc : Transferred(p)

Kept(h, p, g) == IF g \in h.del[p] \cup h.pruned[p] THEN NoPrio
                 ELSE IF h.set[p][g] # NoPrio THEN h.set[p][g] ELSE h.obj[p][g]

LEMMA FinalIs ==
  ASSUME NEW h, HistoryOk(h), NEW p \in Proc, NEW g \in Gid
  PROVE  /\ Final(h, p, g) = IF Sent(h, g, p) = {} THEN Kept(h, p, g)
                             ELSE IF Kept(h, p, g) = NoPrio THEN MergeAll(Sent(h, g, p))
                             ELSE MergedPrio(MergeAll(Sent(h, g, p)), Kept(h, p, g))
         /\ {h.copy[q][g][p] : q \in Proc} \ {NoPrio} = Sent(h, g, p)
         /\ Sent(h, g, p) = {} <=> ~Gets(h, p, g)
<1>1. {h.copy[q][g][p] : q \in Proc} \ {NoPrio} = Sent(h, g, p)
  BY DEF Sent, PriosOf, Senders, Sends
<1>2. Sent(h, g, p) = {} <=> ~Gets(h, p, g)
  BY DEF Sent, PriosOf, Gets
<1>3. /\ h.set[p][g] # NoPrio => Owns(h, p, g) /\ g \notin h.del[p]
      /\ g \in h.pruned[p] => Gets(h, p, g)
  BY DEF HistoryOk
<1>4. CASE ~Gets(h, p, g)
  BY <1>1, <1>2, <1>3, <1>4 DEF Final, Local, Kept
<1>5. CASE Gets(h, p, g)
  <2>1. Kept(h, p, g) = NoPrio <=> ~Owns(h, p, g) \/ g \in h.del[p] \/ g \in h.pruned[p]
    BY <1>3 DEF Kept, Owns
  <2>2. Kept(h, p, g) # NoPrio => Kept(h, p, g) = Local(h, p, g)
    BY <2>1 DEF Kept, Local
  <2> QED  BY <1>1, <1>2, <1>5, <2>1, <2>2 DEF Final
<1> QED  BY <1>1, <1>4, <1>5

LEMMA SentIs == DataType /\ PhaseInv /\ Started => \A h : ObjMode(h) => SentView(h)
<1> SUFFICES ASSUME DataType, PhaseInv, NEW s \in Proc, pc[s] # "connect", NEW h, ObjMode(h)
             PROVE  SentView(h)
  BY DEF Started
<1>0. FlagType /\ CopyType /\ ItemType
  BY DataParts
<1>1. /\ HistoryOk(h)
      /\ \A p \in Proc : /\ pc[p] \in {"connect", "comm", "connectCpl"}
                         /\ copyObj[p] = h.copy[p] /\ delCmd[p] = h.del[p]
                         /\ pc[p] = "connect" => Waiting(h, p) /\ ~Exception(p) /\ conn[s] >= conn[p]
                         /\ pc[p] = "comm" => Executed(h, p)
                         /\ pc[p] = "connectCpl" => Unpacked(h, p)
  BY DEF ObjMode
<1>2. \A p \in Proc : pc[p] = "connect" => PassedConnect(p)
  <2> SUFFICES ASSUME NEW p \in Proc, pc[p] = "connect" PROVE PassedConnect(p)
    OBVIOUS
  <2>1. conn[p] \in Nat /\ conn[s] \in Nat /\ conn[s] >= conn[p] /\ pc[s] \in {"comm", "connectCpl"}
    BY <1>0, <1>1 DEF FlagType
  <2>2. conn[s] = conn[p] => pc[s] = "comm"
    BY <2>1 DEF PhaseInv, Lockstep, SamePhase, Takes
  <2> QED  BY <1>1, <2>1, <2>2 DEF PassedConnect
<1>3. \A p \in Proc : Transferred(p)
  BY <1>1, <1>2 DEF Transferred
<1>4. \A p \in Proc, g \in Gid : SentPrios(p, g) = Sent(h, g, p)
  BY <1>1, FinalIs DEF SentPrios
<1>5. \A p \in Proc, g \in Gid :
         (IF ~Transferred(p) \/ pc[p] \notin {"connect", "comm"} \/ SentPrios(p, g) = {}
            THEN IF PassedConnect(p) THEN KeptPrio(p, g) ELSE obj[p][g]
          ELSE IF KeptPrio(p, g) = NoPrio THEN MergeAll(SentPrios(p, g))
          ELSE MergedPrio(MergeAll(SentPrios(p, g)), KeptPrio(p, g))) = Final(h, p, g)
  <2> SUFFICES ASSUME NEW p \in Proc, NEW g \in Gid
      PROVE (IF ~Transferred(p) \/ pc[p] \notin {"connect", "comm"} \/ SentPrios(p, g) = {}
               THEN IF PassedConnect(p) THEN KeptPrio(p, g) ELSE obj[p][g]
             ELSE IF KeptPrio(p, g) = NoPrio THEN MergeAll(SentPrios(p, g))
             ELSE MergedPrio(MergeAll(SentPrios(p, g)), KeptPrio(p, g))) = Final(h, p, g)
    OBVIOUS
  <2>1. CASE pc[p] = "connect"
    <3>1. KeptPrio(p, g) = Kept(h, p, g)
      BY <1>1, <2>1 DEF KeptPrio, Kept, Deleted, Waiting
    <3> QED  BY <1>1, <1>2, <1>3, <1>4, <2>1, <3>1, FinalIs
  <2>2. CASE pc[p] = "comm"
    <3>1. KeptPrio(p, g) = Kept(h, p, g)
      BY <1>1, <2>2 DEF KeptPrio, Kept, Deleted, Executed, Local
    <3>2. ~PassedConnect(p) /\ (Sent(h, g, p) = {} => obj[p][g] = Final(h, p, g))
      BY <1>1, <2>2, FinalIs DEF PassedConnect, Executed, Final
    <3> QED  BY <1>1, <1>3, <1>4, <2>2, <3>1, <3>2, FinalIs
  <2>3. CASE pc[p] = "connectCpl"
    BY <1>1, <2>3 DEF PassedConnect, Unpacked
  <2> QED  BY <1>1, <2>1, <2>2, <2>3
<1>6. AbsObj = [p \in Proc |-> [g \in Gid |-> Final(h, p, g)]]
  BY <1>5 DEF AbsObj
<1> QED  BY <1>3, <1>6 DEF SentView, AbsCopyObj, AbsSetPrio, AbsDelCmd

-------------------------------------------------------------------------------
(* The steps of a processor while no objects are on their way.               *)

LEMMA AbstractConstants ==
    /\ Abstract!NoCopies = NoCopies /\ Abstract!NoSetPrio = NoSetPrio
    /\ \A p, q : Abstract!MergedPrio(p, q) = MergedPrio(p, q) /\ Abstract!MergeInto(p, q) = MergeInto(p, q)
    /\ \A S : Abstract!MergeAll(S) = MergeAll(S)
<1>1. Abstract!NoCopies = NoCopies /\ Abstract!NoSetPrio = NoSetPrio
  BY DEF Abstract!NoCopies, NoCopies, Abstract!NoSetPrio, NoSetPrio
<1>2. \A p, q : Abstract!MergedPrio(p, q) = MergedPrio(p, q)
  BY DEF Abstract!MergedPrio, MergedPrio
<1>3. \A p, q : Abstract!MergeInto(p, q) = MergeInto(p, q)
  BY <1>2 DEF Abstract!MergeInto, MergeInto
<1>4. \A S : Abstract!MergeAll(S) = MergeAll(S)
  BY DEF Abstract!MergeAll, MergeAll, Abstract!FoldSet, FoldSet, Abstract!MapThenFoldSet, MapThenFoldSet,
         Abstract!MergedPrio, MergedPrio
<1> QED  BY <1>1, <1>2, <1>3, <1>4

AbsSame == /\ AbsObj' = AbsObj /\ AbsCopyObj' = AbsCopyObj /\ AbsSetPrio' = AbsSetPrio /\ AbsDelCmd' = AbsDelCmd
           /\ AbsTransferred' = AbsTransferred

LEMMA PlainSame ==
  ASSUME PlainView, PlainView', obj' = obj,
         \A q \in Proc : /\ pc'[q] \in LatePcs <=> pc[q] \in LatePcs
                         /\ copyObj'[q] = copyObj[q] /\ setPrio'[q] = setPrio[q]
                         /\ delCmd'[q] \cup pruned'[q] = delCmd[q] \cup pruned[q]
  PROVE  AbsSame
  BY DEF PlainView, AbsSame, AbsTransferred

LEMMA CommandImplemented ==
  ASSUME DataType, BusyInside, PlainView, PlainView', NEW p \in Proc, Command(p)
  PROVE  Abstract!Next
<1>0. /\ copyObj \in [Proc -> [Gid -> [Proc -> PrioOrNone]]] /\ setPrio \in [Proc -> [Gid -> PrioOrNone]]
      /\ delCmd \in [Proc -> SUBSET Gid]
  BY DataParts DEF ItemType
<1>1. CASE XferBegin(p)
  <2>1. AbsSame
    BY <1>1, PlainSame DEF XferBegin, objVars, cmdVars
  <2>2. Abstract!Begin(p)
    BY <1>1, <2>1 DEF XferBegin, Abstract!Begin, AbsSame, AbsTransferred
  <2> QED  BY <2>2 DEF Abstract!Next
<1>2. ASSUME NEW g \in Gid, CanCommand(p, g), pc' = pc, mode' = mode, rounds' = rounds, obj' = obj, pruned' = pruned,
             \/ \E d \in Proc \ {p}, prio \in Prio :
                   /\ mode[p] = "CMDS" /\ copyObj' = [copyObj EXCEPT ![p][g][d] = MergeInto(@, prio)]
                   /\ UNCHANGED <<setPrio, delCmd>>
             \/ \E prio \in Prio :
                   /\ setPrio' = [setPrio EXCEPT ![p][g] = MergeInto(@, prio)]
                   /\ UNCHANGED <<copyObj, delCmd>>
             \/ /\ delCmd' = [delCmd EXCEPT ![p] = @ \cup {g}]
                /\ UNCHANGED <<copyObj, setPrio>>
      PROVE  Abstract!Command(p, g)
  <2>1. pc[p] \notin LatePcs /\ mode[p] # "BUSY" /\ AbsObj[p][g] # NoPrio
    BY <1>2 DEF CanCommand, BusyInside, LatePcs, PlainView
  <2>2. /\ AbsObj' = AbsObj /\ AbsTransferred' = AbsTransferred
        /\ copyObj' = copyObj => AbsCopyObj' = AbsCopyObj
        /\ setPrio' = setPrio => AbsSetPrio' = AbsSetPrio
        /\ delCmd' = delCmd => AbsDelCmd' = AbsDelCmd
    BY <1>2 DEF PlainView, AbsTransferred
  <2>3. ASSUME NEW d \in Proc \ {p}, NEW prio \in Prio, copyObj' = [copyObj EXCEPT ![p][g][d] = MergeInto(@, prio)]
        PROVE  AbsCopyObj' = [AbsCopyObj EXCEPT ![p][g][d] = MergeInto(@, prio)]
    BY <1>0, <1>2, <2>1, <2>3 DEF PlainView
  <2>4. ASSUME NEW prio \in Prio, setPrio' = [setPrio EXCEPT ![p][g] = MergeInto(@, prio)]
        PROVE  AbsSetPrio' = [AbsSetPrio EXCEPT ![p][g] = MergeInto(@, prio)]
    BY <1>0, <1>2, <2>1, <2>4 DEF PlainView
  <2>5. ASSUME delCmd' = [delCmd EXCEPT ![p] = @ \cup {g}]
        PROVE  AbsDelCmd' = [AbsDelCmd EXCEPT ![p] = @ \cup {g}]
    BY <1>0, <1>2, <2>1, <2>5 DEF PlainView
  <2> QED  BY <1>2, <2>1, <2>2, <2>3, <2>4, <2>5, AbstractConstants DEF Abstract!Command, AbsTransferred
<1>3. ASSUME NEW g \in Gid, NEW d \in Proc, NEW prio \in Prio, XferCopyObj(p, g, d, prio)
      PROVE  Abstract!Command(p, g)
  BY <1>2, <1>3 DEF XferCopyObj, objVars, ctrlVars
<1>4. ASSUME NEW g \in Gid, NEW prio \in Prio, XferPrioChange(p, g, prio)
      PROVE  Abstract!Command(p, g)
  BY <1>2, <1>4 DEF XferPrioChange, objVars, ctrlVars
<1>5. ASSUME NEW g \in Gid, XferDeleteObj(p, g)
      PROVE  Abstract!Command(p, g)
  BY <1>2, <1>5 DEF XferDeleteObj, objVars, ctrlVars
<1> QED  BY <1>1, <1>3, <1>4, <1>5 DEF Command, Abstract!Next

LEMMA PlainStep ==
  ASSUME ~(Prune /\ NoMem), DataType, PhaseInv, RoundsInv, PlainView, PlainView', NEW p \in Proc,
         Command(p) \/ XferEnd(p) \/ Transfer(p), ~ExecLocalCommands(p), ~XferUnpack(p)
  PROVE  [Abstract!Next]_(Abstract!vars)
<1>0. /\ copyObj \in [Proc -> [Gid -> [Proc -> PrioOrNone]]] /\ setPrio \in [Proc -> [Gid -> PrioOrNone]]
      /\ delCmd \in [Proc -> SUBSET Gid] /\ pruned \in [Proc -> SUBSET Gid]
      /\ pc \in [Proc -> PCs] /\ mode \in [Proc -> {"IDLE", "CMDS", "BUSY"}] /\ conn \in [Proc -> Nat]
      /\ rounds \in [Proc -> Nat] /\ BusyInside
  BY DataParts DEF ItemType, FlagType, RoundsInv, PCs
<1>1. ASSUME AbsSame, mode' = mode, rounds' = rounds
      PROVE  UNCHANGED Abstract!vars
  BY <1>1 DEF AbsSame, AbsTransferred, Abstract!vars
<1>2. CASE Command(p)
  BY <1>0, <1>2, CommandImplemented
<1>3. CASE XferEnd(p)
  <2>1. pc[p] = "user" /\ pc' = [pc EXCEPT ![p] = pc'[p]] /\ pc'[p] \in {"prune", "connect"}
    BY <1>0, <1>3 DEF XferEnd, ConnectObj, CallConnect
  <2>2. AbsSame
    BY <1>0, <1>3, <2>1, PlainSame DEF XferEnd, objVars, cmdVars, LatePcs
  <2>3. Abstract!End(p)
    BY <1>3, <2>2 DEF XferEnd, Abstract!End, AbsSame, AbsTransferred
  <2> QED  BY <2>3 DEF Abstract!Next
<1>4. CASE PruneConnect(p)
  <2>1. pc[p] = "prune" /\ pc' = [pc EXCEPT ![p] = pc'[p]] /\ pc'[p] \in {"pruneComm", "connect"}
    BY <1>0, <1>4 DEF PruneConnect, ConnectObj, CallConnect
  <2>2. AbsSame
    BY <1>0, <1>4, <2>1, PlainSame DEF PruneConnect, objVars, cmdVars, LatePcs
  <2> QED  BY <1>1, <1>4, <2>2 DEF PruneConnect
<1>5. CASE CmdMsgUnpack(p)
  <2>1. /\ pc[p] = "pruneComm" /\ pc' = [pc EXCEPT ![p] = "connect"]
        /\ obj' = obj /\ copyObj' = copyObj /\ setPrio' = setPrio /\ mode' = mode /\ rounds' = rounds
    BY <1>5 DEF CmdMsgUnpack, ConnectObj, CallConnect
  <2>2. \E gids : /\ pruned' = [pruned EXCEPT ![p] = @ \cup (delCmd[p] \cap gids)]
                  /\ delCmd' = [delCmd EXCEPT ![p] = @ \ gids]
    BY <1>5 DEF CmdMsgUnpack
  <2>3. \A q \in Proc : delCmd'[q] \cup pruned'[q] = delCmd[q] \cup pruned[q]
    BY <1>0, <2>2
  <2>4. AbsSame
    BY <1>0, <2>1, <2>3, PlainSame DEF LatePcs
  <2> QED  BY <1>1, <2>1, <2>4
<1>6. CASE CplConnect(p)
  <2>1. AbsSame
    BY <1>0, <1>6, PlainSame DEF CplConnect, objVars, cmdVars, LatePcs
  <2> QED  BY <1>1, <1>6, <2>1 DEF CplConnect
<1>7. CASE \E m \in msgs : CplMsgUnpackSingle(p, m)
  <2>1. AbsSame
    BY <1>7, PlainSame DEF CplMsgUnpackSingle, cmdVars, ctrlVars
  <2> QED  BY <1>1, <1>7, <2>1 DEF CplMsgUnpackSingle, ctrlVars
<1>8. CASE XferEndReturn(p)
  <2>1. /\ pc[p] = "commCpl" /\ obj' = obj /\ pruned' = pruned /\ rounds' = rounds
        /\ pc' = [pc EXCEPT ![p] = "user"] /\ mode' = [mode EXCEPT ![p] = "IDLE"]
        /\ copyObj' = [copyObj EXCEPT ![p] = NoCopies] /\ setPrio' = [setPrio EXCEPT ![p] = NoSetPrio]
        /\ delCmd' = [delCmd EXCEPT ![p] = {}]
    BY <1>8 DEF XferEndReturn, ResetItems, objVars
  <2>2. pruned[p] = {}
    BY <2>1 DEF PlainView
  <2>3. AbsObj' = AbsObj /\ AbsCopyObj' = AbsCopyObj /\ AbsSetPrio' = AbsSetPrio /\ AbsDelCmd' = AbsDelCmd
    BY <1>0, <2>1, <2>2 DEF PlainView, LatePcs
  <2>4. p \in AbsTransferred /\ AbsTransferred' = AbsTransferred \ {p}
    BY <1>0, <2>1 DEF PlainView, AbsTransferred, LatePcs
  <2>5. Abstract!Return(p)
    BY <2>1, <2>3, <2>4 DEF Abstract!Return, AbsTransferred
  <2> QED  BY <2>5 DEF Abstract!Next
<1>9. CASE XferEndAborted(p)
  <2>1. /\ pc[p] = "connect" /\ Connected(p) /\ Exception(p) /\ obj' = obj /\ pruned' = pruned /\ rounds' = rounds
        /\ pc' = [pc EXCEPT ![p] = "user"] /\ mode' = [mode EXCEPT ![p] = "IDLE"]
        /\ copyObj' = [copyObj EXCEPT ![p] = NoCopies] /\ setPrio' = [setPrio EXCEPT ![p] = NoSetPrio]
        /\ delCmd' = [delCmd EXCEPT ![p] = {}]
    BY <1>9 DEF XferEndAborted, ResetItems, objVars
  <2>2. ~Prune
    <3>1. PICK q \in Proc : conn[p] \in abortAt[q]
      BY <2>1 DEF Exception
    <3> QED  BY <3>1 DEF PhaseInv, AbortsInLastCall
  <2>3. pruned[p] = {}
    BY <2>2 DEF PlainView
  <2>4. /\ AbsObj' = AbsObj /\ AbsCopyObj' = [AbsCopyObj EXCEPT ![p] = NoCopies]
        /\ AbsSetPrio' = [AbsSetPrio EXCEPT ![p] = NoSetPrio] /\ AbsDelCmd' = [AbsDelCmd EXCEPT ![p] = {}]
    BY <1>0, <2>1, <2>3 DEF PlainView, LatePcs
  <2>5. p \notin AbsTransferred /\ AbsTransferred' = AbsTransferred
    BY <1>0, <2>1 DEF PlainView, AbsTransferred, LatePcs
  <2>6. ASSUME NEW q \in Proc
        PROVE  rounds[q] > rounds[p] \/ (rounds[q] = rounds[p] /\ mode[q] # "CMDS")
    <3>1. mode[p] = "BUSY" /\ Begun(p) = rounds[p] /\ conn[q] >= conn[p] /\ conn[q] <= conn[p] + 1
      BY <1>0, <2>1 DEF BusyInside, Begun, Connected, PhaseInv, Lockstep
    <3>2. CASE conn[q] = conn[p]
      <4>1. Begun(q) = rounds[p]
        BY <3>1, <3>2 DEF RoundsInv, RoundsAgree
      <4> QED  BY <1>0, <4>1 DEF Begun
    <3>3. CASE conn[q] = conn[p] + 1
      <4>1. OneAhead(q, p)
        BY <3>3 DEF PhaseInv, Lockstep
      <4>2. pc[q] = FirstPhase
        BY <2>1, <2>2, <4>1 DEF OneAhead, FirstPhase
      <4>3. Begun(q) = rounds[p] + 1
        BY <3>1, <3>3, <4>2 DEF RoundsInv, RoundsAgree
      <4> QED  BY <1>0, <4>3 DEF Begun
    <3>4. conn[q] \in Nat /\ conn[p] \in Nat
      BY <1>0
    <3>5. conn[q] = conn[p] \/ conn[q] = conn[p] + 1
      BY <3>1, <3>4
    <3> QED  BY <3>2, <3>3, <3>5
  <2>7. mode[p] = "BUSY"
    BY <1>0, <2>1 DEF BusyInside
  <2>8. Abstract!Abort(p)
    BY <2>1, <2>4, <2>5, <2>6, <2>7, AbstractConstants DEF Abstract!Abort, AbsTransferred
  <2> QED  BY <2>8 DEF Abstract!Next
<1> QED  BY <1>2, <1>3, <1>4, <1>5, <1>6, <1>7, <1>8, <1>9 DEF Transfer

-------------------------------------------------------------------------------
(* The steps while objects are on their way, and the one that begins this.   *)

LEMMA SentStep ==
  ASSUME NEW h, SentView(h), SentView(h)', NEW p \in Proc, ExecLocalCommands(p) \/ XferUnpack(p)
  PROVE  UNCHANGED Abstract!vars
<1>1. AbsObj' = AbsObj /\ AbsCopyObj' = AbsCopyObj /\ AbsSetPrio' = AbsSetPrio /\ AbsDelCmd' = AbsDelCmd
  BY DEF SentView
<1>2. {q \in Proc : Transferred(q)}' = {q \in Proc : Transferred(q)}
  BY DEF SentView
<1>3. mode' = mode /\ rounds' = rounds
  BY DEF ExecLocalCommands, XferUnpack
<1> QED  BY <1>1, <1>2, <1>3 DEF Abstract!vars

LEMMA TransferImplemented ==
  ASSUME DataType, PhaseInv, RoundsInv, Quiet, PlainView, NEW h, ObjMode(h), SentView(h)',
         NEW p \in Proc, ExecLocalCommands(p)
  PROVE  Abstract!Transfer
<1>0. /\ copyObj \in [Proc -> [Gid -> [Proc -> PrioOrNone]]] /\ setPrio \in [Proc -> [Gid -> PrioOrNone]]
      /\ conn \in [Proc -> Nat]
  BY DataParts DEF ItemType, FlagType
<1>1. /\ HistoryOk(h)
      /\ \A q \in Proc : /\ pc[q] = "connect" /\ Waiting(h, q)
                         /\ copyObj[q] = h.copy[q] /\ delCmd[q] = h.del[q]
                         /\ \A r \in Proc : conn[r] >= conn[q]
  BY DEF Quiet, ObjMode, EarlyPcs
<1>2. \A q \in Proc : mode[q] = "BUSY" /\ ~Transferred(q)
  BY <1>1 DEF RoundsInv, BusyInside, PlainView, LatePcs
<1>3. \A q, r \in Proc : rounds[q] = rounds[r]
  <2> SUFFICES ASSUME NEW q \in Proc, NEW r \in Proc PROVE rounds[q] = rounds[r]
    OBVIOUS
  <2>1. conn[q] \in Nat /\ conn[r] \in Nat /\ conn[q] >= conn[r] /\ conn[r] >= conn[q]
    BY <1>0, <1>1
  <2>2. conn[q] = conn[r]
    BY <2>1
  <2> QED  BY <1>2, <2>2 DEF RoundsInv, RoundsAgree, Begun
<1>4. ASSUME NEW q \in Proc, NEW g \in Gid
      PROVE  Abstract!Result(q, g) = Final(h, q, g)
  <2>1. AbsCopyObj = [r \in Proc |-> copyObj[r]]
    BY <1>1 DEF PlainView, LatePcs
  <2>2. Abstract!Sent(q, g) = Sent(h, g, q)
    BY <1>1, <2>1, FinalIs DEF Abstract!Sent
  <2>3. Abstract!Kept(q, g) = Kept(h, q, g)
    <3>1. /\ AbsDelCmd[q] = h.del[q] \cup h.pruned[q] /\ AbsSetPrio[q] = setPrio[q]
          /\ AbsObj[q][g] = h.obj[q][g]
          /\ h.set[q][g] = IF g \in h.del[q] THEN NoPrio ELSE setPrio[q][g]
      BY <1>1 DEF PlainView, LatePcs, Waiting
    <3> QED  BY <3>1 DEF Abstract!Kept, Kept
  <2> QED  BY <1>1, <2>2, <2>3, FinalIs, AbstractConstants DEF Abstract!Result
<1>5. AbsObj' = [q \in Proc |-> [g \in Gid |-> Abstract!Result(q, g)]]
  BY <1>4 DEF SentView
<1>6. {q \in Proc : Transferred(q)}' = Proc
  BY DEF SentView
<1>7. mode' = mode /\ rounds' = rounds
  BY DEF ExecLocalCommands
<1> QED  BY <1>2, <1>3, <1>5, <1>6, <1>7, AbstractConstants DEF SentView, Abstract!Transfer

-------------------------------------------------------------------------------
(* The refinement.                                                           *)

RefinementInv == PhaseInv /\ TransferInv /\ RoundsInv

LEMMA RefinementInit == Init => RefinementInv /\ Abstract!Init
<1> SUFFICES ASSUME Init PROVE RefinementInv /\ Abstract!Init
  OBVIOUS
<1>1. PhaseInv /\ TransferInv
  BY PhaseInit, TransferInit
<1>2. RoundsInv
  BY DEF Init, RoundsInv, BusyInside, RoundsAgree, Begun
<1>3. PlainView
  <2>1. DataType /\ Quiet
    <3>1. \A p \in Proc : pc[p] = "user"
      BY DEF Init
    <3>2. CplMode => Quiet
      BY <1>1, <3>1, CplToQuiet DEF TransferInv, LatePcs
    <3> QED  BY <1>1, <3>1, <3>2 DEF TransferInv, ObjMode, Started
  <2> QED  BY <1>1, <2>1, PlainIs
<1>4. Abstract!Init
  BY <1>3, AbstractConstants DEF Init, PlainView, LatePcs, Abstract!Init
<1> QED  BY <1>1, <1>2, <1>4 DEF RefinementInv

LEMMA PlainIsNext == (DataType /\ PhaseInv /\ (Quiet \/ CplMode))' => PlainView'
  BY PlainIs, PTL

LEMMA SentIsNext == (DataType /\ PhaseInv /\ Started)' => \A h : ObjMode(h)' => SentView(h)'
<1>1. (DataType /\ PhaseInv /\ Started)' => (\A h : ObjMode(h) => SentView(h))'
  BY SentIs, PTL
<1> QED  BY <1>1

LEMMA StepImplemented ==
  ASSUME IsMergeLattice, Prune => ~NoMem /\ ~MixPrioDelete, RefinementInv, RefinementInv',
         NEW p \in Proc, Command(p) \/ XferEnd(p) \/ Transfer(p)
  PROVE  [Abstract!Next]_(Abstract!vars)
<1>0. /\ DataType /\ PhaseInv /\ RoundsInv /\ DataType' /\ PhaseInv' /\ ~(Prune /\ NoMem)
      /\ pc' = [q \in Proc |-> pc'[q]]
  <2>1. DataType /\ PhaseInv /\ RoundsInv /\ DataType' /\ PhaseInv' /\ ~(Prune /\ NoMem)
    BY DEF RefinementInv, TransferInv
  <2>2. pc' = [q \in Proc |-> pc'[q]]
    BY <2>1 DEF DataType, TypeOK
  <2> QED  BY <2>1, <2>2
<1>1. ASSUME Quiet, ~ExecLocalCommands(p) PROVE [Abstract!Next]_(Abstract!vars)
  <2>1. PlainView /\ Quiet'
    BY <1>0, <1>1, PlainIs, QuietStep
  <2>2. PlainView'
    BY <1>0, <2>1, PlainIsNext
  <2>3. ~XferUnpack(p)
    BY <1>1 DEF Quiet, XferUnpack, EarlyPcs
  <2> QED  BY <1>0, <1>1, <2>1, <2>2, <2>3, PlainStep
<1>2. ASSUME NEW h, ObjMode(h), ExecLocalCommands(p) \/ XferUnpack(p)
      PROVE  SentView(h)'
  <2>1. ObjMode(h)'
    BY <1>0, <1>2, ObjStepExec, ObjStepUnpack
  <2>2. pc[p] \in {"connect", "comm"} /\ pc'[p] # "connect"
    BY <1>0, <1>2 DEF ExecLocalCommands, XferUnpack, CallConnect
  <2> QED  BY <1>0, <2>1, <2>2, SentIsNext DEF Started
<1>3. ASSUME Quiet, ExecLocalCommands(p) PROVE [Abstract!Next]_(Abstract!vars)
  <2>1. PICK h : ObjMode(h)
    BY <1>0, <1>3, QuietToObj DEF ExecLocalCommands
  <2>2. PlainView /\ SentView(h)'
    BY <1>0, <1>2, <1>3, <2>1, PlainIs
  <2>3. Abstract!Transfer
    BY <1>0, <1>3, <2>1, <2>2, TransferImplemented
  <2> QED  BY <2>3 DEF Abstract!Next
<1>4. ASSUME CplMode PROVE [Abstract!Next]_(Abstract!vars)
  <2>1. CASE \A l \in Proc : pc[l] \notin LatePcs
    <3>1. Quiet
      BY <1>0, <1>4, <2>1, CplToQuiet
    <3> QED  BY <1>1, <1>3, <3>1
  <2>2. ASSUME NEW l \in Proc, pc[l] \in LatePcs PROVE [Abstract!Next]_(Abstract!vars)
    <3>1. PlainView /\ CplMode'
      BY <1>0, <1>4, <2>2, PlainIs, CplStep
    <3>2. PlainView'
      BY <1>0, <3>1, PlainIsNext
    <3>3. pc'[p] # "comm" /\ pc[p] # "comm"
      BY <1>4, <3>1 DEF CplMode
    <3>4. ~XferUnpack(p) /\ ~ExecLocalCommands(p)
      <4>1. AllFunctions
        BY <1>0, AreFunctions
      <4> QED  BY <3>3, <4>1 DEF XferUnpack, ExecLocalCommands, AllFunctions
    <3> QED  BY <1>0, <3>1, <3>2, <3>4, PlainStep
  <2> QED  BY <2>1, <2>2
<1>5. ASSUME NEW h, ObjMode(h), Started PROVE [Abstract!Next]_(Abstract!vars)
  <2>1. CASE ExecLocalCommands(p) \/ XferUnpack(p)
    <3>1. SentView(h) /\ SentView(h)'
      BY <1>0, <1>2, <1>5, <2>1, SentIs
    <3> QED  BY <2>1, <3>1, SentStep
  <2>2. CASE CplConnect(p)
    <3>1. CplMode
      BY <1>0, <1>5, <2>2, ObjToCpl DEF CplConnect
    <3> QED  BY <1>4, <3>1
  <2>3. CASE ~(ExecLocalCommands(p) \/ XferUnpack(p) \/ CplConnect(p))
    <3>1. pc[p] \in {"connect", "comm", "connectCpl"} /\ (pc[p] = "connect" => ~Exception(p))
      BY <1>5 DEF ObjMode
    <3>2. ~Command(p) /\ ~XferEnd(p) /\ ~PruneConnect(p) /\ ~CmdMsgUnpack(p) /\ ~XferEndAborted(p) /\ ~XferEndReturn(p)
      BY <3>1 DEF Command, XferBegin, XferCopyObj, XferPrioChange, XferDeleteObj, CanCommand,
                  XferEnd, PruneConnect, CmdMsgUnpack, XferEndAborted, XferEndReturn
    <3>3. \A m \in msgs : ~CplMsgUnpackSingle(p, m)
      BY <3>1 DEF CplMsgUnpackSingle
    <3> QED  BY <2>3, <3>2, <3>3 DEF Transfer
  <2> QED  BY <2>1, <2>2, <2>3
<1> QED  BY <1>1, <1>3, <1>4, <1>5 DEF RefinementInv, TransferInv

LEMMA RefinementStep ==
  ASSUME IsMergeLattice, Prune => ~NoMem /\ ~MixPrioDelete, RefinementInv, [Next]_vars
  PROVE  RefinementInv' /\ [Abstract!Next]_(Abstract!vars)
<1>1. PhaseInv' /\ TransferInv' /\ ~(Prune /\ NoMem)
  BY PhaseStep, TransferStep DEF RefinementInv
<1>2. CASE UNCHANGED vars \/ Finished
  <2>1. /\ UNCHANGED <<obj, cpl, pruned, resent, copyObj, setPrio, delCmd, mode, pc, conn, abortAt, rounds>>
    BY <1>2 DEF Finished, vars, objVars, cmdVars, ctrlVars
  <2>2. RoundsInv'
    BY <2>1 DEF RefinementInv, RoundsInv, BusyInside, RoundsAgree, Begun
  <2>3. /\ \A p \in Proc : PassedConnect(p)' <=> PassedConnect(p)
        /\ \A p \in Proc : Transferred(p)' <=> Transferred(p)
    BY <2>1 DEF PassedConnect, Transferred, Exception
  <2>4. UNCHANGED Abstract!vars
    BY <2>1, <2>3 DEF Abstract!vars, AbsObj, AbsCopyObj, AbsSetPrio, AbsDelCmd, SentPrios, KeptPrio, Deleted
  <2> QED  BY <1>1, <2>2, <2>4 DEF RefinementInv
<1>3. ASSUME NEW p \in Proc, Command(p) \/ XferEnd(p) \/ Transfer(p)
      PROVE  RefinementInv' /\ [Abstract!Next]_(Abstract!vars)
  <2>1. FlagType /\ FlagType'
    <3>1. DataType /\ DataType'
      BY <1>1 DEF RefinementInv, TransferInv
    <3>2. FlagType
      BY <3>1, DataParts
    <3> QED  BY <3>1, <3>2 DEF DataType, TypeOK, FlagType
  <2>2. RoundsInv'
    BY <1>1, <1>3, <2>1, RoundsStep DEF RefinementInv
  <2>3. RefinementInv'
    BY <1>1, <2>2 DEF RefinementInv
  <2> QED  BY <1>3, <2>3, StepImplemented
<1> QED  BY <1>2, <1>3 DEF Next

(* XferEnd is atomic, however the processors go through its phases: the      *)
(* commands of all processors take effect together, by the rules of merging, *)
(* or an exception drops them on all processors and no object has changed.   *)
THEOREM AtomicTransferImplemented ==
  ASSUME IsMergeLattice, Prune => ~NoMem /\ ~MixPrioDelete
  PROVE  Spec => ImplementsAtomicTransfer
<1>1. Init => RefinementInv /\ Abstract!Init
  BY RefinementInit
<1>2. RefinementInv /\ [Next]_vars => RefinementInv' /\ [Abstract!Next]_(Abstract!vars)
  BY RefinementStep
<1> QED  BY <1>1, <1>2, PTL DEF Spec, ImplementsAtomicTransfer, Abstract!Spec
=============================================================================
