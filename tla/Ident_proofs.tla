----------------------------- MODULE Ident_proofs -----------------------------
(***************************************************************************)
(* The proofs about Ident, for every set of processors and objects, every  *)
(* distribution and every choice of identifiers that keeps the contract.   *)
(* The first part is about the tables: what sorting yields does not depend *)
(* on the global ids a processor knows.  The second part is about the      *)
(* messages.                                                               *)
(***************************************************************************)
EXTENDS Ident, FiniteSetTheorems, WellFoundedInduction, TLAPS

-------------------------------------------------------------------------------
(* Arrangements of a sequence.                                               *)

LEMMA Smallest ==
  ASSUME NEW S \in SUBSET Nat, S # {}
  PROVE  \E n \in S : \A m \in S : n <= m
<1> DEFINE Less == {pair \in Nat \X Nat : pair[1] < pair[2]}
<1>1. OpToRel(<, Nat) = Less
  BY DEF OpToRel
<1>2. IsWellFoundedOn(Less, Nat)
  BY <1>1, NatLessThanWellFounded
<1>3. PICK n \in S : \A m \in S : ~ (<<m, n>> \in Less)
  BY <1>2, WFMin
<1>4. \A m \in S : ~ (m < n)
  BY <1>3
<1> QED  BY <1>4

Permutes(f, D) == /\ f \in [D -> D]
                  /\ \A i, j \in D : f[i] = f[j] => i = j
                  /\ \A j \in D : \E i \in D : f[i] = j

LEMMA ArrangementIs ==
  ASSUME NEW D, NEW s, DOMAIN s = D, NEW t
  PROVE  t \in Arrangements(s) <=> \E f : Permutes(f, D) /\ t = [i \in D |-> s[f[i]]]
<1>1. \A f : f \in Bijection(D, D) <=> Permutes(f, D)
  BY DEF Bijection, Injection, Surjection, IsInjective, Permutes
<1> QED  BY <1>1 DEF Arrangements

LEMMA ArrangementType ==
  ASSUME NEW D, NEW X, NEW s \in [D -> X], NEW t \in Arrangements(s)
  PROVE  t \in [D -> X]
<1>1. PICK f : Permutes(f, D) /\ t = [i \in D |-> s[f[i]]]
  BY ArrangementIs
<1> QED  BY <1>1 DEF Permutes

LEMMA ArrangementRefl ==
  ASSUME NEW D, NEW X, NEW s \in [D -> X]
  PROVE  s \in Arrangements(s)
<1> DEFINE f == [i \in D |-> i]
<1>1. Permutes(f, D)
  BY DEF Permutes
<1>2. s = [i \in D |-> s[f[i]]]
  OBVIOUS
<1> HIDE DEF f
<1> QED  BY <1>1, <1>2, ArrangementIs

LEMMA ArrangementSym ==
  ASSUME NEW D, NEW X, NEW s \in [D -> X], NEW t \in Arrangements(s)
  PROVE  s \in Arrangements(t)
<1>1. PICK f : Permutes(f, D) /\ t = [i \in D |-> s[f[i]]]
  BY ArrangementIs
<1> DEFINE h == [j \in D |-> CHOOSE i \in D : f[i] = j]
<1>2. \A j \in D : h[j] \in D /\ f[h[j]] = j
  BY <1>1 DEF Permutes
<1>3. h \in [D -> D]
  BY <1>2
<1> HIDE DEF h
<1>4. \A i, j \in D : h[i] = h[j] => i = j
  BY <1>2
<1>5. \A j \in D : \E i \in D : h[i] = j
  <2> TAKE j \in D
  <2>1. f[j] \in D
    BY <1>1 DEF Permutes
  <2>2. f[h[f[j]]] = f[j] /\ h[f[j]] \in D
    BY <1>2, <2>1
  <2> QED  BY <2>1, <2>2, <1>1 DEF Permutes
<1>6. t \in [D -> X]
  BY ArrangementType
<1>7. \A j \in D : s[j] = t[h[j]]
  BY <1>1, <1>2
<1>8. s = [j \in D |-> t[h[j]]]
  BY <1>7
<1>9. Permutes(h, D)
  BY <1>3, <1>4, <1>5 DEF Permutes
<1>10. DOMAIN t = D
  BY <1>6
<1> QED  BY <1>8, <1>9, <1>10, ArrangementIs

LEMMA ArrangementTrans ==
  ASSUME NEW D, NEW X, NEW s \in [D -> X], NEW t \in Arrangements(s), NEW u \in Arrangements(t)
  PROVE  u \in Arrangements(s)
<1>0. t \in [D -> X]
  BY ArrangementType
<1>1. PICK f : Permutes(f, D) /\ t = [i \in D |-> s[f[i]]]
  BY ArrangementIs
<1>2. PICK h : Permutes(h, D) /\ u = [i \in D |-> t[h[i]]]
  <2>1. DOMAIN t = D
    BY <1>0
  <2> QED  BY <2>1, ArrangementIs
<1> DEFINE fh == [i \in D |-> f[h[i]]]
<1>3. fh \in [D -> D]
  BY <1>1, <1>2 DEF Permutes
<1>4. \A i, j \in D : fh[i] = fh[j] => i = j
  BY <1>1, <1>2 DEF Permutes
<1>5. \A j \in D : \E i \in D : fh[i] = j
  <2> TAKE j \in D
  <2>1. PICK k \in D : f[k] = j
    BY <1>1 DEF Permutes
  <2>2. PICK i \in D : h[i] = k
    BY <1>2 DEF Permutes
  <2> QED  BY <2>1, <2>2
<1>6. u = [i \in D |-> s[fh[i]]]
  BY <1>1, <1>2 DEF Permutes
<1> HIDE DEF fh
<1>7. Permutes(fh, D)
  BY <1>3, <1>4, <1>5 DEF Permutes
<1> QED  BY <1>6, <1>7, ArrangementIs

LEMMA ArrangementsSame ==
  ASSUME NEW D, NEW X, NEW s \in [D -> X], NEW t \in Arrangements(s)
  PROVE  Arrangements(s) = Arrangements(t)
<1>1. t \in [D -> X] /\ s \in Arrangements(t)
  BY ArrangementType, ArrangementSym
<1>2. \A u \in Arrangements(t) : u \in Arrangements(s)
  BY ArrangementTrans
<1>3. \A u \in Arrangements(s) : u \in Arrangements(t)
  BY <1>1, ArrangementTrans
<1> QED  BY <1>2, <1>3

Mapped(m, s) == [k \in DOMAIN s |-> m[s[k]]]

LEMMA ArrangementMap ==
  ASSUME NEW D, NEW X, NEW Y, NEW s \in [D -> X], NEW t \in [D -> X], NEW m \in [X -> Y]
  PROVE  /\ t \in Arrangements(s) => Mapped(m, t) \in Arrangements(Mapped(m, s))
         /\ (\A a, b \in X : m[a] = m[b] => a = b) /\ Mapped(m, t) \in Arrangements(Mapped(m, s))
              => t \in Arrangements(s)
<1> DEFINE ms == [i \in D |-> m[s[i]]]
           mt == [i \in D |-> m[t[i]]]
<1>b. Mapped(m, s) = ms /\ Mapped(m, t) = mt
  BY DEF Mapped
<1>0. ms \in [D -> Y] /\ mt \in [D -> Y]
  OBVIOUS
<1>a. \A i \in D : ms[i] = m[s[i]] /\ mt[i] = m[t[i]]
  OBVIOUS
<1> HIDE DEF ms, mt
<1>1. ASSUME t \in Arrangements(s)  PROVE mt \in Arrangements(ms)
  <2>1. PICK f : Permutes(f, D) /\ t = [i \in D |-> s[f[i]]]
    BY <1>1, ArrangementIs
  <2>2. \A i \in D : mt[i] = ms[f[i]]
    BY <2>1, <1>a DEF Permutes
  <2>3. mt = [i \in D |-> ms[f[i]]]
    BY <2>2, <1>0
  <2>4. DOMAIN ms = D
    BY <1>0
  <2> QED  BY <2>1, <2>3, <2>4, ArrangementIs
<1>2. ASSUME \A a, b \in X : m[a] = m[b] => a = b, mt \in Arrangements(ms)
      PROVE  t \in Arrangements(s)
  <2>1. PICK f : Permutes(f, D) /\ mt = [i \in D |-> ms[f[i]]]
    <3>1. DOMAIN ms = D
      BY <1>0
    <3> QED  BY <1>2, <3>1, ArrangementIs
  <2>2. \A i \in D : t[i] = s[f[i]]
    <3> TAKE i \in D
    <3>0. f[i] \in D
      BY <2>1 DEF Permutes
    <3>1. m[t[i]] = m[s[f[i]]]
      BY <2>1, <1>a, <3>0
    <3>2. t[i] \in X /\ s[f[i]] \in X
      BY <3>0
    <3> QED  BY <3>1, <3>2, <1>2
  <2>3. t = [i \in D |-> s[f[i]]]
    BY <2>2
  <2>4. DOMAIN s = D
    OBVIOUS
  <2> QED  BY <2>1, <2>3, <2>4, ArrangementIs
<1> QED  BY <1>1, <1>2, <1>b

-------------------------------------------------------------------------------
(* Sorting the identifiers of a tuple.                                       *)

LEMMA CompareIdOrder ==
  ASSUME NEW a \in IdentInfo, NEW b \in IdentInfo, NEW c \in IdentInfo
  PROVE  /\ ~CompareId(a, a)
         /\ ~CompareId(b, a) /\ ~CompareId(c, b) => ~CompareId(c, a)
<1>1. /\ a.typeId \in Nat /\ b.typeId \in Nat /\ c.typeId \in Nat
      /\ a.id \in Nat /\ b.id \in Nat /\ c.id \in Nat
  BY DEF IdentInfo, ID_OBJECT, ID_NUMBER, ID_STRING
<1> QED  BY <1>1 DEF CompareId

(* A least identifier, one of possibly several, ...                          *)
LEMMA LeastId ==
  ASSUME NEW D, D # {}, NEW s \in [D -> IdentInfo]
  PROVE  \E i \in D : \A j \in D : ~CompareId(s[j], s[i])
<1>0. \A i \in D : s[i].typeId \in Nat /\ s[i].id \in Nat
  BY DEF IdentInfo, ID_OBJECT, ID_NUMBER, ID_STRING
<1> DEFINE types == {s[i].typeId : i \in D}
<1>1. types \in SUBSET Nat /\ types # {}
  BY <1>0
<1>2. PICK type \in types : \A m \in types : type <= m
  <2> HIDE DEF types
  <2> QED  BY <1>1, Smallest
<1> DEFINE ids == {s[i].id : i \in {k \in D : s[k].typeId = type}}
<1>3. ids \in SUBSET Nat /\ ids # {}
  BY <1>0, <1>2
<1>4. PICK id \in ids : \A m \in ids : id <= m
  <2> HIDE DEF ids
  <2> QED  BY <1>3, Smallest
<1>5. PICK i \in D : s[i].typeId = type /\ s[i].id = id
  BY <1>4
<1>6. ASSUME NEW j \in D  PROVE ~CompareId(s[j], s[i])
  <2>1. type <= s[j].typeId
    BY <1>2
  <2>2. s[j].typeId = type => id <= s[j].id
    BY <1>4
  <2> QED  BY <2>1, <2>2, <1>5, <1>0 DEF CompareId
<1> QED  BY <1>6

\* The first k are in their places.
SortedUpTo(t, D, k) == \A i, j \in D : i <= k /\ i < j => ~CompareId(t[j], t[i])

(* ... comes next ...                                                        *)
LEMMA SelectNext ==
  ASSUME NEW n \in Nat, NEW t \in [1..n -> IdentInfo], NEW k \in Nat, k < n,
         SortedUpTo(t, 1..n, k)
  PROVE  \E u \in Arrangements(t) : SortedUpTo(u, 1..n, k + 1)
<1> DEFINE D == (k+1)..n
           rest == [i \in D |-> t[i]]
<1>1. D # {} /\ rest \in [D -> IdentInfo]
  <2>1. k + 1 \in D /\ D \subseteq 1..n
    OBVIOUS
  <2> QED  BY <2>1
<1>2. PICK m \in D : \A j \in D : ~CompareId(rest[j], rest[m])
  <2> HIDE DEF D, rest
  <2> QED  BY <1>1, LeastId
<1>3. m \in 1..n /\ m > k /\ \A j \in 1..n : j > k => ~CompareId(t[j], t[m])
  <2>1. m \in 1..n /\ m > k /\ rest[m] = t[m]
    OBVIOUS
  <2>2. \A j \in 1..n : j > k => j \in D /\ rest[j] = t[j]
    OBVIOUS
  <2> HIDE DEF D, rest
  <2> QED  BY <1>2, <2>1, <2>2
<1> HIDE DEF D, rest
<1> DEFINE f == [i \in 1..n |-> IF i = m THEN k + 1 ELSE IF i = k + 1 THEN m ELSE i]
           u == [i \in 1..n |-> t[f[i]]]
<1>4. f \in [1..n -> 1..n] /\ (\A i, j \in 1..n : f[i] = f[j] => i = j)
  BY <1>3
<1>5. \A j \in 1..n : \E i \in 1..n : f[i] = j
  <2> TAKE j \in 1..n
  <2>1. f[f[j]] = j /\ f[j] \in 1..n
    BY <1>3
  <2> QED  BY <2>1
<1>6. \A i \in 1..n : /\ i <= k => f[i] = i
                      /\ i = k + 1 => f[i] = m
                      /\ i > k => f[i] > k
  BY <1>3
<1> HIDE DEF f
<1>7. u \in Arrangements(t)
  <2>1. Permutes(f, 1..n)
    BY <1>4, <1>5 DEF Permutes
  <2> QED  BY <2>1, ArrangementIs
<1>8. ASSUME NEW i \in 1..n, NEW j \in 1..n, i <= k + 1, i < j  PROVE ~CompareId(u[j], u[i])
  <2>1. u[i] = t[f[i]] /\ u[j] = t[f[j]] /\ f[j] \in 1..n /\ f[i] \in 1..n
    BY <1>4
  <2>2. CASE i <= k
    <3>1. f[i] = i
      BY <2>2, <1>6
    <3>2. j <= k => f[j] = j
      BY <1>6
    <3>3. j > k => f[j] > k
      BY <1>6
    <3>4. i < f[j]
      BY <3>2, <3>3, <2>1, <2>2, <1>8
    <3> QED  BY <3>1, <3>4, <2>1, <2>2 DEF SortedUpTo
  <2>3. CASE i = k + 1
    <3>1. f[i] = m /\ f[j] > k
      BY <2>3, <1>6, <1>8
    <3> QED  BY <3>1, <2>1, <1>3
  <2> QED  BY <2>2, <2>3, <1>8
<1> QED  BY <1>7, <1>8 DEF SortedUpTo

(* ... so that a tuple can be sorted,                                        *)
LEMMA SortExists ==
  ASSUME NEW n \in Nat, NEW s \in [1..n -> IdentInfo]
  PROVE  \E t \in Arrangements(s) : \A i, j \in 1..n : i < j => ~CompareId(t[j], t[i])
<1> DEFINE Bad == {k \in 0..n : ~ \E t \in Arrangements(s) : SortedUpTo(t, 1..n, k)}
<1>1. CASE Bad = {}
  <2>0. n \in 0..n
    OBVIOUS
  <2>1. PICK t \in Arrangements(s) : SortedUpTo(t, 1..n, n)
    BY <1>1, <2>0
  <2>2. \A i, j \in 1..n : i < j => ~CompareId(t[j], t[i])
    BY <2>1 DEF SortedUpTo
  <2> QED  BY <2>2
<1>2. CASE Bad # {}
  <2>1. PICK k \in Bad : \A m \in Bad : k <= m
    <3>1. Bad \in SUBSET Nat
      OBVIOUS
    <3> HIDE DEF Bad
    <3> QED  BY <3>1, <1>2, Smallest
  <2>2. k # 0
    <3>1. s \in Arrangements(s)
      BY ArrangementRefl
    <3>2. SortedUpTo(s, 1..n, 0)
      BY DEF SortedUpTo
    <3> QED  BY <3>1, <3>2, <2>1
  <2>3. k - 1 \in 0..n /\ ~(k - 1 \in Bad)
    BY <2>1, <2>2
  <2>4. PICK t \in Arrangements(s) : SortedUpTo(t, 1..n, k - 1)
    BY <2>3
  <2>5. t \in [1..n -> IdentInfo]
    BY <2>4, ArrangementType
  <2>6. k - 1 \in Nat /\ k - 1 < n /\ (k - 1) + 1 = k
    BY <2>1, <2>3
  <2>7. PICK u \in Arrangements(t) : SortedUpTo(u, 1..n, (k - 1) + 1)
    <3> HIDE DEF Bad
    <3> QED  BY <2>4, <2>5, <2>6, SelectNext
  <2>8. u \in Arrangements(s)
    BY <2>4, <2>7, ArrangementTrans
  <2> QED  BY <2>1, <2>6, <2>7, <2>8
<1> QED  BY <1>1, <1>2

\* A tuple has the identifiers of its object.
LEMMA IntoTupleType ==
  ASSUME NEW mode, NEW n \in Nat, NEW s \in [1..n -> IdentInfo]
  PROVE  /\ IntoTuple(mode, s) \in Arrangements(s)
         /\ IntoTuple(mode, s) \in [1..n -> IdentInfo]
<1>1. PICK t \in Arrangements(s) : \A i, j \in 1..n : i < j => ~CompareId(t[j], t[i])
  BY SortExists
<1>2. DOMAIN t = 1..n
  BY ArrangementType
<1>3. s \in Arrangements(s)
  BY ArrangementRefl
<1>4. IntoTuple(mode, s) \in Arrangements(s)
  <2>1. CASE mode = "IDMODE_LISTS"
    BY <2>1, <1>3 DEF IntoTuple
  <2>2. CASE mode # "IDMODE_LISTS"
    <3>1. \E u \in Arrangements(s) : \A i, j \in DOMAIN u : i < j => ~CompareId(u[j], u[i])
      BY <1>1, <1>2
    <3> QED  BY <2>2, <3>1 DEF IntoTuple
  <2> QED  BY <2>1, <2>2
<1> QED  BY <1>4, ArrangementType

(* and what sorting yields does not depend on the order of the commands.     *)
LEMMA IntoTupleSame ==
  ASSUME NEW mode, mode # "IDMODE_LISTS", NEW D, NEW X, NEW s \in [D -> X], NEW t \in Arrangements(s)
  PROVE  IntoTuple(mode, s) = IntoTuple(mode, t)
<1>1. Arrangements(s) = Arrangements(t)
  BY ArrangementsSame
<1> DEFINE A == Arrangements(t)
<1>2. IntoTuple(mode, s) = CHOOSE u \in A : \A i, j \in DOMAIN u : i < j => ~CompareId(u[j], u[i])
  BY <1>1 DEF IntoTuple
<1>3. IntoTuple(mode, t) = CHOOSE u \in A : \A i, j \in DOMAIN u : i < j => ~CompareId(u[j], u[i])
  BY DEF IntoTuple
<1> QED  BY <1>2, <1>3

-------------------------------------------------------------------------------
(* The order of the tuples.                                                  *)

IsKey(k) == k[0] \in Nat /\ k \in [0..(2 * k[0] + 1) -> Nat]

LEMMA KeyFacts ==
  ASSUME NEW n \in Nat, NEW s \in [1..n -> IdentInfo], NEW type \in Nat
  PROVE  /\ IsKey(Key(s, type)) /\ Key(s, type)[0] = n
         /\ Key(s, type)[2 * n + 1] = type
         /\ \A k \in 1..n : Key(s, type)[k] = s[k].typeId /\ Key(s, type)[n + k] = s[k].id
<1>1. Len(s) = n
  OBVIOUS
<1>2. \A k \in 1..n : s[k].typeId \in Nat /\ s[k].id \in Nat
  BY DEF IdentInfo, ID_OBJECT, ID_NUMBER, ID_STRING
<1>3. Key(s, type) = [k \in 0..(2 * n + 1) |-> IF k = 0 THEN n
                                              ELSE IF k <= n THEN s[k].typeId
                                              ELSE IF k <= 2 * n THEN s[k - n].id ELSE type]
  BY <1>1 DEF Key
<1> DEFINE key == [k \in 0..(2 * n + 1) |-> IF k = 0 THEN n
                                            ELSE IF k <= n THEN s[k].typeId
                                            ELSE IF k <= 2 * n THEN s[k - n].id ELSE type]
<1>4. \A k \in 0..(2 * n + 1) : key[k] \in Nat
  BY <1>2
<1>5. key[0] = n /\ key[2 * n + 1] = type
  OBVIOUS
<1>6. ASSUME NEW k \in 1..n  PROVE key[k] = s[k].typeId /\ key[n + k] = s[k].id
  <2>1. k \in 0..(2 * n + 1) /\ n + k \in 0..(2 * n + 1) /\ n + k # 0 /\ ~(n + k <= n) /\ n + k <= 2 * n /\ (n + k) - n = k
    OBVIOUS
  <2> QED  BY <2>1
<1>7. key \in [0..(2 * n + 1) -> Nat]
  BY <1>4
<1> HIDE DEF key
<1>8. Key(s, type) = key
  BY <1>3 DEF key
<1> QED  BY <1>5, <1>6, <1>7, <1>8 DEF IsKey

(* The first number of a key is the length: nothing of the tuple is lost.    *)
LEMMA KeyInjective ==
  ASSUME NEW m \in Nat, NEW s \in [1..m -> IdentInfo], NEW a \in Nat,
         NEW n \in Nat, NEW t \in [1..n -> IdentInfo], NEW b \in Nat,
         Key(s, a) = Key(t, b)
  PROVE  s = t /\ a = b
<1>0. Key(s, a)[0] = m /\ Key(t, b)[0] = n
  BY KeyFacts
<1>1. m = n
  BY <1>0
<1>a. /\ Key(s, a)[2 * m + 1] = a
      /\ \A k \in 1..m : Key(s, a)[k] = s[k].typeId /\ Key(s, a)[m + k] = s[k].id
  BY KeyFacts
<1>b. /\ Key(t, b)[2 * n + 1] = b
      /\ \A k \in 1..n : Key(t, b)[k] = t[k].typeId /\ Key(t, b)[n + k] = t[k].id
  BY KeyFacts
<1>2. a = b
  BY <1>1, <1>a, <1>b
<1>3. ASSUME NEW k \in 1..n  PROVE s[k] = t[k]
  <2>1. s[k].typeId = t[k].typeId /\ s[k].id = t[k].id
    BY <1>1, <1>a, <1>b
  <2>2. s[k] \in IdentInfo /\ t[k] \in IdentInfo
    BY <1>1
  <2>3. s[k] = [typeId |-> s[k].typeId, id |-> s[k].id] /\ t[k] = [typeId |-> t[k].typeId, id |-> t[k].id]
    BY <2>2 DEF IdentInfo
  <2> QED  BY <2>1, <2>3
<1> QED  BY <1>1, <1>2, <1>3

LEMMA TupleOrderIrreflexive ==
  ASSUME NEW k, IsKey(k)
  PROVE  ~TupleOrder(k, k)
BY DEF TupleOrder, IsKey

LEMMA TupleOrderTransitive ==
  ASSUME NEW r, NEW s, NEW t, IsKey(r), IsKey(s), IsKey(t), TupleOrder(r, s), TupleOrder(s, t)
  PROVE  TupleOrder(r, t)
<1>1. PICK i \in DOMAIN r \cap DOMAIN s : r[i] < s[i] /\ \A j \in DOMAIN r : j < i => r[j] = s[j]
  BY DEF TupleOrder
<1>2. PICK k \in DOMAIN s \cap DOMAIN t : s[k] < t[k] /\ \A j \in DOMAIN s : j < k => s[j] = t[j]
  BY DEF TupleOrder
<1>3. /\ \A n \in DOMAIN r : n \in Nat /\ r[n] \in Nat /\ \A m \in Nat : m <= n => m \in DOMAIN r
      /\ \A n \in DOMAIN s : n \in Nat /\ s[n] \in Nat /\ \A m \in Nat : m <= n => m \in DOMAIN s
      /\ \A n \in DOMAIN t : n \in Nat /\ t[n] \in Nat /\ \A m \in Nat : m <= n => m \in DOMAIN t
  <2>1. ASSUME NEW u, IsKey(u)
        PROVE  \A n \in DOMAIN u : n \in Nat /\ u[n] \in Nat /\ \A m \in Nat : m <= n => m \in DOMAIN u
    <3> DEFINE z == 2 * u[0] + 1
    <3>1. u \in [0..z -> Nat] /\ z \in Nat
      BY <2>1 DEF IsKey
    <3> HIDE DEF z
    <3> QED  BY <3>1
  <2> QED  BY <2>1
<1>4. CASE i < k
  <2>1. s[i] = t[i] /\ i \in DOMAIN t
    BY <1>1, <1>2, <1>3, <1>4
  <2>2. \A j \in DOMAIN r : j < i => r[j] = t[j]
    BY <1>1, <1>2, <1>3, <1>4
  <2> QED  BY <2>1, <2>2, <1>1 DEF TupleOrder
<1>5. CASE i = k
  <2>2. \A j \in DOMAIN r : j < i => r[j] = t[j]
    BY <1>1, <1>2, <1>3, <1>5
  <2>3. r[i] < t[i]
    BY <1>1, <1>2, <1>3, <1>5
  <2> QED  BY <2>2, <2>3, <1>1, <1>2, <1>5 DEF TupleOrder
<1>6. CASE k < i
  <2>1. r[k] = s[k] /\ k \in DOMAIN r
    BY <1>1, <1>2, <1>3, <1>6
  <2>2. \A j \in DOMAIN r : j < k => r[j] = t[j]
    BY <1>1, <1>2, <1>3, <1>6
  <2> QED  BY <2>1, <2>2, <1>2 DEF TupleOrder
<1> QED  BY <1>1, <1>2, <1>3, <1>4, <1>5, <1>6

LEMMA TupleOrderTotal ==
  ASSUME NEW s, NEW t, IsKey(s), IsKey(t), s # t
  PROVE  TupleOrder(s, t) \/ TupleOrder(t, s)
<1>1. 0 \in DOMAIN s /\ 0 \in DOMAIN t /\ s[0] \in Nat /\ t[0] \in Nat
  BY DEF IsKey
<1>2. CASE s[0] # t[0]
  <2>1. \A j : (j \in DOMAIN s \/ j \in DOMAIN t) => ~(j < 0)
    BY DEF IsKey
  <2>2. s[0] < t[0] \/ t[0] < s[0]
    BY <1>1, <1>2
  <2> QED  BY <1>1, <2>1, <2>2 DEF TupleOrder
<1>3. CASE s[0] = t[0]
  <2> DEFINE D == 0..(2 * s[0] + 1)
             Diff == {i \in D : s[i] # t[i]}
  <2>1. s \in [D -> Nat] /\ t \in [D -> Nat] /\ D \subseteq Nat
    BY <1>3 DEF IsKey
  <2> HIDE DEF D
  <2>2. Diff # {}
    BY <2>1
  <2>3. PICK i \in Diff : \A m \in Diff : i <= m
    <3>1. Diff \in SUBSET Nat
      BY <2>1
    <3> HIDE DEF Diff
    <3> QED  BY <3>1, <2>2, Smallest
  <2>4. i \in D /\ i \in Nat /\ (s[i] < t[i] \/ t[i] < s[i])
    BY <2>1, <2>3
  <2>5. \A j \in D : j < i => s[j] = t[j]
    BY <2>1, <2>3
  <2> QED  BY <2>1, <2>4, <2>5 DEF TupleOrder
<1> QED  BY <1>2, <1>3

\* The places in a level.
(* Counting the smaller keys gives equal places to equal keys only.          *)
LEMMA Ranks ==
  ASSUME NEW L, IsFiniteSet(L), NEW keys, \A x \in L : IsKey(keys[x])
  PROVE  LET Before(x) == {y \in L : TupleOrder(keys[y], keys[x])}
         IN  \A x \in L :
               /\ Cardinality(Before(x)) \in Nat /\ Cardinality(L) \in Nat
               /\ Cardinality(Before(x)) < Cardinality(L)
               /\ \A y \in L : Cardinality(Before(x)) = Cardinality(Before(y)) => keys[x] = keys[y]
<1> DEFINE Before(x) == {y \in L : TupleOrder(keys[y], keys[x])}
<1>1. \A x \in L : x \in L /\ ~(x \in Before(x))
  BY TupleOrderIrreflexive
<1>2. ASSUME NEW x \in L  PROVE IsFiniteSet(Before(x)) /\ Cardinality(Before(x)) \in Nat /\ Cardinality(L) \in Nat
  <2>1. Before(x) \subseteq L
    OBVIOUS
  <2> HIDE DEF Before
  <2> QED  BY <2>1, FS_Subset, FS_CardinalityType
<1>3. ASSUME NEW A, NEW B, IsFiniteSet(B), A \subseteq B, A # B  PROVE Cardinality(A) < Cardinality(B)
  <2>1. Cardinality(A) <= Cardinality(B) /\ IsFiniteSet(A) /\ (Cardinality(A) = Cardinality(B) => A = B)
    BY <1>3, FS_Subset
  <2> QED  BY <2>1, <1>3, FS_CardinalityType
<1>4. ASSUME NEW x \in L  PROVE Cardinality(Before(x)) < Cardinality(L)
  <2>1. Before(x) \subseteq L /\ Before(x) # L
    BY <1>1
  <2> HIDE DEF Before
  <2> QED  BY <2>1, <1>3
<1>5. ASSUME NEW x \in L, NEW y \in L, TupleOrder(keys[x], keys[y])
      PROVE  Cardinality(Before(x)) < Cardinality(Before(y))
  <2>1. \A z \in Before(x) : z \in Before(y)
    BY <1>5, TupleOrderTransitive
  <2>2. x \in Before(y) /\ ~(x \in Before(x))
    BY <1>5, <1>1
  <2>3. Before(x) \subseteq Before(y) /\ Before(x) # Before(y) /\ IsFiniteSet(Before(y))
    BY <2>1, <2>2, <1>2
  <2> HIDE DEF Before
  <2> QED  BY <2>3, <1>3
<1>6. ASSUME NEW x \in L, NEW y \in L, Cardinality(Before(x)) = Cardinality(Before(y))
      PROVE  keys[x] = keys[y]
  <2> HIDE DEF Before
  <2>1. ~TupleOrder(keys[x], keys[y]) /\ ~TupleOrder(keys[y], keys[x])
    BY <1>2, <1>5, <1>6
  <2> QED  BY <2>1, TupleOrderTotal
<1> QED  BY <1>2, <1>4, <1>6

-------------------------------------------------------------------------------
(* The tuples of p and q in their n-th identification.                       *)

\* The objects their identifiers may name.
Common(p, q, n) == {y \in Obj : {p, q} \subseteq Owners[y] /\ Session[y] <= n}

Idents(p, q, n) ==
  {i \in {ID_OBJECT, ID_NUMBER, ID_STRING} \X (Nat \cup Obj) :
     IF i[1] = ID_OBJECT THEN i[2] \in Common(p, q, n) ELSE i[2] \in Nat}

\* Global ids that tell the objects apart, and are those of final for the
\* objects of earlier identifications.
Fits(p, q, n, final, gids) ==
  /\ gids \in [Obj -> Nat]
  /\ \A y, z \in Common(p, q, n) : gids[y] = gids[z] => y = z
  /\ \A y \in Common(p, q, n) : gids[y] >= GidBase
  /\ \A y \in Common(p, q, n) : Session[y] < n => gids[y] = final[y]

\* What an identifier becomes when the objects of table have got their places.
Item(table, gids, i) ==
  IF i[1] = ID_OBJECT /\ i[2] \in DOMAIN table
  THEN [typeId |-> ID_OBJECT, id |-> table[i[2]]]
  ELSE [typeId |-> i[1], id |-> IF i[1] = ID_OBJECT THEN gids[i[2]] ELSE i[2]]

Items(table, gids, s) == [k \in DOMAIN s |-> Item(table, gids, s[k])]

IsTable(t, S) == /\ DOMAIN t \subseteq S /\ t \in [DOMAIN t -> Nat]
                 /\ \A x \in DOMAIN t : t[x] < Cardinality(DOMAIN t)

Ready(S, t) == {x \in S \ DOMAIN t : KnownBy(x) \subseteq DOMAIN t}

KeyOf(mode, final, t, x) == Key(IntoTuple(mode, Items(t, final, Identifiers[x])), TypeOf[x])

\* The next table, in terms of the identifiers that the program gives.
NextOf(mode, S, final, t) ==
  [x \in DOMAIN t \cup Ready(S, t) |->
     IF x \in DOMAIN t THEN t[x]
     ELSE Cardinality(DOMAIN t) + Cardinality({y \in Ready(S, t) :
            TupleOrder(KeyOf(mode, final, t, y), KeyOf(mode, final, t, x))})]

Names(s, y) == \E k \in DOMAIN s : s[k] = <<ID_OBJECT, y>>

LEMMA DepthFacts ==
  ASSUME NEW x \in Obj
  PROVE  Depth[x] \in Nat /\ \A y \in KnownBy(x) : Depth[y] < Depth[x]
<1>1. Contract
  BY ContractKept
<1>2. Depth[x] \in 0..MaxLoi /\ \A y \in KnownBy(x) : Depth[y] < Depth[x]
  BY <1>1, Zenon DEF Contract
<1> QED  BY <1>2 DEF MaxLoi

LEMMA ObjFacts ==
  ASSUME NEW x \in Obj
  PROVE  /\ Owners[x] \subseteq Proc /\ TypeOf[x] \in Nat /\ Session[x] \in Nat
         /\ Session[x] >= 1 /\ Session[x] <= Sessions
         /\ Len(Identifiers[x]) \in Nat /\ Len(Identifiers[x]) >= 1
         /\ Identifiers[x] \in [1..Len(Identifiers[x]) ->
                                  {ID_OBJECT, ID_NUMBER, ID_STRING} \X (Nat \cup Obj)]
         /\ \A k \in 1..Len(Identifiers[x]) :
              LET i == Identifiers[x][k]
              IN  \/ i[1] \in {ID_NUMBER, ID_STRING} /\ i[2] \in Nat
                  \/ i[1] = ID_OBJECT /\ i[2] \in Obj /\ Owners[x] \subseteq Owners[i[2]]
                       /\ Session[i[2]] <= Session[x]
<1>1. Identifiers[x] \in Seq({ID_OBJECT, ID_NUMBER, ID_STRING} \X (Nat \cup Obj))
  BY IdentAssumption
<1>2. Len(Identifiers[x]) \in 1..MaxTuple /\
       \A n \in DOMAIN Identifiers[x] :
         LET i == Identifiers[x][n]
         IN  \/ i[1] \in {ID_NUMBER, ID_STRING} /\ i[2] \in Nat
             \/ i[1] = ID_OBJECT /\ i[2] \in Obj /\ Owners[x] \subseteq Owners[i[2]]
                  /\ Session[i[2]] <= Session[x]
  <2>1. Contract
    BY ContractKept
  <2> QED  BY <2>1, Zenon DEF Contract
<1>3. DOMAIN Identifiers[x] = 1..Len(Identifiers[x])
  BY <1>1
<1>4. Len(Identifiers[x]) \in Nat
  BY <1>1
<1>5. Session[x] \in 1..Sessions /\ Sessions \in Nat /\ Owners[x] \subseteq Proc /\ TypeOf[x] \in Nat
  BY IdentAssumption
<1>6. Identifiers[x] \in [1..Len(Identifiers[x]) ->
                             {ID_OBJECT, ID_NUMBER, ID_STRING} \X (Nat \cup Obj)]
  BY <1>1
<1>7. Len(Identifiers[x]) \in 1..MaxTuple
  BY <1>2, Zenon
<1>8. \A n \in 1..MaxTuple : n >= 1
  BY DEF MaxTuple
<1>9. Len(Identifiers[x]) >= 1
  BY <1>7, <1>8, Zenon
<1> QED  BY <1>2, <1>3, <1>4, <1>5, <1>6, <1>9

LEMMA SharedFacts ==
  ASSUME NEW p, NEW q, NEW n \in Nat
  PROVE  /\ Shared(p, q, n) \subseteq Common(p, q, n) /\ Common(p, q, n) \subseteq Obj
         /\ \A x \in Shared(p, q, n) : Session[x] = n /\ p # q /\ {p, q} \subseteq Owners[x]
         /\ IsFiniteSet(Shared(p, q, n)) /\ Cardinality(Shared(p, q, n)) \in Nat
         /\ Cardinality(Shared(p, q, n)) < GidBase /\ GidBase \in Nat
         /\ Shared(p, q, n) = Shared(q, p, n) /\ Common(p, q, n) = Common(q, p, n)
<1>1. Shared(p, q, n) \subseteq Common(p, q, n) /\ Common(p, q, n) \subseteq Obj
  BY ObjFacts DEF Shared, Common, Partners
<1>2. \A x \in Shared(p, q, n) : Session[x] = n /\ p # q /\ {p, q} \subseteq Owners[x]
  BY DEF Shared, Partners
<1>3. IsFiniteSet(Obj) /\ GidBase \in Nat /\ GidBase > Cardinality(Obj)
  BY IdentAssumption
<1>4. IsFiniteSet(Shared(p, q, n)) /\ Cardinality(Shared(p, q, n)) <= Cardinality(Obj)
  BY <1>1, <1>3, FS_Subset
<1>5. Cardinality(Shared(p, q, n)) \in Nat /\ Cardinality(Obj) \in Nat
  BY <1>3, <1>4, FS_CardinalityType
<1>6. Shared(p, q, n) = Shared(q, p, n) /\ Common(p, q, n) = Common(q, p, n)
  BY DEF Shared, Common, Partners
<1>7. Cardinality(Shared(p, q, n)) < GidBase
  BY <1>3, <1>4, <1>5
<1> QED  BY <1>1, <1>2, <1>3, <1>4, <1>5, <1>6, <1>7

\* The identifiers of a tuple, in whichever order the program gives them.
LEMMA GivenFacts ==
  ASSUME NEW p, NEW q, NEW n \in Nat, NEW x \in Shared(p, q, n), NEW order \in {"agreed", "reverse"}
  PROVE  /\ Identifiers[x] \in [1..Len(Identifiers[x]) -> Idents(p, q, n)]
         /\ Given(x, order) \in [1..Len(Identifiers[x]) -> Idents(p, q, n)]
         /\ Given(x, order) \in Arrangements(Identifiers[x])
         /\ order = "agreed" => Given(x, order) = Identifiers[x]
         /\ \A y : y \in KnownBy(x) <=> y \in Shared(p, q, n) /\ Names(Given(x, order), y)
         /\ \A k \in 1..Len(Identifiers[x]) :
              Given(x, order)[k][1] = ID_OBJECT /\ ~(Given(x, order)[k][2] \in KnownBy(x))
                => Session[Given(x, order)[k][2]] < n
<1> DEFINE ids == Identifiers[x]
           D == 1..Len(ids)
<1>1. x \in Obj /\ Session[x] = n /\ p \in Owners[x] /\ q \in Owners[x] /\ p # q
  BY DEF Shared, Partners
<1>2. Len(ids) \in Nat /\ DOMAIN ids = D
  BY <1>1, ObjFacts
<1>3. ASSUME NEW k \in D
      PROVE  /\ ids[k] \in Idents(p, q, n)
             /\ ids[k][1] = ID_OBJECT => /\ ids[k] = <<ID_OBJECT, ids[k][2]>>
                                         /\ ids[k][2] \in Common(p, q, n)
                                         /\ Session[ids[k][2]] <= n
                                         /\ Session[ids[k][2]] \in Nat
  <2>1. \/ ids[k][1] \in {ID_NUMBER, ID_STRING} /\ ids[k][2] \in Nat
        \/ ids[k][1] = ID_OBJECT /\ ids[k][2] \in Obj /\ Owners[x] \subseteq Owners[ids[k][2]]
              /\ Session[ids[k][2]] <= Session[x]
    BY <1>1, ObjFacts
  <2>2. ids[k] \in {ID_OBJECT, ID_NUMBER, ID_STRING} \X (Nat \cup Obj)
    BY <1>1, ObjFacts
  <2>3. ids[k] = <<ids[k][1], ids[k][2]>>
    BY <2>2
  <2>4. ID_OBJECT # ID_NUMBER /\ ID_OBJECT # ID_STRING
    BY DEF ID_OBJECT, ID_NUMBER, ID_STRING
  <2>5. ids[k][1] = ID_OBJECT => ids[k][2] \in Common(p, q, n) /\ Session[ids[k][2]] <= n
                                 /\ Session[ids[k][2]] \in Nat
    BY <2>1, <2>4, <1>1, ObjFacts DEF Common
  <2>6. ids[k][1] # ID_OBJECT => ids[k][2] \in Nat
    BY <2>1
  <2> QED  BY <2>2, <2>3, <2>5, <2>6 DEF Idents
<1> DEFINE f == [k \in D |-> IF order = "agreed" THEN k ELSE Len(ids) + 1 - k]
<1>4. f \in [D -> D] /\ \A k \in D : f[k] \in D /\ f[f[k]] = k
  BY <1>2
<1>5. Permutes(f, D)
  <2> HIDE DEF f, D
  <2>1. \A i, j \in D : f[i] = f[j] => i = j
    BY <1>4
  <2>2. \A j \in D : \E i \in D : f[i] = j
    BY <1>4
  <2> QED  BY <1>4, <2>1, <2>2 DEF Permutes
<1>6. Given(x, order) = [k \in D |-> ids[f[k]]]
  BY <1>2 DEF Given
<1> HIDE DEF f
<1>7. Given(x, order) \in Arrangements(ids)
  BY <1>2, <1>5, <1>6, ArrangementIs
<1>8. ids \in [D -> Idents(p, q, n)]
  <2>1. ids = [k \in D |-> ids[k]]
    BY <1>1, ObjFacts
  <2> QED  BY <2>1, <1>3
<1>9. Given(x, order) \in [D -> Idents(p, q, n)]
  BY <1>4, <1>6, <1>8
<1>10. order = "agreed" => Given(x, order) = ids
  BY <1>2, <1>8 DEF Given
<1>11. \A k \in D : Given(x, order)[k] = ids[f[k]] /\ f[k] \in D
  BY <1>4, <1>6
<1>12. KnownBy(x) = {y \in Obj : Session[y] = n /\ \E k \in D : ids[k] = <<ID_OBJECT, y>>}
  BY <1>1, <1>2 DEF KnownBy
<1>13. ASSUME NEW y \in Obj, Session[y] = n, NEW k \in D, ids[k] = <<ID_OBJECT, y>>
       PROVE  y \in Shared(p, q, n) /\ \E j \in D : Given(x, order)[j] = <<ID_OBJECT, y>>
  <2>1. y \in Common(p, q, n)
    BY <1>3, <1>13
  <2>2. y \in Shared(p, q, n)
    BY <2>1, <1>1, <1>13 DEF Common, Shared, Partners
  <2>3. Given(x, order)[f[k]] = <<ID_OBJECT, y>> /\ f[k] \in D
    BY <1>4, <1>11, <1>13
  <2> QED  BY <2>2, <2>3
<1>14. ASSUME NEW y \in Shared(p, q, n), NEW k \in D, Given(x, order)[k] = <<ID_OBJECT, y>>
       PROVE  y \in Obj /\ Session[y] = n /\ ids[f[k]] = <<ID_OBJECT, y>> /\ f[k] \in D
  BY <1>11, <1>14 DEF Shared
<1>15. \A y : y \in KnownBy(x) <=> y \in Shared(p, q, n) /\ Names(Given(x, order), y)
  <2>1. DOMAIN Given(x, order) = D
    BY <1>9
  <2> QED  BY <2>1, <1>12, <1>13, <1>14 DEF Names
<1>16. ASSUME NEW k \in D, Given(x, order)[k][1] = ID_OBJECT, ~(Given(x, order)[k][2] \in KnownBy(x))
       PROVE  Session[Given(x, order)[k][2]] < n
  <2> DEFINE y == ids[f[k]][2]
  <2>1. f[k] \in D /\ Given(x, order)[k] = ids[f[k]]
    BY <1>11
  <2>2. ids[f[k]] = <<ID_OBJECT, y>> /\ y \in Common(p, q, n) /\ Session[y] <= n /\ Session[y] \in Nat
    BY <2>1, <1>3, <1>16
  <2>3. Session[y] # n
    BY <2>1, <2>2, <1>12, <1>16 DEF Common
  <2> QED  BY <2>1, <2>2, <2>3
<1> QED  BY <1>7, <1>8, <1>9, <1>10, <1>15, <1>16

\* Only the entry with y's global id refers to y.
(* The entries of the commands, in terms of the identifiers themselves.      *)
LEMMA EntryFacts ==
  ASSUME NEW p, NEW q, NEW n \in Nat, NEW final, NEW gids, Fits(p, q, n, final, gids),
         NEW order \in {"agreed", "reverse"}, NEW x \in Shared(p, q, n)
  PROVE  LET E == IdentifyIdEntry(Shared(p, q, n), gids, order)
         IN  /\ DOMAIN E = Shared(p, q, n) /\ E[x].gid = gids[x]
             /\ DOMAIN E[x].ids = 1..Len(Identifiers[x])
             /\ \A k \in 1..Len(Identifiers[x]), y \in Shared(p, q, n) :
                  Means(E, E[x].ids[k], y) <=> Given(x, order)[k] = <<ID_OBJECT, y>>
             /\ References(E, x) = KnownBy(x)
             /\ \A t : DOMAIN t \subseteq Shared(p, q, n) =>
                  [k \in DOMAIN E[x].ids |-> Resolved(E, t, E[x].ids[k])]
                    = Items(t, gids, Given(x, order))
<1> DEFINE S == Shared(p, q, n)
           E == IdentifyIdEntry(S, gids, order)
           D == 1..Len(Identifiers[x])
           g == Given(x, order)
<1>1. g \in [D -> Idents(p, q, n)]
  BY GivenFacts
<1>2. /\ DOMAIN E = S
      /\ \A y \in S : E[y].gid = gids[y]
      /\ E[x].ids = [k \in DOMAIN g |-> [typeId |-> g[k][1], id |-> IF g[k][1] = ID_OBJECT THEN gids[g[k][2]] ELSE g[k][2]]]
  BY DEF IdentifyIdEntry
<1>3. DOMAIN g = D
  BY <1>1
<1>4. \A k \in D : E[x].ids[k] = [typeId |-> g[k][1], id |-> IF g[k][1] = ID_OBJECT THEN gids[g[k][2]] ELSE g[k][2]]
  BY <1>2, <1>3
<1>a. S \subseteq Common(p, q, n)
  BY SharedFacts
<1>b. \A k \in D : g[k] = <<g[k][1], g[k][2]>> /\ (g[k][1] = ID_OBJECT => g[k][2] \in Common(p, q, n))
  <2> TAKE k \in D
  <2>1. g[k] \in Idents(p, q, n)
    BY <1>1
  <2> QED  BY <2>1 DEF Idents
<1>c. \A y : y \in KnownBy(x) <=> y \in S /\ \E k \in D : g[k] = <<ID_OBJECT, y>>
  <2>1. \A y : y \in KnownBy(x) <=> y \in Shared(p, q, n) /\ Names(Given(x, order), y)
    BY GivenFacts
  <2> QED  BY <2>1, <1>3 DEF Names
<1> HIDE DEF E, g, D, S
<1>5. ASSUME NEW k \in D, NEW y \in S
      PROVE  Means(E, E[x].ids[k], y) <=> g[k] = <<ID_OBJECT, y>>
  <2>1. Means(E, E[x].ids[k], y) <=> E[x].ids[k] = [typeId |-> ID_OBJECT, id |-> gids[y]]
    BY <1>2 DEF Means
  <2>2. CASE g[k] = <<ID_OBJECT, y>>
    <3>1. g[k][1] = ID_OBJECT /\ g[k][2] = y
      BY <2>2
    <3> QED  BY <2>1, <2>2, <3>1, <1>4
  <2>3. CASE Means(E, E[x].ids[k], y)
    <3> DEFINE id == IF g[k][1] = ID_OBJECT THEN gids[g[k][2]] ELSE g[k][2]
    <3>a. [typeId |-> g[k][1], id |-> id] = [typeId |-> ID_OBJECT, id |-> gids[y]]
      BY <2>1, <2>3, <1>4
    <3>1. g[k][1] = ID_OBJECT
      <4>1. [typeId |-> g[k][1], id |-> id].typeId = [typeId |-> ID_OBJECT, id |-> gids[y]].typeId
        BY <3>a
      <4> QED  BY <4>1
    <3>2. gids[g[k][2]] = gids[y]
      <4>1. [typeId |-> g[k][1], id |-> id].id = [typeId |-> ID_OBJECT, id |-> gids[y]].id
        BY <3>a
      <4> QED  BY <4>1, <3>1
    <3>3. g[k][2] = y
      BY <3>1, <3>2, <1>a, <1>b DEF Fits
    <3>4. g[k] = <<g[k][1], g[k][2]>>
      BY <1>b
    <3> QED  BY <2>3, <3>1, <3>3, <3>4
  <2> QED  BY <2>2, <2>3
<1>6. References(E, x) = KnownBy(x)
  <2>1. References(E, x) = {y \in S : \E k \in D : Means(E, E[x].ids[k], y)}
    BY <1>2, <1>3 DEF References
  <2> QED  BY <2>1, <1>c, <1>5
<1>7. ASSUME NEW t, DOMAIN t \subseteq S
      PROVE  [k \in DOMAIN E[x].ids |-> Resolved(E, t, E[x].ids[k])] = Items(t, gids, g)
  <2>1. ASSUME NEW k \in D
        PROVE  Resolved(E, t, E[x].ids[k]) = Item(t, gids, g[k])
    <3>1. CASE g[k][1] = ID_OBJECT /\ g[k][2] \in DOMAIN t
      <4>1. \A y \in DOMAIN t : Means(E, E[x].ids[k], y) <=> y = g[k][2]
        BY <3>1, <1>5, <1>7, <1>b
      <4>2. (CHOOSE y \in DOMAIN t : Means(E, E[x].ids[k], y)) = g[k][2]
        BY <3>1, <4>1
      <4> QED  BY <3>1, <4>1, <4>2 DEF Resolved, Item
    <3>2. CASE ~(g[k][1] = ID_OBJECT /\ g[k][2] \in DOMAIN t)
      <4>1. \A y \in DOMAIN t : ~Means(E, E[x].ids[k], y)
        BY <3>2, <1>5, <1>7
      <4> QED  BY <3>2, <4>1, <1>4 DEF Resolved, Item
    <3> QED  BY <3>1, <3>2
  <2>2. DOMAIN E[x].ids = D
    BY <1>2, <1>3
  <2> QED  BY <2>1, <2>2, <1>3 DEF Items
<1>8. DOMAIN E[x].ids = D /\ E[x].gid = gids[x]
  BY <1>2, <1>3 DEF S
<1>9. DOMAIN E = S
  BY <1>2
<1> QED  BY <1>5, <1>6, <1>7, <1>8, <1>9 DEF E, g, D, S

-------------------------------------------------------------------------------
(* Sorting does not depend on the global ids of the objects that are being   *)
(* identified, nor, if it does not count, on the order of the commands.      *)

LEMMA ItemTypes ==
  ASSUME NEW p, NEW q, NEW n \in Nat, NEW final, NEW gids, Fits(p, q, n, final, gids),
         NEW t, IsTable(t, Shared(p, q, n)), NEW i \in Idents(p, q, n)
  PROVE  Item(t, gids, i) \in IdentInfo
<1>1. /\ i[1] \in {ID_OBJECT, ID_NUMBER, ID_STRING}
      /\ i[1] = ID_OBJECT => i[2] \in Common(p, q, n)
      /\ i[1] # ID_OBJECT => i[2] \in Nat
  BY DEF Idents
<1>2. \A y \in Common(p, q, n) : gids[y] \in Nat
  BY DEF Fits, Common
<1>3. \A y \in DOMAIN t : t[y] \in Nat
  BY DEF IsTable
<1>4. CASE i[1] = ID_OBJECT /\ i[2] \in DOMAIN t
  BY <1>1, <1>3, <1>4 DEF Item, IdentInfo
<1>5. CASE ~(i[1] = ID_OBJECT /\ i[2] \in DOMAIN t) /\ i[1] = ID_OBJECT
  BY <1>1, <1>2, <1>5 DEF Item, IdentInfo
<1>6. CASE i[1] # ID_OBJECT
  BY <1>1, <1>6 DEF Item, IdentInfo
<1> QED  BY <1>4, <1>5, <1>6

LEMMA KeyOfFacts ==
  ASSUME NEW mode, NEW p, NEW q, NEW n \in Nat, NEW final, Fits(p, q, n, final, final),
         NEW t, IsTable(t, Shared(p, q, n)), NEW x \in Shared(p, q, n)
  PROVE  /\ Items(t, final, Identifiers[x]) \in [1..Len(Identifiers[x]) -> IdentInfo]
         /\ IntoTuple(mode, Items(t, final, Identifiers[x])) \in [1..Len(Identifiers[x]) -> IdentInfo]
         /\ IntoTuple(mode, Items(t, final, Identifiers[x])) \in Arrangements(Items(t, final, Identifiers[x]))
         /\ IsKey(KeyOf(mode, final, t, x))
         /\ Len(Identifiers[x]) \in Nat /\ TypeOf[x] \in Nat
<1> DEFINE D == 1..Len(Identifiers[x])
           items == Items(t, final, Identifiers[x])
<1>0. x \in Obj /\ Len(Identifiers[x]) \in Nat /\ TypeOf[x] \in Nat
  BY ObjFacts DEF Shared
<1>1. "agreed" \in {"agreed", "reverse"} /\ Identifiers[x] \in [D -> Idents(p, q, n)]
  BY GivenFacts
<1>2. \A k \in D : Item(t, final, Identifiers[x][k]) \in IdentInfo
  BY <1>1, ItemTypes
<1>3. items \in [D -> IdentInfo]
  BY <1>1, <1>2 DEF Items
<1> HIDE DEF items
<1>4. IntoTuple(mode, items) \in [D -> IdentInfo] /\ IntoTuple(mode, items) \in Arrangements(items)
  BY <1>0, <1>3, IntoTupleType
<1>5. IsKey(Key(IntoTuple(mode, items), TypeOf[x]))
  BY <1>0, <1>4, KeyFacts
<1> QED  BY <1>0, <1>3, <1>4, <1>5 DEF KeyOf, items

(* A tuple is compared by places and final global ids only, ...              *)
LEMMA KeyIs ==
  ASSUME NEW mode, NEW p, NEW q, NEW n \in Nat,
         NEW final, NEW gids, Fits(p, q, n, final, final), Fits(p, q, n, final, gids),
         NEW order \in {"agreed", "reverse"}, mode = "IDMODE_LISTS" => order = "agreed",
         NEW t, IsTable(t, Shared(p, q, n)), NEW x \in Ready(Shared(p, q, n), t)
  PROVE  TupleKey(mode, IdentifyIdEntry(Shared(p, q, n), gids, order), t, x) = KeyOf(mode, final, t, x)
<1> DEFINE S == Shared(p, q, n)
           E == IdentifyIdEntry(S, gids, order)
           D == 1..Len(Identifiers[x])
           g == Given(x, order)
           ids == Identifiers[x]
<1>1. x \in S /\ KnownBy(x) \subseteq DOMAIN t /\ DOMAIN t \subseteq S
  BY DEF Ready, IsTable
<1>2. /\ ids \in [D -> Idents(p, q, n)] /\ g \in [D -> Idents(p, q, n)]
      /\ g \in Arrangements(ids)
      /\ order = "agreed" => g = ids
      /\ \A k \in D : g[k][1] = ID_OBJECT /\ ~(g[k][2] \in KnownBy(x)) => Session[g[k][2]] < n
  BY <1>1, GivenFacts
<1>3. [k \in DOMAIN E[x].ids |-> Resolved(E, t, E[x].ids[k])] = Items(t, gids, g)
  BY <1>1, EntryFacts
<1>4. TupleKey(mode, E, t, x) = Key(IntoTuple(mode, Items(t, gids, g)), TypeOf[x])
  BY <1>3 DEF TupleKey
<1>5. Items(t, gids, g) = Items(t, final, g)
  <2>1. ASSUME NEW k \in D  PROVE Item(t, gids, g[k]) = Item(t, final, g[k])
    <3>1. g[k] \in Idents(p, q, n)
      BY <1>2
    <3>2. CASE g[k][1] = ID_OBJECT /\ ~(g[k][2] \in DOMAIN t)
      <4>1. Session[g[k][2]] < n /\ g[k][2] \in Common(p, q, n)
        BY <3>1, <3>2, <1>1, <1>2 DEF Idents
      <4>2. gids[g[k][2]] = final[g[k][2]]
        BY <4>1 DEF Fits
      <4> QED  BY <3>2, <4>2 DEF Item
    <3>3. CASE ~(g[k][1] = ID_OBJECT /\ ~(g[k][2] \in DOMAIN t))
      BY <3>3 DEF Item
    <3> QED  BY <3>2, <3>3
  <2>2. DOMAIN g = D
    BY <1>2
  <2> QED  BY <2>1, <2>2 DEF Items
<1> DEFINE m == [i \in Idents(p, q, n) |-> Item(t, final, i)]
<1>6. m \in [Idents(p, q, n) -> IdentInfo]
  BY ItemTypes
<1>7. Items(t, final, g) \in Arrangements(Items(t, final, ids))
  <2>1. Mapped(m, g) = Items(t, final, g) /\ Mapped(m, ids) = Items(t, final, ids)
    BY <1>2 DEF Items, Mapped
  <2> HIDE DEF m, D, g, ids
  <2>2. Mapped(m, g) \in Arrangements(Mapped(m, ids))
    BY <1>2, <1>6, ArrangementMap
  <2> QED  BY <2>1, <2>2
<1>8. IntoTuple(mode, Items(t, final, g)) = IntoTuple(mode, Items(t, final, ids))
  <2>1. CASE mode = "IDMODE_LISTS"
    BY <2>1, <1>2
  <2>2. CASE mode # "IDMODE_LISTS"
    <3>1. Items(t, final, ids) \in [D -> IdentInfo]
      BY <1>1, KeyOfFacts
    <3> HIDE DEF D, g, ids
    <3> QED  BY <2>2, <3>1, <1>7, IntoTupleSame
  <2> QED  BY <2>1, <2>2
<1> QED  BY <1>4, <1>5, <1>8 DEF KeyOf

(* ... so the next level is the same with any global ids that fit.           *)
LEMMA NextIs ==
  ASSUME NEW mode, NEW p, NEW q, NEW n \in Nat,
         NEW final, NEW gids, Fits(p, q, n, final, final), Fits(p, q, n, final, gids),
         NEW order \in {"agreed", "reverse"}, mode = "IDMODE_LISTS" => order = "agreed",
         NEW t, IsTable(t, Shared(p, q, n))
  PROVE  NextTable(mode, IdentifyIdEntry(Shared(p, q, n), gids, order), t)
           = NextOf(mode, Shared(p, q, n), final, t)
<1> DEFINE S == Shared(p, q, n)
           E == IdentifyIdEntry(S, gids, order)
           R == Ready(S, t)
           keys == [x \in R |-> TupleKey(mode, E, t, x)]
<1>1. DOMAIN E = S
  BY DEF IdentifyIdEntry
<1>2. \A x \in S : References(E, x) = KnownBy(x)
  BY EntryFacts
<1>3. Level(E, t) = R
  <2> HIDE DEF E, S
  <2> QED  BY <1>1, <1>2 DEF Level, Ready
<1>4. \A x \in R : keys[x] = KeyOf(mode, final, t, x)
  <2>1. \A x \in R : TupleKey(mode, E, t, x) = KeyOf(mode, final, t, x)
    BY KeyIs
  <2> HIDE DEF R, E
  <2> QED  BY <2>1
<1>5. \A x \in R : {y \in R : TupleOrder(keys[y], keys[x])}
                 = {y \in R : TupleOrder(KeyOf(mode, final, t, y), KeyOf(mode, final, t, x))}
  <2> HIDE DEF keys, R
  <2> QED  BY <1>4
<1>6. NextTable(mode, E, t) = [x \in DOMAIN t \cup R |->
         IF x \in DOMAIN t THEN t[x]
         ELSE Cardinality(DOMAIN t) + Cardinality({y \in R : TupleOrder(keys[y], keys[x])})]
  <2> HIDE DEF E
  <2> QED  BY <1>3 DEF NextTable
<1>7. NextOf(mode, S, final, t) = [x \in DOMAIN t \cup R |->
         IF x \in DOMAIN t THEN t[x]
         ELSE Cardinality(DOMAIN t) + Cardinality({y \in R :
                TupleOrder(KeyOf(mode, final, t, y), KeyOf(mode, final, t, x))})]
  BY DEF NextOf
<1> HIDE DEF E, S, R, keys
<1>8. \A x \in DOMAIN t \cup R : ~(x \in DOMAIN t) =>
        Cardinality({y \in R : TupleOrder(keys[y], keys[x])})
          = Cardinality({y \in R : TupleOrder(KeyOf(mode, final, t, y), KeyOf(mode, final, t, x))})
  BY <1>5
<1>9. NextTable(mode, E, t) = NextOf(mode, S, final, t)
  BY <1>6, <1>7, <1>8
<1> QED  BY <1>9 DEF E, S

\* A level gets the places after those of the levels before, and two objects
\* the same only if their tuples do not differ.
After(mode, S, final, t, w) ==
  /\ IsTable(w, S) /\ DOMAIN w = DOMAIN t \cup Ready(S, t)
  /\ \A x \in DOMAIN t : w[x] = t[x]
  /\ \A x \in DOMAIN w : ~(x \in DOMAIN t) => w[x] >= Cardinality(DOMAIN t)
  /\ Cardinality(DOMAIN t) \in Nat
  /\ \A x, y \in Ready(S, t) :
       w[x] = w[y] <=> KeyOf(mode, final, t, x) = KeyOf(mode, final, t, y)

LEMMA NextFacts ==
  ASSUME NEW mode, NEW p, NEW q, NEW n \in Nat, NEW final, Fits(p, q, n, final, final),
         NEW t, IsTable(t, Shared(p, q, n))
  PROVE  After(mode, Shared(p, q, n), final, t, NextOf(mode, Shared(p, q, n), final, t))
<1> DEFINE S == Shared(p, q, n)
           u == NextOf(mode, S, final, t)
           R == Ready(S, t)
           keys == [x \in R |-> KeyOf(mode, final, t, x)]
           Before(x) == {y \in R : TupleOrder(keys[y], keys[x])}
<1>1. R \subseteq S /\ DOMAIN t \subseteq S /\ R \cap DOMAIN t = {} /\ IsFiniteSet(S)
  BY SharedFacts DEF Ready, IsTable
<1>2. IsFiniteSet(R) /\ IsFiniteSet(DOMAIN t) /\ Cardinality(R) \in Nat /\ Cardinality(DOMAIN t) \in Nat
  <2> HIDE DEF R, S
  <2> QED  BY <1>1, FS_Subset, FS_CardinalityType
<1>3. \A x \in R : IsKey(keys[x])
  BY <1>1, KeyOfFacts
<1>4. /\ DOMAIN u = DOMAIN t \cup R
      /\ \A x \in DOMAIN t : u[x] = t[x]
      /\ \A x \in R : ~(x \in DOMAIN t) /\ u[x] = Cardinality(DOMAIN t) + Cardinality(Before(x))
  <2>1. \A x \in R : Before(x) = {y \in R : TupleOrder(KeyOf(mode, final, t, y), KeyOf(mode, final, t, x))}
    OBVIOUS
  <2> HIDE DEF R, Before, S
  <2>2. u = [x \in DOMAIN t \cup R |->
         IF x \in DOMAIN t THEN t[x]
         ELSE Cardinality(DOMAIN t) + Cardinality({y \in R :
                TupleOrder(KeyOf(mode, final, t, y), KeyOf(mode, final, t, x))})]
    BY DEF NextOf, R
  <2> QED  BY <2>1, <2>2, <1>1
<1>5. \A x \in R : /\ Cardinality(Before(x)) \in Nat /\ Cardinality(Before(x)) < Cardinality(R)
                   /\ \A y \in R : Cardinality(Before(x)) = Cardinality(Before(y)) => keys[x] = keys[y]
  <2> HIDE DEF R, keys
  <2> QED  BY <1>2, <1>3, Ranks
<1>6. \A x, y \in R : keys[x] = keys[y] => Before(x) = Before(y)
  <2> HIDE DEF R, keys
  <2> QED  OBVIOUS
<1>7. Cardinality(DOMAIN t \cup R) = Cardinality(DOMAIN t) + Cardinality(R)
  <2> HIDE DEF R, S
  <2>1. Cardinality(DOMAIN t \cup R) = Cardinality(DOMAIN t) + Cardinality(R) - Cardinality(DOMAIN t \cap R)
    BY <1>2, FS_Union
  <2>2. DOMAIN t \cap R = {}
    BY <1>1
  <2>3. Cardinality({}) = 0
    BY FS_EmptySet
  <2>4. Cardinality(DOMAIN t \cap R) = 0
    BY <2>2, <2>3
  <2> QED  BY <2>1, <2>4, <1>2
<1>8. \A x \in R : keys[x] = KeyOf(mode, final, t, x)
  OBVIOUS
<1>a. \A x \in DOMAIN t : t[x] \in Nat /\ t[x] < Cardinality(DOMAIN t)
  BY DEF IsTable
<1>b. u = [x \in DOMAIN u |-> u[x]]
  BY DEF NextOf
<1> HIDE DEF S, u, R, keys, Before
<1>9. \A x \in DOMAIN u : u[x] \in Nat /\ u[x] < Cardinality(DOMAIN u)
  BY <1>2, <1>4, <1>5, <1>7, <1>a
<1>10. u \in [DOMAIN u -> Nat]
  BY <1>9, <1>b
<1>11. IsTable(u, S)
  BY <1>1, <1>4, <1>9, <1>10 DEF IsTable
<1>12. \A x \in DOMAIN u : ~(x \in DOMAIN t) => u[x] >= Cardinality(DOMAIN t)
  BY <1>2, <1>4, <1>5
<1>13. \A x, y \in R : u[x] = u[y] <=> keys[x] = keys[y]
  BY <1>2, <1>4, <1>5, <1>6
<1>14. \A x, y \in R : u[x] = u[y] <=> KeyOf(mode, final, t, x) = KeyOf(mode, final, t, y)
  BY <1>8, <1>13
<1>15. After(mode, S, final, t, u)
  BY <1>2, <1>4, <1>11, <1>12, <1>14 DEF After, R
<1> QED  BY <1>15 DEF S, u

\* The recursive definition of Tables is one.
(* What Tables computes, level by level.                                     *)
LEMMA TablesRec ==
  ASSUME NEW mode, NEW E, IsFiniteSet(DOMAIN E)
  PROVE  LET N == Cardinality(DOMAIN E)
         IN  /\ Tables(mode, E)[0] = Nothing
             /\ \A m \in 1..N : Tables(mode, E)[m] = NextTable(mode, E, Tables(mode, E)[m-1])
<1> DEFINE N == Cardinality(DOMAIN E)
           Rec(f, k) == f = [m \in 0..k |-> IF m = 0 THEN Nothing ELSE NextTable(mode, E, f[m-1])]
           Bad == {k \in 0..N : ~ \E f : Rec(f, k)}
<1>0. N \in Nat
  BY FS_CardinalityType
<1> HIDE DEF N
<1>1. CASE Bad # {}
  <2>1. PICK k \in Bad : \A m \in Bad : k <= m
    <3>1. Bad \in SUBSET Nat
      BY <1>0
    <3> HIDE DEF Bad
    <3> QED  BY <3>1, <1>1, Smallest
  <2>2. CASE k = 0
    <3> DEFINE f == [m \in 0..0 |-> Nothing]
    <3>1. f = [m \in 0..0 |-> IF m = 0 THEN Nothing ELSE NextTable(mode, E, f[m-1])]
      OBVIOUS
    <3>2. Rec(f, k)
      BY <2>2, <3>1
    <3> HIDE DEF f, Rec
    <3> QED  BY <3>2, <2>1
  <2>3. CASE k # 0
    <3>1. k - 1 \in 0..N /\ ~(k - 1 \in Bad) /\ k \in Nat
      <4>1. Bad \subseteq 0..N
        OBVIOUS
      <4> HIDE DEF Bad, Rec
      <4>2. k \in 0..N
        BY <2>1, <4>1
      <4> QED  BY <1>0, <2>1, <2>3, <4>2
    <3>2. PICK g : Rec(g, k - 1)
      BY <3>1
    <3> DEFINE f == [m \in 0..k |-> IF m = k THEN NextTable(mode, E, g[k-1]) ELSE g[m]]
    <3>3. \A m \in 0..(k-1) : f[m] = g[m] /\ g[m] = IF m = 0 THEN Nothing ELSE NextTable(mode, E, g[m-1])
      BY <3>1, <3>2
    <3>4. f[k] = NextTable(mode, E, f[k-1])
      <4>1. f[k] = NextTable(mode, E, g[k-1])
        BY <3>1
      <4>2. f[k-1] = g[k-1]
        BY <3>1, <3>3
      <4> QED  BY <4>1, <4>2
    <3>5. ASSUME NEW m \in 0..k  PROVE f[m] = IF m = 0 THEN Nothing ELSE NextTable(mode, E, f[m-1])
      <4> HIDE DEF f
      <4>1. CASE m = k
        BY <4>1, <3>4, <2>3
      <4>2. CASE m # k
        <5>1. m \in 0..(k-1) /\ (m # 0 => m - 1 \in 0..(k-1))
          BY <3>1, <4>2
        <5> QED  BY <5>1, <3>3
      <4> QED  BY <4>1, <4>2
    <3>6. Rec(f, k)
      <4>1. f = [m \in 0..k |-> f[m]]
        OBVIOUS
      <4> HIDE DEF f
      <4> QED  BY <4>1, <3>5
    <3> HIDE DEF f, Rec
    <3> QED  BY <3>6, <2>1
  <2> QED  BY <2>2, <2>3
<1>2. CASE Bad = {}
  <2>1. \E f : Rec(f, N)
    BY <1>0, <1>2
  <2>2. Tables(mode, E) = CHOOSE f : Rec(f, N)
    BY DEF Tables, N
  <2>3. Rec(Tables(mode, E), N)
    <3> HIDE DEF Rec
    <3> QED  BY <2>1, <2>2
  <2> DEFINE T == Tables(mode, E)
  <2>4. T = [m \in 0..N |-> IF m = 0 THEN Nothing ELSE NextTable(mode, E, T[m-1])]
    BY <2>3
  <2> HIDE DEF T
  <2>5. T[0] = Nothing /\ \A m \in 1..N : T[m] = NextTable(mode, E, T[m-1])
    BY <1>0, <2>4
  <2> QED  BY <2>5 DEF T, N
<1> QED  BY <1>1, <1>2

Runs(T, mode, S, final) ==
  /\ T[0] = Nothing
  /\ \A m \in 0..Cardinality(S) : IsTable(T[m], S)
  /\ \A m \in 1..Cardinality(S) : T[m] = NextOf(mode, S, final, T[m-1])

LEMMA TablesRun ==
  ASSUME NEW mode, NEW p, NEW q, NEW n \in Nat,
         NEW final, NEW gids, Fits(p, q, n, final, final), Fits(p, q, n, final, gids),
         NEW order \in {"agreed", "reverse"}, mode = "IDMODE_LISTS" => order = "agreed"
  PROVE  \E T : /\ Runs(T, mode, Shared(p, q, n), final)
                /\ IdentifySort(mode, IdentifyIdEntry(Shared(p, q, n), gids, order))
                    = T[Cardinality(Shared(p, q, n))]
<1> DEFINE S == Shared(p, q, n)
           E == IdentifyIdEntry(S, gids, order)
           T == Tables(mode, E)
           N == Cardinality(S)
           Bad == {m \in 0..N : ~IsTable(T[m], S)}
<1>1. DOMAIN E = S /\ IsFiniteSet(S) /\ N \in Nat
  BY SharedFacts DEF IdentifyIdEntry
<1> HIDE DEF E, S, N
<1>2. T[0] = Nothing /\ \A m \in 1..N : T[m] = NextTable(mode, E, T[m-1])
  BY <1>1, TablesRec DEF N
<1>3. IdentifySort(mode, E) = T[N]
  BY <1>1 DEF IdentifySort, N
<1>4. IsTable(Nothing, S)
  BY DEF IsTable, Nothing
<1>5. ASSUME NEW t, IsTable(t, S)
      PROVE  NextTable(mode, E, t) = NextOf(mode, S, final, t) /\ IsTable(NextOf(mode, S, final, t), S)
  <2>1. NextTable(mode, E, t) = NextOf(mode, S, final, t)
    BY <1>5, NextIs DEF E, S
  <2>2. IsTable(NextOf(mode, S, final, t), S)
    BY <1>5, NextFacts DEF S, After
  <2> QED  BY <2>1, <2>2
<1> HIDE DEF T
<1>6. Bad = {}
  <2> SUFFICES ASSUME Bad # {}  PROVE FALSE
    OBVIOUS
  <2>1. PICK m \in Bad : \A k \in Bad : m <= k
    <3>1. Bad \in SUBSET Nat
      BY <1>1
    <3> HIDE DEF Bad
    <3> QED  BY <3>1, Smallest
  <2>2. m # 0
    BY <2>1, <1>2, <1>4
  <2>3. m - 1 \in 0..N /\ m \in 1..N /\ ~(m - 1 \in Bad)
    BY <1>1, <2>1, <2>2
  <2>4. IsTable(T[m-1], S)
    BY <2>3
  <2> QED  BY <2>1, <2>3, <2>4, <1>2, <1>5
<1>7. \A m \in 1..N : T[m] = NextOf(mode, S, final, T[m-1])
  <2> TAKE m \in 1..N
  <2>1. m - 1 \in 0..N
    BY <1>1
  <2> QED  BY <2>1, <1>2, <1>5, <1>6
<1>8. \A m \in 0..N : IsTable(T[m], S)
  BY <1>6
<1>9. Runs(T, mode, S, final)
  BY <1>2, <1>7, <1>8 DEF Runs, N
<1> QED  BY <1>3, <1>9 DEF E, S, N

\* The table that p and q both find.
FinalTable(mode, p, q, n, final) ==
  IdentifySort(mode, IdentifyIdEntry(Shared(p, q, n), final, "agreed"))

(* Whatever global ids and whatever order the commands had, the table is the same. *)
LEMMA SortSame ==
  ASSUME NEW mode, NEW p, NEW q, NEW n \in Nat,
         NEW final, NEW gids, Fits(p, q, n, final, final), Fits(p, q, n, final, gids),
         NEW order \in {"agreed", "reverse"}, mode = "IDMODE_LISTS" => order = "agreed"
  PROVE  IdentifySort(mode, IdentifyIdEntry(Shared(p, q, n), gids, order))
           = FinalTable(mode, p, q, n, final)
<1> DEFINE S == Shared(p, q, n)
           N == Cardinality(S)
<1>0. N \in Nat /\ "agreed" \in {"agreed", "reverse"}
  BY SharedFacts
<1>1. PICK T : Runs(T, mode, S, final) /\ IdentifySort(mode, IdentifyIdEntry(S, gids, order)) = T[N]
  BY TablesRun
<1>2. PICK U : Runs(U, mode, S, final) /\ IdentifySort(mode, IdentifyIdEntry(S, final, "agreed")) = U[N]
  BY <1>0, TablesRun
<1>a. /\ T[0] = Nothing /\ U[0] = Nothing
      /\ \A m \in 1..N : T[m] = NextOf(mode, S, final, T[m-1]) /\ U[m] = NextOf(mode, S, final, U[m-1])
  BY <1>1, <1>2 DEF Runs
<1> DEFINE Bad == {m \in 0..N : T[m] # U[m]}
<1> HIDE DEF N, S
<1>3. Bad = {}
  <2> SUFFICES ASSUME Bad # {}  PROVE FALSE
    OBVIOUS
  <2>1. PICK m \in Bad : \A k \in Bad : m <= k
    <3>1. Bad \in SUBSET Nat
      BY <1>0
    <3> HIDE DEF Bad
    <3> QED  BY <3>1, Smallest
  <2>2. m # 0
    BY <2>1, <1>a
  <2>3. m - 1 \in 0..N /\ m \in 1..N /\ ~(m - 1 \in Bad)
    BY <1>0, <2>1, <2>2
  <2>4. T[m-1] = U[m-1]
    BY <2>3
  <2> QED  BY <2>1, <2>3, <2>4, <1>a
<1>4. T[N] = U[N]
  BY <1>0, <1>3
<1> QED  BY <1>1, <1>2, <1>4 DEF FinalTable, S

-------------------------------------------------------------------------------
(* IdentifySort gives up only if two tuples are the same.                    *)

Alike(mode, x, y) ==
  /\ TypeOf[x] = TypeOf[y]
  /\ \/ Identifiers[x] = Identifiers[y]
     \/ mode = "IDMODE_SETS" /\ Identifiers[x] \in Arrangements(Identifiers[y])

LEMMA FinalRun ==
  ASSUME NEW mode \in {"IDMODE_LISTS", "IDMODE_SETS"},
         NEW p, NEW q, NEW n \in Nat, NEW final, Fits(p, q, n, final, final)
  PROVE  \E T : /\ Runs(T, mode, Shared(p, q, n), final)
                /\ FinalTable(mode, p, q, n, final) = T[Cardinality(Shared(p, q, n))]
<1>1. "agreed" \in {"agreed", "reverse"}
  OBVIOUS
<1> DEFINE S == Shared(p, q, n)
           N == Cardinality(S)
<1>2. \E T : Runs(T, mode, S, final) /\ IdentifySort(mode, IdentifyIdEntry(S, final, "agreed")) = T[N]
  <2>1. "agreed" \in {"agreed", "reverse"} /\ (mode = "IDMODE_LISTS" => "agreed" = "agreed")
    OBVIOUS
  <2> HIDE DEF S, N
  <2> QED  BY <2>1, TablesRun, SMTT(30) DEF S, N
<1> QED  BY <1>2 DEF FinalTable

\* A chain of references ends, so that every tuple gets a place.
(* Without cycles of references every tuple gets a place.                    *)
LEMMA NoCycle ==
  ASSUME NEW mode \in {"IDMODE_LISTS", "IDMODE_SETS"},
         NEW p, NEW q, NEW n \in Nat, NEW final, Fits(p, q, n, final, final)
  PROVE  /\ DOMAIN FinalTable(mode, p, q, n, final) = Shared(p, q, n)
         /\ IsTable(FinalTable(mode, p, q, n, final), Shared(p, q, n))
<1> DEFINE S == Shared(p, q, n)
           N == Cardinality(S)
<1>0. N \in Nat /\ IsFiniteSet(S) /\ S \subseteq Obj
  <2>1. N \in Nat /\ IsFiniteSet(S)
    BY SharedFacts
  <2>2. S \subseteq Obj
    BY DEF Shared
  <2> QED  BY <2>1, <2>2
<1>1. PICK T : Runs(T, mode, S, final) /\ FinalTable(mode, p, q, n, final) = T[N]
  BY FinalRun
<1>2. /\ T[0] = Nothing
      /\ \A m \in 0..N : IsTable(T[m], S)
      /\ \A m \in 1..N : T[m] = NextOf(mode, S, final, T[m-1])
  BY <1>1 DEF Runs
<1>3. ASSUME NEW t, IsTable(t, S), DOMAIN t # S
      PROVE  Ready(S, t) # {}
  <2> DEFINE Rest == S \ DOMAIN t
  <2>1. Rest # {} /\ Rest \in SUBSET Obj
    BY <1>0, <1>3 DEF IsTable
  <2>2. PICK x \in Rest : KnownBy(x) \cap Rest = {}
    <3> DEFINE depths == {Depth[x] : x \in Rest}
    <3>1. depths \in SUBSET Nat /\ depths # {}
      BY <2>1, DepthFacts
    <3>2. PICK k \in depths : \A j \in depths : k <= j
      <4> HIDE DEF depths
      <4> QED  BY <3>1, Smallest
    <3>3. PICK x \in Rest : Depth[x] = k
      BY <3>2
    <3>4. \A y \in KnownBy(x) \cap Rest : Depth[y] < Depth[x] /\ Depth[y] >= Depth[x]
                                         /\ Depth[y] \in Nat /\ Depth[x] \in Nat
      BY <2>1, <3>2, <3>3, DepthFacts
    <3> QED  BY <3>4
  <2>3. x \in S
    BY <2>2
  <2>4. "agreed" \in {"agreed", "reverse"}
    OBVIOUS
  <2>5. \A y : y \in KnownBy(x) => y \in S
    BY <2>3, <2>4, GivenFacts
  <2> QED  BY <2>2, <2>5 DEF Ready
<1> DEFINE Bad == {m \in 0..N : ~(DOMAIN T[m] = S \/ Cardinality(DOMAIN T[m]) >= m)}
<1>4. \A m \in 0..N : IsFiniteSet(DOMAIN T[m]) /\ Cardinality(DOMAIN T[m]) \in Nat /\ DOMAIN T[m] \subseteq S
  <2> TAKE m \in 0..N
  <2>1. DOMAIN T[m] \subseteq S
    BY <1>2 DEF IsTable
  <2> QED  BY <2>1, <1>0, FS_Subset, FS_CardinalityType
<1>5. Bad = {}
  <2> SUFFICES ASSUME Bad # {}  PROVE FALSE
    OBVIOUS
  <2>1. PICK m \in Bad : \A k \in Bad : m <= k
    <3>1. Bad \in SUBSET Nat
      BY <1>0
    <3> HIDE DEF Bad
    <3> QED  BY <3>1, Smallest
  <2>a. Bad \subseteq 0..N /\ ~(DOMAIN T[m] = S \/ Cardinality(DOMAIN T[m]) >= m)
    BY <2>1
  <2>b. \A k \in 0..N : ~(k \in Bad) => DOMAIN T[k] = S \/ Cardinality(DOMAIN T[k]) >= k
    OBVIOUS
  <2> HIDE DEF Bad, N
  <2>c. m \in 0..N
    BY <2>1, <2>a
  <2>2. m # 0
    BY <2>a, <2>c, <1>4
  <2>3. m - 1 \in 0..N /\ m \in 1..N /\ ~(m - 1 \in Bad)
    BY <1>0, <2>1, <2>2, <2>c
  <2>4. DOMAIN T[m] = DOMAIN T[m-1] \cup Ready(S, T[m-1])
    <3>1. T[m] = NextOf(mode, S, final, T[m-1])
      BY <2>3, <1>2
    <3> QED  BY <3>1 DEF NextOf
  <2>5. CASE DOMAIN T[m-1] = S
    BY <2>4, <2>5, <2>a DEF Ready
  <2>6. CASE DOMAIN T[m-1] # S
    <3>1. Ready(S, T[m-1]) # {} /\ Ready(S, T[m-1]) \cap DOMAIN T[m-1] = {}
      BY <1>2, <1>3, <2>3, <2>6 DEF Ready
    <3>2. DOMAIN T[m-1] \subseteq DOMAIN T[m] /\ DOMAIN T[m-1] # DOMAIN T[m]
      BY <2>4, <3>1
    <3>3. Cardinality(DOMAIN T[m-1]) <= Cardinality(DOMAIN T[m])
          /\ (Cardinality(DOMAIN T[m-1]) = Cardinality(DOMAIN T[m]) => DOMAIN T[m-1] = DOMAIN T[m])
      BY <3>2, <1>4, <2>c, FS_Subset
    <3>4. Cardinality(DOMAIN T[m-1]) >= m - 1
      BY <2>3, <2>6, <2>b
    <3>5. Cardinality(DOMAIN T[m]) \in Nat /\ Cardinality(DOMAIN T[m-1]) \in Nat
      BY <1>4, <2>c, <2>3
    <3>6. Cardinality(DOMAIN T[m]) >= m
      BY <3>2, <3>3, <3>4, <3>5, <2>c
    <3> QED  BY <3>6, <2>a
  <2> QED  BY <2>5, <2>6
<1>6. DOMAIN T[N] = S
  <2>1. N \in 0..N
    BY <1>0
  <2>2. CASE Cardinality(DOMAIN T[N]) >= N
    <3>1. Cardinality(DOMAIN T[N]) <= N /\ (Cardinality(DOMAIN T[N]) = N => DOMAIN T[N] = S)
      BY <2>1, <1>0, <1>4, FS_Subset
    <3>2. Cardinality(DOMAIN T[N]) \in Nat
      BY <2>1, <1>4
    <3> QED  BY <3>1, <3>2, <2>2, <1>0
  <2> QED  BY <2>1, <2>2, <1>5
<1>7. IsTable(T[N], S)
  BY <1>0, <1>2
<1> QED  BY <1>1, <1>6, <1>7

\* Places and global ids do not mix.
(* The replacement by places tells apart what the identifiers tell apart.    *)
LEMMA ItemInjective ==
  ASSUME NEW p, NEW q, NEW n \in Nat, NEW final, Fits(p, q, n, final, final),
         NEW t, IsTable(t, Shared(p, q, n)), ~Ambiguous(t),
         NEW i \in Idents(p, q, n), NEW j \in Idents(p, q, n), Item(t, final, i) = Item(t, final, j)
  PROVE  i = j
<1>1. /\ i = <<i[1], i[2]>> /\ j = <<j[1], j[2]>>
      /\ i[1] = ID_OBJECT => i[2] \in Common(p, q, n)
      /\ j[1] = ID_OBJECT => j[2] \in Common(p, q, n)
  BY DEF Idents
<1>2. \A k : /\ Item(t, final, k).typeId = k[1]
             /\ Item(t, final, k).id = IF k[1] # ID_OBJECT THEN k[2]
                                       ELSE IF k[2] \in DOMAIN t THEN t[k[2]] ELSE final[k[2]]
  BY DEF Item
<1>3. i[1] = j[1]
  BY <1>2
<1>4. CASE i[1] # ID_OBJECT
  <2>1. i[2] = j[2]
    BY <1>2, <1>3, <1>4
  <2> QED  BY <2>1, <1>1, <1>3
<1>5. CASE i[1] = ID_OBJECT
  <2>1. (IF i[2] \in DOMAIN t THEN t[i[2]] ELSE final[i[2]])
          = (IF j[2] \in DOMAIN t THEN t[j[2]] ELSE final[j[2]])
    BY <1>2, <1>3, <1>5
  <2>2. Cardinality(DOMAIN t) <= Cardinality(Shared(p, q, n)) /\ Cardinality(DOMAIN t) \in Nat
        /\ Cardinality(Shared(p, q, n)) \in Nat /\ Cardinality(Shared(p, q, n)) < GidBase /\ GidBase \in Nat
    BY SharedFacts, FS_Subset, FS_CardinalityType DEF IsTable
  <2>3. \A x \in DOMAIN t : t[x] \in Nat /\ t[x] < Cardinality(DOMAIN t)
    BY DEF IsTable
  <2>4. \A y \in Common(p, q, n) : final[y] \in Nat /\ final[y] >= GidBase
    BY DEF Fits, Common
  <2>5. \A x \in DOMAIN t, y \in Common(p, q, n) : t[x] # final[y]
    BY <2>2, <2>3, <2>4
  <2>6. i[2] \in Common(p, q, n) /\ j[2] \in Common(p, q, n)
    BY <1>1, <1>3, <1>5
  <2>7. CASE i[2] \in DOMAIN t
    <3>1. j[2] \in DOMAIN t
      BY <2>1, <2>5, <2>6, <2>7
    <3>2. i[2] = j[2]
      BY <2>1, <2>7, <3>1 DEF Ambiguous
    <3> QED  BY <3>2, <1>1, <1>3
  <2>8. CASE ~(i[2] \in DOMAIN t)
    <3>1. ~(j[2] \in DOMAIN t)
      BY <2>1, <2>5, <2>6, <2>8
    <3>2. i[2] = j[2]
      BY <2>1, <2>6, <2>8, <3>1 DEF Fits
    <3> QED  BY <3>2, <1>1, <1>3
  <2> QED  BY <2>7, <2>8
<1> QED  BY <1>4, <1>5

\* What is given for x and for y, item by item.
LEMMA ItemsFacts ==
  ASSUME NEW p, NEW q, NEW n \in Nat, NEW final, Fits(p, q, n, final, final),
         NEW t, IsTable(t, Shared(p, q, n)), NEW x \in Shared(p, q, n), NEW y \in Shared(p, q, n)
  PROVE  /\ Identifiers[x] \in Arrangements(Identifiers[y])
              => Items(t, final, Identifiers[x]) \in Arrangements(Items(t, final, Identifiers[y]))
         /\ ~Ambiguous(t) /\ Len(Identifiers[x]) = Len(Identifiers[y])
              /\ Items(t, final, Identifiers[x]) \in Arrangements(Items(t, final, Identifiers[y]))
              => Identifiers[x] \in Arrangements(Identifiers[y])
         /\ ~Ambiguous(t) /\ Items(t, final, Identifiers[x]) = Items(t, final, Identifiers[y])
              => Identifiers[x] = Identifiers[y]
<1> DEFINE m == [i \in Idents(p, q, n) |-> Item(t, final, i)]
           D == 1..Len(Identifiers[x])
           s == Identifiers[x]
           r == Identifiers[y]
<1>1. "agreed" \in {"agreed", "reverse"}
  OBVIOUS
<1>2. s \in [D -> Idents(p, q, n)] /\ r \in [1..Len(r) -> Idents(p, q, n)]
  BY <1>1, GivenFacts
<1>3. m \in [Idents(p, q, n) -> IdentInfo]
  BY ItemTypes
<1>4. ~Ambiguous(t) => \A i, j \in Idents(p, q, n) : m[i] = m[j] => i = j
  BY ItemInjective
<1>5. Mapped(m, s) = Items(t, final, s) /\ Mapped(m, r) = Items(t, final, r)
  BY <1>2 DEF Mapped, Items
<1>6. \A k \in DOMAIN s : Items(t, final, s)[k] = m[s[k]]
  BY <1>2 DEF Items
<1>7. \A k \in DOMAIN r : Items(t, final, r)[k] = m[r[k]]
  BY <1>2 DEF Items
<1>8. DOMAIN Items(t, final, s) = DOMAIN s /\ DOMAIN Items(t, final, r) = DOMAIN r
  BY DEF Items
<1>9. Len(s) \in Nat /\ Len(r) \in Nat
  BY ObjFacts DEF Shared
<1> HIDE DEF m
<1>10. ASSUME s \in Arrangements(r)  PROVE Items(t, final, s) \in Arrangements(Items(t, final, r))
  <2>1. s \in [1..Len(r) -> Idents(p, q, n)]
    BY <1>2, <1>10, ArrangementType
  <2> DEFINE C == 1..Len(r)
             X == Idents(p, q, n)
  <2>2. s \in [C -> X] /\ r \in [C -> X] /\ m \in [X -> IdentInfo]
    BY <1>2, <1>3, <2>1
  <2> HIDE DEF s, r, D, C, X
  <2>3. Mapped(m, s) \in Arrangements(Mapped(m, r))
    BY <2>2, <1>10, ArrangementMap
  <2> QED  BY <1>5, <2>3
<1>11. ASSUME ~Ambiguous(t), Len(s) = Len(r), Items(t, final, s) \in Arrangements(Items(t, final, r))
       PROVE  s \in Arrangements(r)
  <2>1. r \in [D -> Idents(p, q, n)]
    BY <1>2, <1>11
  <2> DEFINE X == Idents(p, q, n)
  <2>2. s \in [D -> X] /\ r \in [D -> X] /\ m \in [X -> IdentInfo]
        /\ \A a, b \in X : m[a] = m[b] => a = b
    BY <1>2, <1>3, <1>4, <1>11, <2>1
  <2> HIDE DEF s, r, D, X
  <2>3. Mapped(m, s) \in Arrangements(Mapped(m, r))
    BY <1>5, <1>11
  <2> QED  BY <2>2, <2>3, ArrangementMap
<1>12. ASSUME ~Ambiguous(t), Items(t, final, s) = Items(t, final, r)
       PROVE  s = r
  <2> HIDE DEF s, r, D
  <2>1. DOMAIN s = DOMAIN r
    BY <1>8, <1>12
  <2>2. \A k \in DOMAIN s : s[k] = r[k]
    <3> TAKE k \in DOMAIN s
    <3>1. m[s[k]] = m[r[k]] /\ s[k] \in Idents(p, q, n) /\ r[k] \in Idents(p, q, n)
      BY <1>2, <1>6, <1>7, <1>12, <2>1
    <3> QED  BY <3>1, <1>4, <1>12
  <2> QED  BY <1>2, <2>1, <2>2
<1> QED  BY <1>10, <1>11, <1>12

(* If sorting gives up, the program gave two objects the same identifiers, ... *)
LEMMA AmbiguousAlike ==
  ASSUME NEW mode \in {"IDMODE_LISTS", "IDMODE_SETS"},
         NEW p, NEW q, NEW n \in Nat, NEW final, Fits(p, q, n, final, final),
         Ambiguous(FinalTable(mode, p, q, n, final))
  PROVE  \E x, y \in Shared(p, q, n) : x # y /\ Alike(mode, x, y)
<1> DEFINE S == Shared(p, q, n)
           N == Cardinality(S)
<1>0. N \in Nat
  BY SharedFacts
<1>1. PICK T : Runs(T, mode, S, final) /\ FinalTable(mode, p, q, n, final) = T[N]
  BY FinalRun
<1>2. /\ T[0] = Nothing
      /\ \A m \in 0..N : IsTable(T[m], S)
      /\ \A m \in 1..N : T[m] = NextOf(mode, S, final, T[m-1])
  BY <1>1 DEF Runs
<1> DEFINE Bad == {m \in 0..N : Ambiguous(T[m])}
<1>3. PICK m \in Bad : \A k \in Bad : m <= k
  <2>1. Bad \in SUBSET Nat /\ Bad # {}
    BY <1>0, <1>1
  <2> HIDE DEF Bad
  <2> QED  BY <2>1, Smallest
<1>4. m \in 0..N /\ Ambiguous(T[m]) /\ m # 0
  BY <1>2, <1>3 DEF Ambiguous, Nothing
<1>5. m \in 1..N /\ m - 1 \in 0..N /\ ~Ambiguous(T[m-1])
  BY <1>0, <1>3, <1>4
<1> DEFINE t == T[m-1]
<1>6. IsTable(t, S) /\ T[m] = NextOf(mode, S, final, t) /\ ~Ambiguous(t)
  BY <1>2, <1>5
<1> HIDE DEF t
<1>7. PICK x, y \in DOMAIN T[m] : x # y /\ T[m][x] = T[m][y]
  BY <1>4 DEF Ambiguous
<1>8. /\ DOMAIN T[m] = DOMAIN t \cup Ready(S, t)
      /\ \A z \in DOMAIN t : T[m][z] = t[z]
      /\ \A z \in DOMAIN T[m] : ~(z \in DOMAIN t) => T[m][z] >= Cardinality(DOMAIN t)
      /\ Cardinality(DOMAIN t) \in Nat
      /\ \A z, w \in Ready(S, t) :
           T[m][z] = T[m][w] <=> KeyOf(mode, final, t, z) = KeyOf(mode, final, t, w)
  <2>1. After(mode, S, final, t, T[m])
    BY <1>6, NextFacts
  <2> HIDE DEF S
  <2> QED  BY <2>1 DEF After
<1>9. \A z \in DOMAIN t : T[m][z] \in Nat /\ T[m][z] < Cardinality(DOMAIN t)
  BY <1>6, <1>8 DEF IsTable
<1>10. ~(x \in DOMAIN t)
  <2> SUFFICES ASSUME x \in DOMAIN t  PROVE FALSE
    OBVIOUS
  <2>1. y \in DOMAIN t
    BY <1>7, <1>8, <1>9
  <2> QED  BY <2>1, <1>6, <1>7, <1>8 DEF Ambiguous
<1>11. ~(y \in DOMAIN t)
  <2> SUFFICES ASSUME y \in DOMAIN t  PROVE FALSE
    OBVIOUS
  <2>1. x \in DOMAIN t
    BY <1>7, <1>8, <1>9
  <2> QED  BY <2>1, <1>10
<1>12. x \in S /\ y \in S /\ KeyOf(mode, final, t, x) = KeyOf(mode, final, t, y)
  BY <1>7, <1>8, <1>10, <1>11 DEF Ready
<1> DEFINE ix == Items(t, final, Identifiers[x])
           iy == Items(t, final, Identifiers[y])
           L == Len(Identifiers[x])
           K == Len(Identifiers[y])
<1>13. /\ ix \in [1..L -> IdentInfo] /\ IntoTuple(mode, ix) \in [1..L -> IdentInfo]
       /\ IntoTuple(mode, ix) \in Arrangements(ix) /\ L \in Nat /\ TypeOf[x] \in Nat
  BY <1>6, <1>12, KeyOfFacts
<1>14. /\ iy \in [1..K -> IdentInfo] /\ IntoTuple(mode, iy) \in [1..K -> IdentInfo]
       /\ IntoTuple(mode, iy) \in Arrangements(iy) /\ K \in Nat /\ TypeOf[y] \in Nat
  BY <1>6, <1>12, KeyOfFacts
<1>15. Key(IntoTuple(mode, ix), TypeOf[x]) = Key(IntoTuple(mode, iy), TypeOf[y])
  BY <1>12 DEF KeyOf
<1> HIDE DEF ix, iy, L, K
<1>16. IntoTuple(mode, ix) = IntoTuple(mode, iy) /\ TypeOf[x] = TypeOf[y]
  BY <1>13, <1>14, <1>15, KeyInjective
<1>17. CASE mode = "IDMODE_LISTS"
  <2>1. ix = iy
    BY <1>16, <1>17 DEF IntoTuple
  <2>2. Identifiers[x] = Identifiers[y]
    BY <2>1, <1>6, <1>12, ItemsFacts DEF ix, iy
  <2> QED  BY <2>2, <1>7, <1>12, <1>16 DEF Alike
<1>18. CASE mode = "IDMODE_SETS"
  <2>1. 1..L = 1..K
    <3>1. DOMAIN IntoTuple(mode, ix) = 1..L
      BY <1>13
    <3>2. DOMAIN IntoTuple(mode, iy) = 1..K
      BY <1>14
    <3> QED  BY <3>1, <3>2, <1>16
  <2>2. L = K
    <3>1. L \in 1..L \/ L = 0
      BY <1>13
    <3>2. K \in 1..K \/ K = 0
      BY <1>14
    <3> QED  BY <2>1, <3>1, <3>2, <1>13, <1>14
  <2>3. ix \in Arrangements(IntoTuple(mode, ix))
    BY <1>13, ArrangementSym
  <2>4. ix \in Arrangements(IntoTuple(mode, iy)) /\ IntoTuple(mode, iy) \in Arrangements(iy)
    BY <2>3, <1>14, <1>16
  <2>5. ix \in Arrangements(iy)
    BY <2>4, <1>14, ArrangementTrans
  <2>6. Identifiers[x] \in Arrangements(Identifiers[y])
    BY <2>2, <2>5, <1>6, <1>12, ItemsFacts DEF ix, iy, L, K
  <2> QED  BY <2>6, <1>7, <1>12, <1>16, <1>18 DEF Alike
<1> QED  BY <1>17, <1>18

\* The same identifiers refer to the same objects.
LEMMA AlikeKnownBy ==
  ASSUME NEW mode, NEW x \in Obj, NEW y \in Obj, Alike(mode, x, y), Session[x] = Session[y]
  PROVE  KnownBy(x) = KnownBy(y) /\ Identifiers[x] \in Arrangements(Identifiers[y])
<1>1. Identifiers[x] \in Arrangements(Identifiers[y])
  BY ObjFacts, ArrangementRefl DEF Alike
<1> DEFINE s == Identifiers[y]
           r == Identifiers[x]
           D == DOMAIN s
<1>a. DOMAIN Identifiers[y] = D
  OBVIOUS
<1>2. PICK f : Permutes(f, D) /\ Identifiers[x] = [i \in D |-> Identifiers[y][f[i]]]
  <2>1. r \in Arrangements(s) /\ DOMAIN s = D
    BY <1>1
  <2> HIDE DEF s, r, D
  <2>2. PICK f : Permutes(f, D) /\ r = [i \in D |-> s[f[i]]]
    BY <2>1, ArrangementIs
  <2> QED  BY <2>2 DEF s, r
<1> HIDE DEF D
<1>3. ASSUME NEW z
      PROVE  (\E k \in DOMAIN Identifiers[x] : Identifiers[x][k] = <<ID_OBJECT, z>>)
               <=> (\E k \in DOMAIN Identifiers[y] : Identifiers[y][k] = <<ID_OBJECT, z>>)
  <2>1. ASSUME NEW k \in DOMAIN Identifiers[x], Identifiers[x][k] = <<ID_OBJECT, z>>
        PROVE  \E j \in D : Identifiers[y][j] = <<ID_OBJECT, z>>
    <3>1. f[k] \in D /\ Identifiers[y][f[k]] = Identifiers[x][k]
      BY <1>2, <2>1 DEF Permutes
    <3> QED  BY <3>1, <2>1
  <2>2. ASSUME NEW j \in D, Identifiers[y][j] = <<ID_OBJECT, z>>
        PROVE  \E k \in DOMAIN Identifiers[x] : Identifiers[x][k] = <<ID_OBJECT, z>>
    <3>1. PICK k \in D : f[k] = j
      BY <1>2 DEF Permutes
    <3>2. k \in DOMAIN Identifiers[x] /\ Identifiers[x][k] = Identifiers[y][j]
      BY <1>2, <3>1
    <3> QED  BY <3>2, <2>2
  <2> QED  BY <2>1, <2>2, <1>a
<1>4. KnownBy(x) = KnownBy(y)
  BY <1>3 DEF KnownBy
<1> QED  BY <1>1, <1>4

(* ... and if it did, sorting gives up, for each partner that shares the two. *)
LEMMA AlikeAmbiguous ==
  ASSUME NEW mode \in {"IDMODE_LISTS", "IDMODE_SETS"},
         NEW p, NEW q, NEW n \in Nat, NEW final, Fits(p, q, n, final, final),
         NEW x \in Shared(p, q, n), NEW y \in Shared(p, q, n), x # y, Alike(mode, x, y)
  PROVE  Ambiguous(FinalTable(mode, p, q, n, final))
<1> DEFINE S == Shared(p, q, n)
           N == Cardinality(S)
<1>0. N \in Nat
  BY SharedFacts
<1>1. PICK T : Runs(T, mode, S, final) /\ FinalTable(mode, p, q, n, final) = T[N]
  BY FinalRun
<1>2. /\ T[0] = Nothing
      /\ \A m \in 0..N : IsTable(T[m], S)
      /\ \A m \in 1..N : T[m] = NextOf(mode, S, final, T[m-1])
  BY <1>1 DEF Runs
<1>3. KnownBy(x) = KnownBy(y) /\ Identifiers[x] \in Arrangements(Identifiers[y])
  <2>1. x \in Obj /\ y \in Obj /\ Session[x] = Session[y]
    BY DEF Shared
  <2> QED  BY <2>1, AlikeKnownBy
<1>4. ASSUME NEW t, IsTable(t, S)  PROVE KeyOf(mode, final, t, x) = KeyOf(mode, final, t, y)
  <2> DEFINE ix == Items(t, final, Identifiers[x])
             iy == Items(t, final, Identifiers[y])
  <2>1. ix \in Arrangements(iy)
    BY <1>3, <1>4, ItemsFacts
  <2>2. iy \in [1..Len(Identifiers[y]) -> IdentInfo]
    BY <1>4, KeyOfFacts
  <2>3. Identifiers[x] = Identifiers[y] => ix = iy
    OBVIOUS
  <2> HIDE DEF ix, iy
  <2>4. IntoTuple(mode, ix) = IntoTuple(mode, iy)
    <3>1. CASE mode = "IDMODE_LISTS"
      BY <3>1, <2>3 DEF Alike
    <3>2. CASE mode # "IDMODE_LISTS"
      <4> DEFINE D == 1..Len(Identifiers[y])
      <4>1. iy \in [D -> IdentInfo] /\ ix \in Arrangements(iy) /\ mode # "IDMODE_LISTS"
        BY <2>1, <2>2, <3>2
      <4> HIDE DEF D
      <4>2. IntoTuple(mode, iy) = IntoTuple(mode, ix)
        <5>1. Arrangements(iy) = Arrangements(ix)
          BY <4>1, ArrangementsSame
        <5> DEFINE A == Arrangements(ix)
        <5>2. IntoTuple(mode, iy) = CHOOSE u \in A : \A i, j \in DOMAIN u : i < j => ~CompareId(u[j], u[i])
          BY <4>1, <5>1 DEF IntoTuple
        <5>3. IntoTuple(mode, ix) = CHOOSE u \in A : \A i, j \in DOMAIN u : i < j => ~CompareId(u[j], u[i])
          BY <4>1 DEF IntoTuple
        <5> QED  BY <5>2, <5>3
      <4> QED  BY <4>2
    <3> QED  BY <3>1, <3>2
  <2> QED  BY <2>4 DEF KeyOf, Alike, ix, iy
<1> DEFINE Even(m) == /\ x \in DOMAIN T[m] <=> y \in DOMAIN T[m]
                      /\ x \in DOMAIN T[m] => T[m][x] = T[m][y]
           Bad == {m \in 0..N : ~Even(m)}
<1>5. Bad = {}
  <2> SUFFICES ASSUME Bad # {}  PROVE FALSE
    OBVIOUS
  <2>1. PICK m \in Bad : \A k \in Bad : m <= k
    <3>1. Bad \in SUBSET Nat
      BY <1>0
    <3> HIDE DEF Bad
    <3> QED  BY <3>1, Smallest
  <2>a. Bad \subseteq 0..N /\ ~Even(m) /\ \A k \in 0..N : ~(k \in Bad) => Even(k)
    BY <2>1
  <2> HIDE DEF Bad
  <2>2. m \in 0..N /\ m # 0
    BY <2>1, <2>a, <1>2 DEF Nothing
  <2>3. m \in 1..N /\ m - 1 \in 0..N /\ Even(m-1)
    <3> HIDE DEF Even
    <3>1. m \in 1..N /\ m - 1 \in 0..N /\ ~(m - 1 \in Bad)
      BY <1>0, <2>1, <2>2
    <3> QED  BY <3>1, <2>a
  <2> DEFINE t == T[m-1]
  <2>4. IsTable(t, S) /\ T[m] = NextOf(mode, S, final, t)
    BY <1>2, <2>3
  <2>b. (x \in DOMAIN t <=> y \in DOMAIN t) /\ (x \in DOMAIN t => t[x] = t[y])
    BY <2>3
  <2> HIDE DEF t
  <2>5. /\ DOMAIN T[m] = DOMAIN t \cup Ready(S, t)
        /\ \A z \in DOMAIN t : T[m][z] = t[z]
        /\ \A z, w \in Ready(S, t) :
             T[m][z] = T[m][w] <=> KeyOf(mode, final, t, z) = KeyOf(mode, final, t, w)
    <3>1. After(mode, S, final, t, T[m])
      BY <2>4, NextFacts
    <3> HIDE DEF S
    <3> QED  BY <3>1 DEF After
  <2>6. x \in Ready(S, t) <=> y \in Ready(S, t)
    BY <2>b, <1>3 DEF Ready
  <2>7. KeyOf(mode, final, t, x) = KeyOf(mode, final, t, y)
    BY <2>4, <1>4
  <2>8. Even(m)
    BY <2>5, <2>6, <2>7, <2>b
  <2> QED  BY <2>8, <2>a
<1>6. DOMAIN T[N] = S
  BY <1>1, NoCycle
<1>7. Even(N)
  BY <1>0, <1>5
<1> QED  BY <1>1, <1>6, <1>7 DEF Ambiguous
-------------------------------------------------------------------------------
(* The invariant.                                                            *)

(* The global id an object ends up with: the least its copies were created with. *)
Final(F) == [x \in Obj |-> IF Owners[x] = {} THEN 0 ELSE Min({F[q][x] : q \in Owners[x]})]

\* p has sent its tables of the n-th identification.
Passed(p, n) ==
  n >= 1 /\ (n < session[p] \/ (n = session[p] /\ identMode[p] \in {"BUSY", "IDLE"}))

\* p is not waiting any more for q's message of the n-th identification.
Received(p, q, n) == Passed(p, n) /\ ~(n = session[p] /\ q \in waiting[p])

\* The owners whose message about x has arrived at p.
Heard(p, x) == {q \in Partners(p, x) : Received(p, q, Session[x])}

\* The identifications whose messages are under way from q to p.
Pending(q, p, n) == Passed(q, n) /\ Shared(p, q, n) # {} /\ ~Received(p, q, n)

\* The global ids p knows when it gives its commands.
GidsAt(p) == [x \in Obj |-> IF ~(p \in Owners[x]) THEN 0
                            ELSE IF Session[x] < session[p] THEN Final(FirstGid)[x]
                            ELSE FirstGid[p][x]]

\* The table that p and q have for each other.
TableOf(p, q, n) == FinalTable(option, p, q, n, Final(FirstGid))

GidInv == \A p \in Proc, x \in Obj :
  IF p \in Owners[x]
  THEN /\ \E q \in {p} \cup Heard(p, x) : gid[p][x] = FirstGid[q][x]
       /\ \A q \in {p} \cup Heard(p, x) : gid[p][x] <= FirstGid[q][x]
  ELSE gid[p][x] = 0

CouplingInv == \A p \in Proc, x \in Obj, q \in Proc :
  coupling[p][x][q] = IF p \in Owners[x] /\ q \in Heard(p, x) THEN prio[q][x] ELSE 0

ListsOf(p, order) ==
  \A q \in Proc : plist[p][q] = IdentifyIdEntry(Shared(p, q, session[p]), GidsAt(p), order)

CommandsInv == \A p \in Proc :
  IF issued[p]
  THEN \E order \in {"agreed", "reverse"} :
         (option = "IDMODE_LISTS" => order = "agreed") /\ ListsOf(p, order)
  ELSE plist[p] = Nobody

ModesInv == \A p \in Proc :
  /\ identMode[p] # "IDLE" => session[p] >= 1
  /\ identMode[p] \in {"BUSY", "THROWN"} => issued[p]
  /\ identMode[p] # "BUSY" => waiting[p] = {}
  /\ \A q \in waiting[p] : Shared(p, q, session[p]) # {}
  /\ \A q \in Proc : indexmap[p][q] =
       IF identMode[p] = "BUSY" THEN TableOf(p, q, session[p]) ELSE Nothing

\* Who has passed has found no two tuples alike.
ClearInv == \A p, q \in Proc, n \in 1..Sessions : Passed(p, n) => ~Ambiguous(TableOf(p, q, n))

ThrownInv == \A p \in Proc : identMode[p] = "THROWN" =>
  \E q \in Proc : Ambiguous(TableOf(p, q, session[p]))

\* No answer comes before the partner has sent it.
AnswersInv == \A p, q \in Proc, n \in 1..Sessions :
  Received(p, q, n) /\ Shared(p, q, n) # {} => Passed(q, n)

\* m is what q sends to p in the n-th identification.
LetterIs(m, q, p, n) ==
  /\ Cardinality(DOMAIN m) = Cardinality(Shared(p, q, n))
  /\ \A x \in Shared(p, q, n) :
       /\ TableOf(p, q, n)[x] \in DOMAIN m
       /\ m[TableOf(p, q, n)[x]] = [gid |-> FirstGid[q][x], prio |-> prio[q][x]]

ChannelIs(q, p, ks) ==
  /\ Len(channel[q][p]) = Len(ks)
  /\ \A i \in 1..Len(ks) : LetterIs(channel[q][p][i], q, p, ks[i])
  /\ \A i, j \in 1..Len(ks) : i < j => ks[i] < ks[j]
  /\ \A n \in 1..Sessions : Pending(q, p, n) <=> \E i \in 1..Len(ks) : ks[i] = n

ChannelInv == \A q, p \in Proc : \E ks \in Seq(1..Sessions) : ChannelIs(q, p, ks)

Letters == UNION {[S -> [gid : Nat, prio : Prio]] : S \in SUBSET Nat}

\* The types, as far as the invariant does not say more.
ShapeInv ==
  /\ option \in {"IDMODE_LISTS", "IDMODE_SETS"} /\ created \in Orders
  /\ identMode \in [Proc -> {"IDLE", "CMDS", "BUSY", "THROWN"}]
  /\ session \in [Proc -> 0..Sessions]
  /\ issued \in [Proc -> BOOLEAN]
  /\ gid \in [Proc -> [Obj -> Nat]]
  /\ prio \in [Proc -> [Obj -> Prio]]
  /\ plist = [p \in Proc |-> [q \in Proc |-> plist[p][q]]]
  /\ indexmap = [p \in Proc |-> [q \in Proc |-> indexmap[p][q]]]
  /\ waiting \in [Proc -> SUBSET Proc]
  /\ channel \in [Proc -> [Proc -> Seq(Letters)]]
  /\ coupling \in [Proc -> [Obj -> [Proc -> {0} \cup Prio]]]

IInv == /\ ShapeInv /\ GidInv /\ CouplingInv /\ CommandsInv /\ ModesInv
        /\ ClearInv /\ ThrownInv /\ AnswersInv /\ ChannelInv

LEMMA Stable ==
  ASSUME created' = created, option' = option
  PROVE  /\ FirstGid' = FirstGid
         /\ Final(FirstGid)' = Final(FirstGid)
         /\ \A p, q, n : TableOf(p, q, n)' = TableOf(p, q, n)
<1>1. FirstGid' = FirstGid
  BY DEF FirstGid
<1>2. Final(FirstGid)' = Final(FirstGid)
  BY <1>1 DEF Final
<1>3. ASSUME NEW p, NEW q, NEW n PROVE TableOf(p, q, n)' = TableOf(p, q, n)
  BY <1>2 DEF TableOf
<1> QED  BY <1>1, <1>2, <1>3

-------------------------------------------------------------------------------
(* The global ids.                                                           *)

\* F gives the copies global ids of their own.
Distinct(F) ==
  /\ \A x \in Obj : \A q \in Owners[x] : F[q][x] \in Nat /\ F[q][x] >= GidBase
  /\ \A x, y \in Obj : \A q \in Owners[x], r \in Owners[y] :
       F[q][x] = F[r][y] => q = r /\ x = y

(* MakeUnique gives a number only once.                                      *)
LEMMA UniqueDigits ==
  ASSUME NEW n \in Nat, NEW m \in Nat, NEW p \in Nat, NEW q \in Nat, NEW G \in Nat,
         p < G, q < G, n * G + p = m * G + q
  PROVE  n = m /\ p = q
<1>1. ASSUME NEW i \in Nat, NEW j \in Nat, i < j PROVE i * G + G <= j * G
  <2>1. PICK k \in Nat : j = i + 1 + k
    <3>1. j - i - 1 \in Nat /\ j = i + 1 + (j - i - 1)
      BY <1>1
    <3> QED  BY <3>1
  <2>2. j * G = i * G + G + k * G
    BY <2>1
  <2>3. k * G \in Nat /\ i * G \in Nat
    OBVIOUS
  <2> QED  BY <2>2, <2>3
<1>2. n * G \in Nat /\ m * G \in Nat
  OBVIOUS
<1>3. ~(n < m)
  BY <1>1, <1>2
<1>4. ~(m < n)
  BY <1>1, <1>2
<1>5. n = m
  BY <1>3, <1>4
<1> QED  BY <1>2, <1>5

LEMMA FirstGidDistinct ==
  ASSUME created \in Orders
  PROVE  Distinct(FirstGid)
<1> DEFINE at(p, x) == CHOOSE n \in DOMAIN created[p] : created[p][n] = x
<1>1. ASSUME NEW x \in Obj, NEW p \in Owners[x]
      PROVE  /\ p \in Proc /\ p \in Nat /\ p < GidBase /\ at(p, x) \in Nat /\ at(p, x) >= 1
             /\ created[p][at(p, x)] = x /\ FirstGid[p][x] = at(p, x) * GidBase + p
  <2>1. p \in Proc /\ p \in Nat /\ p < GidBase /\ created[p] \in Seq(Obj)
    BY IdentAssumption
  <2>2. \E n \in DOMAIN created[p] : created[p][n] = x
    BY <2>1, ContractKept DEF Created
  <2>3. at(p, x) \in DOMAIN created[p] /\ created[p][at(p, x)] = x
    BY <2>2
  <2>4. at(p, x) \in Nat /\ at(p, x) >= 1
    BY <2>1, <2>3
  <2>5. FirstGid[p][x] = at(p, x) * GidBase + p
    BY <2>1 DEF FirstGid, MakeUnique
  <2> QED  BY <2>1, <2>3, <2>4, <2>5
<1> HIDE DEF at
<1>2. GidBase \in Nat
  BY IdentAssumption
<1>3. ASSUME NEW x \in Obj, NEW p \in Owners[x]
      PROVE  FirstGid[p][x] \in Nat /\ FirstGid[p][x] >= GidBase
  <2> DEFINE k == at(p, x)
  <2>1. k \in Nat /\ k >= 1 /\ p \in Nat /\ FirstGid[p][x] = k * GidBase + p
    BY <1>1
  <2> HIDE DEF k
  <2>2. PICK j \in Nat : k = j + 1
    <3>1. k - 1 \in Nat /\ k = (k - 1) + 1
      BY <2>1
    <3> QED  BY <3>1
  <2>3. k * GidBase = j * GidBase + GidBase /\ j * GidBase \in Nat
    BY <2>2, <1>2
  <2> QED  BY <2>1, <2>3, <1>2
<1>4. ASSUME NEW x \in Obj, NEW y \in Obj, NEW p \in Owners[x], NEW q \in Owners[y],
             FirstGid[p][x] = FirstGid[q][y]
      PROVE  p = q /\ x = y
  <2>1. at(p, x) = at(q, y) /\ p = q
    <3>1. /\ at(p, x) \in Nat /\ at(q, y) \in Nat /\ p \in Nat /\ q \in Nat
          /\ p < GidBase /\ q < GidBase
          /\ at(p, x) * GidBase + p = at(q, y) * GidBase + q
      BY <1>1, <1>4
    <3> QED  BY <3>1, <1>2, UniqueDigits
  <2>2. created[p][at(p, x)] = x /\ created[q][at(q, y)] = y
    BY <1>1
  <2> QED  BY <2>1, <2>2
<1> QED  BY <1>3, <1>4 DEF Distinct

LEMMA MinIs ==
  ASSUME NEW S \in SUBSET Nat, NEW m \in S, \A n \in S : m <= n
  PROVE  Min(S) = m
<1>1. Min(S) = CHOOSE k \in S : \A n \in S : k <= n
  BY DEF Min
<1>2. \A k \in S : (\A n \in S : k <= n) => k = m
  OBVIOUS
<1> QED  BY <1>1, <1>2

LEMMA FinalIs ==
  ASSUME NEW F, Distinct(F), NEW x \in Obj, Owners[x] # {}
  PROVE  /\ \E q \in Owners[x] : Final(F)[x] = F[q][x]
         /\ \A q \in Owners[x] : Final(F)[x] <= F[q][x]
         /\ Final(F)[x] = Min({F[q][x] : q \in Owners[x]})
<1> DEFINE S == {F[q][x] : q \in Owners[x]}
<1>1. S \in SUBSET Nat /\ S # {}
  BY DEF Distinct
<1>2. PICK m \in S : \A n \in S : m <= n
  <2> HIDE DEF S
  <2> QED  BY <1>1, Smallest
<1>3. Min(S) = m
  <2> HIDE DEF S
  <2> QED  BY <1>1, <1>2, MinIs
<1>4. Final(F)[x] = Min(S)
  BY DEF Final
<1> QED  BY <1>2, <1>3, <1>4

(* The final global ids and those p knows at its commands both fit.          *)
LEMMA FinalFits ==
  ASSUME NEW F, Distinct(F), NEW p, NEW q, NEW n \in Nat
  PROVE  Fits(p, q, n, Final(F), Final(F))
<1>1. \A x \in Obj : Final(F)[x] \in Nat
  <2> TAKE x \in Obj
  <2>1. CASE Owners[x] = {}
    BY <2>1 DEF Final
  <2>2. CASE Owners[x] # {}
    BY <2>2, FinalIs DEF Distinct
  <2> QED  BY <2>1, <2>2
<1>2. Final(F) \in [Obj -> Nat]
  BY <1>1 DEF Final
<1>3. \A x \in Common(p, q, n) : x \in Obj /\ \E r \in Owners[x] : Final(F)[x] = F[r][x]
  BY FinalIs DEF Common
<1> QED  BY <1>2, <1>3 DEF Fits, Distinct

LEMMA GidsFit ==
  ASSUME Distinct(FirstGid), NEW p, NEW q, session[p] \in Nat
  PROVE  Fits(p, q, session[p], Final(FirstGid), GidsAt(p))
<1> DEFINE F == FirstGid
<1>1. \A x \in Obj : GidsAt(p)[x] = IF ~(p \in Owners[x]) THEN 0
                                    ELSE IF Session[x] < session[p] THEN Final(F)[x]
                                    ELSE F[p][x]
  BY DEF GidsAt
<1>2. \A x \in Obj : Final(F)[x] \in Nat
  BY FinalFits DEF Fits
<1>3. \A x \in Obj : Owners[x] # {} => \E r \in Owners[x] : Final(F)[x] = F[r][x]
  BY FinalIs
<1>4. \A x \in Obj : p \in Owners[x] => \E r \in Owners[x] : GidsAt(p)[x] = F[r][x]
  BY <1>1, <1>3
<1>5. GidsAt(p) \in [Obj -> Nat]
  BY <1>1, <1>2 DEF GidsAt, Distinct
<1>6. \A x \in Common(p, q, session[p]) : x \in Obj /\ p \in Owners[x]
  BY DEF Common
<1>7. \A x, y \in Common(p, q, session[p]) : GidsAt(p)[x] = GidsAt(p)[y] => x = y
  BY <1>4, <1>6 DEF Distinct
<1>8. \A x \in Common(p, q, session[p]) : GidsAt(p)[x] >= GidBase
  BY <1>4, <1>6 DEF Distinct
<1>9. \A x \in Common(p, q, session[p]) : Session[x] < session[p] => GidsAt(p)[x] = Final(F)[x]
  BY <1>1, <1>6
<1> QED  BY <1>5, <1>7, <1>8, <1>9 DEF Fits

-------------------------------------------------------------------------------
(* What the invariant says about a state.                                    *)

LEMMA TableFacts ==
  ASSUME created \in Orders, option \in {"IDMODE_LISTS", "IDMODE_SETS"},
         NEW p, NEW q, NEW n \in Nat
  PROVE  /\ TableOf(p, q, n) = TableOf(q, p, n)
         /\ DOMAIN TableOf(p, q, n) = Shared(p, q, n)
         /\ IsTable(TableOf(p, q, n), Shared(p, q, n))
         /\ Fits(p, q, n, Final(FirstGid), Final(FirstGid))
<1>1. Fits(p, q, n, Final(FirstGid), Final(FirstGid))
  BY FirstGidDistinct, FinalFits
<1>2. Shared(p, q, n) = Shared(q, p, n)
  BY SharedFacts
<1>3. TableOf(p, q, n) = TableOf(q, p, n)
  BY <1>2 DEF TableOf, FinalTable
<1>4. /\ DOMAIN FinalTable(option, p, q, n, Final(FirstGid)) = Shared(p, q, n)
      /\ IsTable(FinalTable(option, p, q, n, Final(FirstGid)), Shared(p, q, n))
  BY <1>1, NoCycle
<1> QED  BY <1>1, <1>3, <1>4 DEF TableOf

\* An identification with p, once begun by p, is over or is the present one.
LEMMA HeardFacts ==
  ASSUME ShapeInv, ModesInv, GidInv, NEW p \in Proc, NEW x \in Obj, p \in Owners[x]
  PROVE  /\ session[p] > Session[x] => Heard(p, x) = Partners(p, x)
                                       /\ gid[p][x] = Final(FirstGid)[x]
         /\ session[p] = Session[x] /\ identMode[p] = "IDLE" =>
              Heard(p, x) = Partners(p, x) /\ gid[p][x] = Final(FirstGid)[x]
         /\ session[p] < Session[x] \/ (session[p] = Session[x] /\ identMode[p] \in {"CMDS", "THROWN"})
              => Heard(p, x) = {} /\ gid[p][x] = FirstGid[p][x]
<1>1. session[p] \in Nat /\ Session[x] \in Nat /\ Session[x] >= 1
  BY ObjFacts DEF ShapeInv
<1>2. session[p] > Session[x] \/ (session[p] = Session[x] /\ identMode[p] = "IDLE")
        => \A q : Received(p, q, Session[x])
  BY <1>1 DEF Received, Passed, ModesInv
<1>3. session[p] < Session[x] \/ (session[p] = Session[x] /\ identMode[p] \in {"CMDS", "THROWN"})
        => \A q : ~Received(p, q, Session[x])
  BY <1>1 DEF Received, Passed
<1>4. (\A q : Received(p, q, Session[x])) => Heard(p, x) = Partners(p, x)
  BY DEF Heard
<1>5. (\A q : ~Received(p, q, Session[x])) => Heard(p, x) = {}
  BY DEF Heard
<1>6. Heard(p, x) = {} => gid[p][x] = FirstGid[p][x]
  BY DEF GidInv
<1>7. ASSUME Heard(p, x) = Partners(p, x) PROVE gid[p][x] = Final(FirstGid)[x]
  <2> DEFINE S == {FirstGid[q][x] : q \in Owners[x]}
  <2>1. {p} \cup Heard(p, x) = Owners[x]
    BY <1>7 DEF Partners
  <2>2. gid[p][x] \in S /\ \A m \in S : gid[p][x] <= m
    BY <2>1 DEF GidInv
  <2>3. Distinct(FirstGid)
    BY FirstGidDistinct DEF ShapeInv
  <2>4. S \in SUBSET Nat
    BY <2>3 DEF Distinct
  <2>5. Final(FirstGid)[x] = Min(S)
    BY <2>3, FinalIs
  <2> HIDE DEF S
  <2> QED  BY <2>2, <2>4, <2>5, MinIs
<1> QED  BY <1>2, <1>3, <1>4, <1>5, <1>6, <1>7

(* Nothing of the identification has arrived before p has sent its tables.   *)
LEMMA GidsNow ==
  ASSUME ShapeInv, ModesInv, GidInv, NEW p \in Proc, identMode[p] = "CMDS"
  PROVE  gid[p] = GidsAt(p)
<1>1. \A x \in Obj : gid[p][x] = IF ~(p \in Owners[x]) THEN 0
                            ELSE IF Session[x] < session[p] THEN Final(FirstGid)[x]
                            ELSE FirstGid[p][x]
  <2> TAKE x \in Obj
  <2>1. CASE ~(p \in Owners[x])
    BY <2>1 DEF GidInv
  <2>2. CASE p \in Owners[x]
    <3>1. session[p] \in Nat /\ Session[x] \in Nat
      BY ObjFacts DEF ShapeInv
    <3>2. CASE Session[x] < session[p]
      BY <2>2, <3>1, <3>2, HeardFacts
    <3>3. CASE ~(Session[x] < session[p])
      BY <2>2, <3>1, <3>3, HeardFacts
    <3> QED  BY <3>2, <3>3
  <2> QED  BY <2>1, <2>2
<1>2. gid[p] = [x \in Obj |-> gid[p][x]]
  BY DEF ShapeInv
<1> QED  BY <1>1, <1>2 DEF GidsAt

\* What IdentifyEnd sorts, whatever the order of the commands.
(* p sorts its tuples into the tables it has in common with its partners.    *)
LEMMA SortedIs ==
  ASSUME ShapeInv, CommandsInv, NEW p \in Proc, issued[p]
  PROVE  /\ Sorted(p) = [q \in Proc |-> TableOf(p, q, session[p])]
         /\ \A q \in Proc : DOMAIN plist[p][q] = Shared(p, q, session[p])
         /\ \A q \in Proc : ~Cyclic(plist[p][q], Sorted(p)[q])
         /\ \A q \in Proc : \A x \in Shared(p, q, session[p]) : plist[p][q][x].gid = FirstGid[p][x]
<1>0. session[p] \in Nat /\ option \in {"IDMODE_LISTS", "IDMODE_SETS"} /\ created \in Orders
  BY DEF ShapeInv
<1>1. PICK order \in {"agreed", "reverse"} :
        (option = "IDMODE_LISTS" => order = "agreed") /\ ListsOf(p, order)
  BY DEF CommandsInv
<1>2. ASSUME NEW q \in Proc
      PROVE  /\ DOMAIN plist[p][q] = Shared(p, q, session[p])
             /\ IdentifySort(option, plist[p][q]) = TableOf(p, q, session[p])
             /\ DOMAIN TableOf(p, q, session[p]) = Shared(p, q, session[p])
             /\ \A x \in Shared(p, q, session[p]) : plist[p][q][x].gid = FirstGid[p][x]
  <2>1. plist[p][q] = IdentifyIdEntry(Shared(p, q, session[p]), GidsAt(p), order)
    BY <1>1 DEF ListsOf
  <2>2. Fits(p, q, session[p], Final(FirstGid), GidsAt(p))
    BY <1>0, FirstGidDistinct, GidsFit
  <2>3. Fits(p, q, session[p], Final(FirstGid), Final(FirstGid))
    BY <1>0, TableFacts
  <2>4. IdentifySort(option, plist[p][q]) = TableOf(p, q, session[p])
    BY <1>0, <1>1, <2>1, <2>2, <2>3, SortSame DEF TableOf
  <2>5. \A x \in Shared(p, q, session[p]) :
          /\ x \in Obj /\ p \in Owners[x] /\ ~(Session[x] < session[p])
          /\ plist[p][q][x].gid = GidsAt(p)[x]
    BY <1>0, <2>1 DEF Shared, IdentifyIdEntry
  <2>6. \A x \in Shared(p, q, session[p]) : plist[p][q][x].gid = FirstGid[p][x]
    BY <2>5 DEF GidsAt
  <2> QED  BY <1>0, <2>1, <2>4, <2>6, TableFacts DEF IdentifyIdEntry
<1> QED  BY <1>2 DEF Sorted, Cyclic

-------------------------------------------------------------------------------
(* The invariant implies the properties.                                     *)

LEMMA EntryTypes ==
  ASSUME NEW p, NEW q, NEW n \in Nat, NEW final, NEW gids, Fits(p, q, n, final, gids),
         NEW order \in {"agreed", "reverse"}, NEW x \in Shared(p, q, n)
  PROVE  IdentifyIdEntry(Shared(p, q, n), gids, order)[x] \in [gid : Nat, ids : Seq(IdentInfo)]
<1> DEFINE D == 1..Len(Identifiers[x])
           g == Given(x, order)
           entry == IdentifyIdEntry(Shared(p, q, n), gids, order)[x]
<1>1. x \in Obj /\ Len(Identifiers[x]) \in Nat
  BY ObjFacts DEF Shared
<1>2. g \in [D -> Idents(p, q, n)]
  BY GivenFacts
<1>3. \A k \in D : [typeId |-> g[k][1], id |-> IF g[k][1] = ID_OBJECT THEN gids[g[k][2]] ELSE g[k][2]]
                     \in IdentInfo
  <2> TAKE k \in D
  <2>1. g[k] \in Idents(p, q, n)
    BY <1>2
  <2> DEFINE i == g[k]
  <2>2. /\ i[1] \in {ID_OBJECT, ID_NUMBER, ID_STRING}
        /\ i[1] = ID_OBJECT => i[2] \in Obj
        /\ i[1] # ID_OBJECT => i[2] \in Nat
    <3> HIDE DEF g
    <3> QED  BY <2>1 DEF Idents, Common
  <2>3. i[1] = ID_OBJECT => gids[i[2]] \in Nat
    BY <2>2 DEF Fits
  <2> DEFINE v == IF i[1] = ID_OBJECT THEN gids[i[2]] ELSE i[2]
  <2>4. v \in Nat
    <3> HIDE DEF i
    <3> QED  BY <2>2, <2>3
  <2>5. i[1] \in {ID_OBJECT, ID_NUMBER, ID_STRING}
    BY <2>2
  <2>6. [typeId |-> i[1], id |-> v] \in IdentInfo
    <3> HIDE DEF i, v
    <3> QED  BY <2>4, <2>5 DEF IdentInfo
  <2> QED  BY <2>6
<1>4. entry.ids = [k \in D |->
        [typeId |-> g[k][1], id |-> IF g[k][1] = ID_OBJECT THEN gids[g[k][2]] ELSE g[k][2]]]
  <2>1. DOMAIN g = D
    BY <1>2
  <2> HIDE DEF D
  <2> QED  BY <2>1 DEF IdentifyIdEntry
<1>5. entry.ids \in [D -> IdentInfo]
  <2> HIDE DEF g, entry, D
  <2> QED  BY <1>3, <1>4
<1>6. entry.ids \in Seq(IdentInfo)
  BY <1>1, <1>5
<1>7. entry = [gid |-> entry.gid, ids |-> entry.ids] /\ entry.gid \in Nat
  BY <1>1 DEF IdentifyIdEntry, Fits
<1>8. entry \in [gid : Nat, ids : Seq(IdentInfo)]
  <2> HIDE DEF entry
  <2> QED  BY <1>6, <1>7
<1> QED  BY <1>8

LEMMA Types ==
  ASSUME IInv
  PROVE  TypeOK
<1>0. ShapeInv /\ ModesInv /\ CommandsInv
  BY DEF IInv
<1>1. \A p \in Proc : session[p] \in Nat
  BY <1>0 DEF ShapeInv
<1>2. ASSUME NEW p \in Proc, NEW q \in Proc, NEW x \in DOMAIN plist[p][q]
      PROVE  {p, q} \subseteq Owners[x] /\ plist[p][q][x] \in [gid : Nat, ids : Seq(IdentInfo)]
  <2>1. issued[p]
    BY <1>0, <1>2 DEF CommandsInv, Nobody, Nothing
  <2>2. PICK order \in {"agreed", "reverse"} : ListsOf(p, order)
    BY <1>0, <2>1 DEF CommandsInv
  <2>3. plist[p][q] = IdentifyIdEntry(Shared(p, q, session[p]), GidsAt(p), order)
    BY <2>2 DEF ListsOf
  <2>4. x \in Shared(p, q, session[p])
    BY <2>3 DEF IdentifyIdEntry
  <2>5. Fits(p, q, session[p], Final(FirstGid), GidsAt(p))
    BY <1>0, <1>1, FirstGidDistinct, GidsFit DEF ShapeInv
  <2>6. plist[p][q][x] \in [gid : Nat, ids : Seq(IdentInfo)]
    BY <1>1, <2>3, <2>4, <2>5, EntryTypes
  <2> QED  BY <1>1, <2>4, <2>6, SharedFacts
<1>3. ASSUME NEW p \in Proc, NEW q \in Proc, NEW x \in DOMAIN indexmap[p][q]
      PROVE  {p, q} \subseteq Owners[x] /\ indexmap[p][q][x] \in Nat
  <2>1. identMode[p] = "BUSY" /\ indexmap[p][q] = TableOf(p, q, session[p])
    BY <1>0, <1>3 DEF ModesInv, Nothing
  <2>2. IsTable(indexmap[p][q], Shared(p, q, session[p]))
    BY <1>0, <1>1, <2>1, TableFacts DEF ShapeInv
  <2>3. x \in Shared(p, q, session[p]) /\ indexmap[p][q][x] \in Nat
    BY <2>2 DEF IsTable
  <2> QED  BY <1>1, <2>3, SharedFacts
<1>4. ASSUME NEW p \in Proc, NEW q \in Proc, NEW n \in DOMAIN channel[p][q],
             NEW i \in DOMAIN channel[p][q][n]
      PROVE  channel[p][q][n][i] \in [gid : Nat, prio : Prio]
  <2>1. channel[p][q] \in Seq(Letters)
    BY <1>0 DEF ShapeInv
  <2>2. channel[p][q][n] \in Letters
    BY <2>1
  <2> QED  BY <2>2 DEF Letters
<1> QED  BY <1>0, <1>2, <1>3, <1>4 DEF TypeOK, ShapeInv

LEMMA Pairs ==
  ASSUME IInv
  PROVE  PairsMatch
<1>0. ShapeInv /\ ModesInv
  BY DEF IInv
<1>1. ASSUME NEW p \in Proc, NEW q \in Proc, {identMode[p], identMode[q]} = {"BUSY"},
             session[p] = session[q]
      PROVE  indexmap[p][q] = indexmap[q][p]
  <2>1. identMode[p] = "BUSY" /\ identMode[q] = "BUSY" /\ session[p] \in Nat
    <3>1. identMode[p] \in {identMode[p], identMode[q]} /\ identMode[q] \in {identMode[p], identMode[q]}
      OBVIOUS
    <3>2. identMode[p] = "BUSY" /\ identMode[q] = "BUSY"
      BY <1>1, <3>1
    <3> QED  BY <1>0, <3>2 DEF ShapeInv
  <2>2. TableOf(p, q, session[p]) = TableOf(q, p, session[p])
    BY <1>0, <2>1, TableFacts DEF ShapeInv
  <2> QED  BY <1>0, <1>1, <2>1, <2>2 DEF ModesInv
<1> QED  BY <1>1 DEF PairsMatch

LEMMA Identifies ==
  ASSUME IInv
  PROVE  IdentifiedRight
<1>0. ShapeInv /\ ModesInv /\ GidInv /\ CouplingInv /\ Distinct(FirstGid)
  BY FirstGidDistinct DEF IInv, ShapeInv
<1>1. ASSUME NEW x \in Obj, Identified(x), NEW p \in Owners[x]
      PROVE  p \in Proc /\ Heard(p, x) = Partners(p, x) /\ gid[p][x] = Final(FirstGid)[x]
  <2>1. p \in Proc
    BY ObjFacts
  <2>2. session[p] > Session[x] \/ (session[p] = Session[x] /\ identMode[p] = "IDLE")
    BY <1>1 DEF Identified
  <2> QED  BY <1>0, <2>1, <2>2, HeardFacts
<1>2. ASSUME NEW x \in Obj, NEW p \in Proc, p \in Owners[x], Identified(x),
             NEW q \in Proc, NEW y \in Obj, gid[q][y] = gid[p][x]
      PROVE  y = x
  <2>1. PICK r \in Owners[x] : gid[p][x] = FirstGid[r][x]
    BY <1>0, <1>1, <1>2, FinalIs
  <2>2. q \in Owners[y]
    <3>1. FirstGid[r][x] \in Nat /\ FirstGid[r][x] >= GidBase /\ GidBase \in Nat /\ GidBase > 0
      <4>1. Cardinality(Obj) \in Nat
        BY IdentAssumption, FS_CardinalityType
      <4> QED  BY <1>0, <4>1, IdentAssumption DEF Distinct
    <3>2. ~(q \in Owners[y]) => gid[q][y] = 0
      BY <1>0 DEF GidInv
    <3> QED  BY <1>2, <2>1, <3>1, <3>2
  <2>3. PICK s \in {q} \cup Heard(q, y) : gid[q][y] = FirstGid[s][y]
    BY <1>0, <2>2 DEF GidInv
  <2>4. s \in Owners[y]
    BY <2>2, <2>3 DEF Heard, Partners
  <2> QED  BY <1>0, <1>2, <2>1, <2>3, <2>4 DEF Distinct
<1>3. SameGid
  <2>1. ASSUME NEW x \in Obj, NEW p \in Proc, p \in Owners[x], Identified(x)
        PROVE  gid[p][x] = Min({FirstGid[q][x] : q \in Owners[x]})
    BY <1>0, <1>1, <2>1, FinalIs
  <2> QED  BY <1>2, <2>1 DEF SameGid
<1>4. ASSUME NEW x \in Obj, Identified(x), NEW p \in Owners[x], NEW q \in Proc
      PROVE  coupling[p][x][q] = IF q \in Partners(p, x) THEN prio[q][x] ELSE 0
  BY <1>0, <1>1, <1>4 DEF CouplingInv
<1>5. CouplingsRight
  BY <1>4 DEF CouplingsRight
<1> QED  BY <1>3, <1>5 DEF IdentifiedRight

LEMMA AllThrow ==
  ASSUME IInv
  PROVE  ThrowsTogether
<1>0. ShapeInv /\ ModesInv /\ ThrownInv /\ ClearInv
  BY DEF IInv
<1>1. ASSUME NEW p \in Proc, identMode[p] = "THROWN"
      PROVE  \E x, y \in Obj :
               /\ x # y /\ SameIdentifiers(x, y) /\ Session[x] = session[p]
               /\ \A q \in Owners[x] \cap Owners[y] :
                    /\ session[q] <= session[p]
                    /\ session[q] = session[p] => identMode[q] \in {"CMDS", "THROWN"}
  <2> DEFINE n == session[p]
  <2>1. n \in 1..Sessions /\ n \in Nat /\ option \in {"IDMODE_LISTS", "IDMODE_SETS"} /\ created \in Orders
    BY <1>0, <1>1, IdentAssumption DEF ShapeInv, ModesInv
  <2>2. PICK r \in Proc : Ambiguous(TableOf(p, r, n))
    BY <1>0, <1>1 DEF ThrownInv
  <2>3. PICK x, y \in Shared(p, r, n) : x # y /\ Alike(option, x, y)
    BY <2>1, <2>2, TableFacts, AmbiguousAlike DEF TableOf
  <2>4. /\ x \in Obj /\ y \in Obj /\ Session[x] = n /\ Session[y] = n
        /\ p \in Owners[x] /\ p \in Owners[y]
    BY <2>3 DEF Shared
  <2>5. ASSUME NEW q \in Owners[x] \cap Owners[y]
        PROVE  /\ session[q] <= n
               /\ session[q] = n => identMode[q] \in {"CMDS", "THROWN"}
    <3>0. q \in Proc /\ session[q] \in Nat
      BY <1>0, <2>4, ObjFacts DEF ShapeInv
    <3>1. CASE q = p
      BY <1>1, <2>1, <3>1
    <3>2. CASE q # p
      <4>1. x \in Shared(q, p, n) /\ y \in Shared(q, p, n)
        BY <2>4, <2>5, <3>2 DEF Shared, Partners
      <4>2. Ambiguous(TableOf(q, p, n))
        BY <2>1, <2>3, <4>1, TableFacts, AlikeAmbiguous DEF TableOf
      <4>3. ~Passed(q, n)
        BY <1>0, <2>1, <3>0, <4>2 DEF ClearInv
      <4>4. ~(n < session[q]) /\ ~(n = session[q] /\ identMode[q] \in {"BUSY", "IDLE"})
        BY <2>1, <4>3 DEF Passed
      <4>5. identMode[q] \in {"IDLE", "CMDS", "BUSY", "THROWN"}
        BY <1>0, <3>0 DEF ShapeInv
      <4> QED  BY <2>1, <3>0, <4>4, <4>5
    <3> QED  BY <3>1, <3>2
  <2>6. SameIdentifiers(x, y)
    BY <2>3 DEF Alike, SameIdentifiers
  <2> QED  BY <2>3, <2>4, <2>5, <2>6
<1> QED  BY <1>1 DEF ThrowsTogether

(* What p waits for has been sent, or the partner has not passed yet.        *)
LEMMA SentOrNotPassed ==
  ASSUME IInv, NEW p \in Proc, NEW q \in Proc, q \in waiting[p]
  PROVE  /\ session[p] \in 1..Sessions /\ session[p] \in Nat /\ session[q] \in Nat
         /\ \/ channel[q][p] # << >>
            \/ session[q] < session[p]
            \/ session[q] = session[p] /\ identMode[q] \in {"CMDS", "THROWN"}
<1>0. ShapeInv /\ ModesInv /\ ChannelInv
  BY DEF IInv
<1> DEFINE n == session[p]
<1>1. identMode[p] = "BUSY" /\ n \in 1..Sessions /\ Shared(p, q, n) # {}
  BY <1>0, IdentAssumption DEF ShapeInv, ModesInv
<1>2. session[q] \in Nat /\ n \in Nat /\ identMode[q] \in {"IDLE", "CMDS", "BUSY", "THROWN"}
  BY <1>0, <1>1 DEF ShapeInv
<1>3. CASE Passed(q, n)
  <2>1. Pending(q, p, n)
    BY <1>1, <1>3 DEF Pending, Received
  <2>2. PICK ks \in Seq(1..Sessions) : ChannelIs(q, p, ks)
    BY <1>0 DEF ChannelInv
  <2>3. Len(channel[q][p]) = Len(ks) /\ \E i \in 1..Len(ks) : ks[i] = n
    BY <1>1, <2>1, <2>2 DEF ChannelIs
  <2>4. channel[q][p] # << >>
    BY <2>2, <2>3
  <2> QED  BY <1>1, <1>2, <2>4
<1>4. CASE ~Passed(q, n)
  BY <1>1, <1>2, <1>4 DEF Passed
<1> QED  BY <1>3, <1>4

(* Who has thrown was given two objects with the same identifiers.           *)
LEMMA ThrownGivesAlike ==
  ASSUME IInv, NEW q \in Proc, identMode[q] = "THROWN"
  PROVE  session[q] \in Nat /\ session[q] >= 1 /\ GivesAlike(q, session[q])
<1>0. ShapeInv /\ ModesInv /\ ThrownInv
  BY DEF IInv
<1> DEFINE n == session[q]
<1>1. n \in Nat /\ n >= 1 /\ option \in {"IDMODE_LISTS", "IDMODE_SETS"} /\ created \in Orders
  BY <1>0 DEF ShapeInv, ModesInv
<1>2. PICK r \in Proc : Ambiguous(TableOf(q, r, n))
  BY <1>0 DEF ThrownInv
<1>3. PICK x, y \in Shared(q, r, n) : x # y /\ Alike(option, x, y)
  BY <1>1, <1>2, TableFacts, AmbiguousAlike DEF TableOf
<1>4. SameIdentifiers(x, y)
  BY <1>3 DEF Alike, SameIdentifiers
<1> QED  BY <1>1, <1>3, <1>4 DEF GivesAlike

LEMMA Answers ==
  ASSUME IInv
  PROVE  PartnersAnswer
<1>1. ASSUME NEW p \in Proc, NEW q \in Proc, q \in waiting[p],
             \A n \in 1..session[p] : ~GivesAlike(q, n), channel[q][p] = << >>
      PROVE  StillToSend(q, session[p])
  <2>1. /\ session[p] \in Nat /\ session[q] \in Nat
        /\ \/ session[q] < session[p]
           \/ session[q] = session[p] /\ identMode[q] \in {"CMDS", "THROWN"}
    BY <1>1, SentOrNotPassed
  <2>2. ASSUME identMode[q] = "THROWN" PROVE FALSE
    <3>1. session[q] >= 1 /\ GivesAlike(q, session[q])
      BY <2>2, ThrownGivesAlike
    <3>2. session[q] \in 1..session[p]
      BY <2>1, <3>1
    <3> QED  BY <1>1, <3>1, <3>2
  <2> QED  BY <2>1, <2>2 DEF StillToSend
<1> QED  BY <1>1 DEF PartnersAnswer

(* Of the processors that are blocked, take one of the least session: whom   *)
(* it waits for is in an earlier one, or has its commands before it.         *)
LEMMA LeadsOn ==
  ASSUME IInv
  PROVE  WaitingLeadsOn
<1> SUFFICES ASSUME \A q \in Proc : identMode[q] # "THROWN",
                    NEW p \in Proc, waiting[p] # {},
                    \A q \in Proc : session[q] <= session[p] => ~CanGoOn(q, session[p])
             PROVE  FALSE
  BY DEF WaitingLeadsOn
<1>0. ShapeInv /\ ModesInv
  BY DEF IInv
<1>1. \A q \in Proc : /\ session[q] \in Nat /\ waiting[q] \subseteq Proc
                      /\ identMode[q] \in {"IDLE", "CMDS", "BUSY"}
  BY <1>0 DEF ShapeInv
<1> DEFINE blocked == {q \in Proc : waiting[q] # {} /\ session[q] <= session[p]}
           S == {session[q] : q \in blocked}
<1>2. session[p] \in S /\ S \in SUBSET Nat
  BY <1>1
<1>3. PICK n \in S : \A m \in S : n <= m
  <2> HIDE DEF S
  <2> QED  BY <1>2, Smallest
<1>4. PICK q \in blocked : session[q] = n
  BY <1>3
<1>5. PICK r \in waiting[q] : r \in Proc
  BY <1>1, <1>4
<1>6. channel[r][q] = << >>
  BY <1>0, <1>4, <1>5 DEF CanGoOn, ModesInv
<1>7. \/ session[r] < session[q]
      \/ session[r] = session[q] /\ identMode[r] = "CMDS"
  BY <1>1, <1>4, <1>5, <1>6, SentOrNotPassed
<1>8. session[r] <= session[p] /\ ~CanGoOn(r, session[p])
  BY <1>1, <1>4, <1>5, <1>7
<1>9. session[r] < session[q] /\ session[r] < session[p] /\ identMode[r] = "BUSY"
  BY <1>1, <1>4, <1>5, <1>7, <1>8 DEF CanGoOn
<1>10. waiting[r] # {}
  BY <1>8, <1>9 DEF CanGoOn
<1>11. session[r] \in S
  BY <1>5, <1>8, <1>10
<1> QED  BY <1>1, <1>3, <1>4, <1>5, <1>9, <1>11

-------------------------------------------------------------------------------
(* The invariant holds initially.                                            *)

LEMMA InitIInv ==
  ASSUME Init
  PROVE  IInv
<1>1. Sessions \in Nat
  BY IdentAssumption
<1>2. created \in Orders /\ option \in {"IDMODE_LISTS", "IDMODE_SETS"} /\ Distinct(FirstGid)
  BY FirstGidDistinct DEF Init
<1>3. \A p \in Proc, n \in Nat : ~Passed(p, n)
  BY DEF Passed, Init
<1>4. \A p \in Proc, q \in Proc, n \in Nat : ~Received(p, q, n) /\ ~Pending(p, q, n)
  BY <1>3 DEF Received, Pending
<1>5. \A p \in Proc, x \in Obj : Heard(p, x) = {}
  <2> TAKE p \in Proc, x \in Obj
  <2>1. Partners(p, x) \subseteq Proc /\ Session[x] \in Nat
    BY ObjFacts DEF Partners
  <2> QED  BY <1>4, <2>1 DEF Heard
<1>6. \A p \in Proc, x \in Obj : p \in Owners[x] => FirstGid[p][x] \in Nat
  BY <1>2 DEF Distinct
<1>7. ShapeInv
  <2>1. gid \in [Proc -> [Obj -> Nat]]
    BY <1>6 DEF Init
  <2>2. channel \in [Proc -> [Proc -> Seq(Letters)]]
    BY DEF Init
  <2>3. /\ identMode \in [Proc -> {"IDLE", "CMDS", "BUSY", "THROWN"}]
        /\ session \in [Proc -> 0..Sessions]
        /\ issued \in [Proc -> BOOLEAN]
        /\ prio \in [Proc -> [Obj -> Prio]]
        /\ coupling \in [Proc -> [Obj -> [Proc -> {0} \cup Prio]]]
        /\ waiting \in [Proc -> SUBSET Proc]
    BY <1>1 DEF Init, Prio
  <2>4. /\ plist = [p \in Proc |-> [q \in Proc |-> plist[p][q]]]
        /\ indexmap = [p \in Proc |-> [q \in Proc |-> indexmap[p][q]]]
    BY DEF Init, Nobody
  <2> QED  BY <1>2, <2>1, <2>2, <2>3, <2>4 DEF ShapeInv
<1>8. GidInv
  <2>1. \A p \in Proc, x \in Obj : gid[p][x] = IF p \in Owners[x] THEN FirstGid[p][x] ELSE 0
    BY DEF Init
  <2> QED  BY <1>5, <1>6, <2>1 DEF GidInv
<1>9. CouplingInv
  BY <1>5 DEF CouplingInv, Init
<1>10. CommandsInv
  BY DEF CommandsInv, Init
<1>11. ModesInv
  BY DEF ModesInv, Init, Nobody
<1>12. ClearInv /\ AnswersInv
  BY <1>1, <1>3, <1>4 DEF ClearInv, AnswersInv
<1>13. ThrownInv
  BY DEF ThrownInv, Init
<1>14. ChannelInv
  <2>1. ASSUME NEW q \in Proc, NEW p \in Proc PROVE \E ks \in Seq(1..Sessions) : ChannelIs(q, p, ks)
    <3>1. channel[q][p] = << >>
      BY DEF Init
    <3>2. << >> \in Seq(1..Sessions) /\ Len(<< >>) = 0
      OBVIOUS
    <3>3. ChannelIs(q, p, << >>)
      BY <1>1, <1>4, <3>1, <3>2 DEF ChannelIs
    <3> QED  BY <3>2, <3>3
  <2> QED  BY <2>1 DEF ChannelInv
<1> QED  BY <1>7, <1>8, <1>9, <1>10, <1>11, <1>12, <1>13, <1>14 DEF IInv

-------------------------------------------------------------------------------
(* Steps in which nothing is sent and nothing received.                      *)

Quiet ==
  /\ created' = created /\ option' = option
  /\ gid' = gid /\ coupling' = coupling /\ channel' = channel
  /\ \A p \in Proc, n \in 1..Sessions : Passed(p, n)' <=> Passed(p, n)
  /\ \A p, q \in Proc, n \in 1..Sessions : Received(p, q, n)' <=> Received(p, q, n)
  /\ \A p \in Proc, x \in Obj :
       p \in Owners[x] /\ Partners(p, x) # {} /\ Passed(p, Session[x]) => prio'[p][x] = prio[p][x]

(* Such steps leave alone what is known of messages.                         *)
LEMMA QuietStep ==
  ASSUME IInv, Quiet
  PROVE  GidInv' /\ CouplingInv' /\ ClearInv' /\ AnswersInv' /\ ChannelInv'
<1>1. /\ FirstGid' = FirstGid
      /\ \A p, q, n : TableOf(p, q, n)' = TableOf(p, q, n)
  BY Stable DEF Quiet
<1>2. Sessions \in Nat
  BY IdentAssumption
<1>3. ASSUME NEW p \in Proc, NEW x \in Obj
      PROVE  Heard(p, x)' = Heard(p, x) /\ Partners(p, x) \subseteq Proc /\ Session[x] \in 1..Sessions
  <2>1. Partners(p, x) \subseteq Proc /\ Session[x] \in 1..Sessions
    BY <1>2, ObjFacts DEF Partners
  <2> QED  BY <2>1 DEF Heard, Quiet
<1>4. GidInv'
  BY <1>1, <1>3 DEF GidInv, Quiet, IInv
<1>5. CouplingInv'
  <2>1. ASSUME NEW p \in Proc, NEW x \in Obj, p \in Owners[x], NEW q \in Heard(p, x)
        PROVE  prio'[q][x] = prio[q][x]
    <3>1. q \in Partners(p, x) /\ Received(p, q, Session[x]) /\ q \in Proc /\ Session[x] \in 1..Sessions
      BY <1>3 DEF Heard
    <3>2. x \in Shared(p, q, Session[x])
      BY <2>1, <3>1 DEF Shared
    <3>3. Passed(q, Session[x])
      BY <3>1, <3>2 DEF IInv, AnswersInv
    <3>4. q \in Owners[x] /\ Partners(q, x) # {}
      BY <2>1, <3>1 DEF Partners
    <3> QED  BY <3>1, <3>3, <3>4 DEF Quiet
  <2>2. ASSUME NEW p \in Proc, NEW x \in Obj, NEW q \in Proc
        PROVE  coupling'[p][x][q] = IF p \in Owners[x] /\ q \in Heard(p, x)' THEN prio'[q][x] ELSE 0
    BY <1>3, <2>1 DEF CouplingInv, IInv, Quiet
  <2> QED  BY <2>2 DEF CouplingInv
<1>6. ClearInv'
  <2>1. \A p, q \in Proc, n \in 1..Sessions : Passed(p, n)' => ~Ambiguous(TableOf(p, q, n)')
    BY <1>1 DEF ClearInv, Quiet, IInv
  <2> QED  BY <2>1 DEF ClearInv
<1>7. AnswersInv'
  BY DEF AnswersInv, Quiet, IInv
<1>8. ASSUME NEW q \in Proc, NEW p \in Proc
      PROVE  (\E ks \in Seq(1..Sessions) : ChannelIs(q, p, ks))'
  <2>1. PICK ks \in Seq(1..Sessions) : ChannelIs(q, p, ks)
    BY DEF IInv, ChannelInv
  <2>2. ASSUME NEW n \in 1..Sessions PROVE Pending(q, p, n)' <=> Pending(q, p, n)
    BY DEF Pending, Quiet
  <2>3. ASSUME NEW n \in 1..Sessions, Pending(q, p, n), NEW x \in Shared(p, q, n)
        PROVE  prio'[q][x] = prio[q][x]
    <3>1. x \in Obj /\ Session[x] = n /\ q \in Owners[x] /\ Partners(q, x) # {}
      BY <2>3 DEF Shared, Partners
    <3> QED  BY <2>3, <3>1 DEF Pending, Quiet
  <2>4. ASSUME NEW i \in 1..Len(ks) PROVE LetterIs(channel[q][p][i], q, p, ks[i])'
    <3>1. LetterIs(channel[q][p][i], q, p, ks[i])
      BY <2>1 DEF ChannelIs
    <3>2. ks[i] \in 1..Sessions /\ Pending(q, p, ks[i])
      <4>1. ks[i] \in 1..Sessions
        BY <1>2, <2>1
      <4> QED  BY <2>1, <4>1 DEF ChannelIs
    <3>3. channel' = channel
      BY DEF Quiet
    <3>4. \A x \in Shared(p, q, ks[i]) : prio'[q][x] = prio[q][x]
      BY <2>3, <3>2
    <3> QED  BY <1>1, <3>1, <3>3, <3>4 DEF LetterIs
  <2>5. Len(channel'[q][p]) = Len(ks) /\ \A i, j \in 1..Len(ks) : i < j => ks[i] < ks[j]
    BY <2>1 DEF ChannelIs, Quiet
  <2>6. \A n \in 1..Sessions : Pending(q, p, n)' <=> \E i \in 1..Len(ks) : ks[i] = n
    BY <2>1, <2>2 DEF ChannelIs
  <2>7. ChannelIs(q, p, ks)'
    BY <2>4, <2>5, <2>6 DEF ChannelIs
  <2> QED  BY <2>7
<1>9. ChannelInv'
  BY <1>8 DEF ChannelInv
<1> QED  BY <1>4, <1>5, <1>6, <1>7, <1>9

\* A processor that has still to return from an identification has a message
\* under way at most for the next.
LEMMA PassedFacts ==
  ASSUME ShapeInv, NEW p \in Proc
  PROVE  /\ session[p] \in Nat /\ session[p] <= Sessions /\ Sessions \in Nat
         /\ identMode[p] \in {"IDLE", "CMDS", "BUSY", "THROWN"}
         /\ \A n \in 1..Sessions : n \in Nat /\ n >= 1
  BY IdentAssumption DEF ShapeInv

(* The next identification begins when all answers of the last have come.    *)
LEMMA BeginStep ==
  ASSUME IInv, NEW p \in Proc, DDD_IdentifyBegin(p)
  PROVE  IInv'
<1>0. ShapeInv /\ ModesInv /\ CommandsInv /\ ThrownInv
  BY DEF IInv
<1>1. /\ identMode[p] = "IDLE" /\ waiting[p] = {} /\ session[p] < Sessions
      /\ \A q \in Proc : identMode'[q] = IF q = p THEN "CMDS" ELSE identMode[q]
      /\ \A q \in Proc : session'[q] = IF q = p THEN session[p] + 1 ELSE session[q]
      /\ \A q \in Proc : issued'[q] = IF q = p THEN FALSE ELSE issued[q]
      /\ \A q \in Proc : plist'[q] = IF q = p THEN Nobody ELSE plist[q]
      /\ created' = created /\ option' = option /\ gid' = gid /\ prio' = prio
      /\ indexmap' = indexmap /\ waiting' = waiting /\ channel' = channel /\ coupling' = coupling
  BY <1>0 DEF DDD_IdentifyBegin, IdentStepMode, ShapeInv, ModesInv
<1>2. /\ FirstGid' = FirstGid /\ Final(FirstGid)' = Final(FirstGid)
      /\ \A q, r, n : TableOf(q, r, n)' = TableOf(q, r, n)
  BY <1>1, Stable
<1>3. \A q \in Proc, n \in 1..Sessions : Passed(q, n)' <=> Passed(q, n)
  <2> TAKE q \in Proc, n \in 1..Sessions
  <2>1. CASE q = p
    BY <1>0, <1>1, <2>1, PassedFacts DEF Passed
  <2>2. CASE q # p
    BY <1>1, <2>2 DEF Passed
  <2> QED  BY <2>1, <2>2
<1>4. \A q, r \in Proc, n \in 1..Sessions : Received(q, r, n)' <=> Received(q, r, n)
  <2> TAKE q, r \in Proc, n \in 1..Sessions
  <2>1. CASE q = p
    BY <1>1, <1>3, <2>1 DEF Received
  <2>2. CASE q # p
    BY <1>1, <1>3, <2>2 DEF Received
  <2> QED  BY <2>1, <2>2
<1>5. Quiet
  BY <1>1, <1>3, <1>4 DEF Quiet
<1>6. ShapeInv'
  <2>1. session' \in [Proc -> 0..Sessions] /\ identMode' \in [Proc -> {"IDLE", "CMDS", "BUSY", "THROWN"}]
        /\ issued' \in [Proc -> BOOLEAN]
    BY <1>0, <1>1, PassedFacts DEF ShapeInv, DDD_IdentifyBegin, IdentStepMode
  <2>2. plist' = [q \in Proc |-> [r \in Proc |-> plist'[q][r]]]
    BY <1>0 DEF ShapeInv, DDD_IdentifyBegin, Nobody
  <2> QED  BY <1>0, <1>1, <2>1, <2>2 DEF ShapeInv
<1>7. CommandsInv'
  <2>1. \A q \in Proc : q # p => GidsAt(q)' = GidsAt(q)
    BY <1>1, <1>2 DEF GidsAt
  <2>2. ASSUME NEW q \in Proc, issued'[q]
        PROVE  \E order \in {"agreed", "reverse"} :
                 (option' = "IDMODE_LISTS" => order = "agreed") /\ ListsOf(q, order)'
    <3>1. q # p /\ issued[q]
      BY <1>1, <2>2
    <3>2. PICK order \in {"agreed", "reverse"} :
            (option = "IDMODE_LISTS" => order = "agreed") /\ ListsOf(q, order)
      BY <1>0, <3>1 DEF CommandsInv
    <3>3. ListsOf(q, order)'
      BY <1>1, <2>1, <3>1, <3>2 DEF ListsOf
    <3> QED  BY <1>1, <3>2, <3>3
  <2>3. \A q \in Proc : ~issued'[q] => plist'[q] = Nobody
    BY <1>0, <1>1 DEF CommandsInv
  <2> QED  BY <2>2, <2>3 DEF CommandsInv
<1>8. ModesInv'
  <2>1. ASSUME NEW q \in Proc
        PROVE  /\ identMode'[q] # "IDLE" => session'[q] >= 1
               /\ identMode'[q] \in {"BUSY", "THROWN"} => issued'[q]
               /\ identMode'[q] # "BUSY" => waiting'[q] = {}
               /\ \A r \in waiting'[q] : Shared(q, r, session'[q]) # {}
               /\ \A r \in Proc : indexmap'[q][r] =
                    IF identMode'[q] = "BUSY" THEN TableOf(q, r, session[q])' ELSE Nothing
    <3>1. CASE q = p
      BY <1>0, <1>1, <3>1, PassedFacts DEF ModesInv
    <3>2. CASE q # p
      <4>1. session'[q] = session[q] /\ identMode'[q] = identMode[q] /\ issued'[q] = issued[q]
        BY <1>1, <3>2
      <4>2. \A r \in Proc : TableOf(q, r, session[q])' = TableOf(q, r, session[q])
        BY <1>2, <4>1
      <4> QED  BY <1>0, <1>1, <4>1, <4>2 DEF ModesInv
    <3> QED  BY <3>1, <3>2
  <2> QED  BY <2>1 DEF ModesInv
<1>9. ThrownInv'
  <2>1. ASSUME NEW q \in Proc, identMode'[q] = "THROWN"
        PROVE  \E r \in Proc : Ambiguous(TableOf(q, r, session[q])')
    BY <1>0, <1>1, <1>2, <2>1 DEF ThrownInv
  <2>2. ASSUME NEW q \in Proc, identMode'[q] = "THROWN" PROVE session'[q] = session[q]
    BY <1>1, <2>2
  <2> QED  BY <1>2, <2>1, <2>2 DEF ThrownInv
<1> QED  BY <1>5, <1>6, <1>7, <1>8, <1>9, QuietStep DEF IInv

LEMMA CommandsStep ==
  ASSUME IInv, NEW p \in Proc, Identify(p)
  PROVE  IInv'
<1>0. ShapeInv /\ ModesInv /\ CommandsInv /\ ThrownInv /\ GidInv
  BY DEF IInv
<1>1. /\ identMode[p] = "CMDS" /\ ~issued[p]
      /\ \A q \in Proc : issued'[q] = IF q = p THEN TRUE ELSE issued[q]
      /\ \A q \in Proc : q # p => plist'[q] = plist[q]
      /\ created' = created /\ option' = option /\ gid' = gid /\ prio' = prio
      /\ identMode' = identMode /\ session' = session
      /\ indexmap' = indexmap /\ waiting' = waiting /\ channel' = channel /\ coupling' = coupling
  BY <1>0 DEF Identify, ShapeInv
<1>2. PICK order \in {"agreed", "reverse"} :
        /\ option = "IDMODE_LISTS" => order = "agreed"
        /\ plist' = [plist EXCEPT ![p] = [q \in Proc |->
             IdentifyIdEntry(Shared(p, q, session[p]), gid[p], order)]]
  BY <1>0 DEF Identify, ShapeInv
<1>3. \A q \in Proc : plist'[p][q] = IdentifyIdEntry(Shared(p, q, session[p]), GidsAt(p), order)
  BY <1>0, <1>1, <1>2, GidsNow DEF ShapeInv
<1>4. /\ FirstGid' = FirstGid /\ Final(FirstGid)' = Final(FirstGid)
      /\ \A q, r, n : TableOf(q, r, n)' = TableOf(q, r, n)
  BY <1>1, Stable
<1>5. \A q : GidsAt(q)' = GidsAt(q)
  BY <1>1, <1>4 DEF GidsAt
<1>6. Quiet
  BY <1>1 DEF Quiet, Received, Passed
<1>7. ShapeInv'
  <2>1. issued' \in [Proc -> BOOLEAN]
    BY <1>0 DEF ShapeInv, Identify
  <2>2. plist' = [q \in Proc |-> [r \in Proc |-> plist'[q][r]]]
    BY <1>0, <1>2 DEF ShapeInv
  <2> QED  BY <1>0, <1>1, <2>1, <2>2 DEF ShapeInv
<1>8. CommandsInv'
  <2>1. ASSUME NEW q \in Proc, issued'[q]
        PROVE  \E o \in {"agreed", "reverse"} :
                 (option' = "IDMODE_LISTS" => o = "agreed") /\ ListsOf(q, o)'
    <3>1. CASE q = p
      <4>1. ListsOf(p, order)'
        BY <1>1, <1>3, <1>5 DEF ListsOf
      <4> QED  BY <1>1, <1>2, <3>1, <4>1
    <3>2. CASE q # p
      <4>1. PICK o \in {"agreed", "reverse"} :
              (option = "IDMODE_LISTS" => o = "agreed") /\ ListsOf(q, o)
        BY <1>0, <1>1, <2>1, <3>2 DEF CommandsInv
      <4>2. ListsOf(q, o)'
        BY <1>1, <1>5, <3>2, <4>1 DEF ListsOf
      <4> QED  BY <1>1, <4>1, <4>2
    <3> QED  BY <3>1, <3>2
  <2>2. \A q \in Proc : ~issued'[q] => plist'[q] = Nobody
    BY <1>0, <1>1 DEF CommandsInv
  <2> QED  BY <2>1, <2>2 DEF CommandsInv
<1>9. ModesInv'
  BY <1>0, <1>1, <1>4 DEF ModesInv
<1>10. ThrownInv'
  BY <1>0, <1>1, <1>4 DEF ThrownInv
<1> QED  BY <1>6, <1>7, <1>8, <1>9, <1>10, QuietStep DEF IInv

\* A copy whose owner has sent its priority has a coupling soon after, so that
\* the priority that was sent stays the right one.
(* The priority of an object with partners changes only before it is sent.   *)
LEMMA PrioStep ==
  ASSUME IInv, NEW p \in Proc, NEW x \in Obj, DDD_PrioChange(p, x)
  PROVE  IInv'
<1>0. ShapeInv /\ ModesInv /\ CommandsInv /\ ThrownInv /\ CouplingInv /\ GidInv
  BY DEF IInv
<1>1. /\ identMode[p] = "CMDS" /\ p \in Owners[x] /\ \A q \in Proc : coupling[p][x][q] = 0
      /\ \A q \in Proc, y \in Obj : q # p \/ y # x => prio'[q][y] = prio[q][y]
      /\ created' = created /\ option' = option /\ gid' = gid
      /\ identMode' = identMode /\ session' = session /\ issued' = issued /\ plist' = plist
      /\ indexmap' = indexmap /\ waiting' = waiting /\ channel' = channel /\ coupling' = coupling
  BY <1>0 DEF DDD_PrioChange, ShapeInv
<1>2. ASSUME NEW q \in Partners(p, x), Passed(p, Session[x])
      PROVE  FALSE
  <2>1. q \in Proc /\ q \in Owners[x] /\ Session[x] \in Nat
    BY <1>2, ObjFacts DEF Partners
  <2>2. session[p] > Session[x]
    BY <1>1, <1>2, <2>1, PassedFacts, <1>0 DEF Passed
  <2>3. q \in Heard(p, x)
    BY <1>0, <1>1, <1>2, <2>2, HeardFacts
  <2>4. coupling[p][x][q] = prio[q][x]
    BY <1>0, <1>1, <2>1, <2>3 DEF CouplingInv
  <2>5. prio[q][x] \in {1, 2}
    BY <1>0, <2>1 DEF ShapeInv, Prio
  <2> QED  BY <1>1, <2>1, <2>4, <2>5
<1>3. Quiet
  <2>1. \A q \in Proc, y \in Obj :
          q \in Owners[y] /\ Partners(q, y) # {} /\ Passed(q, Session[y]) => prio'[q][y] = prio[q][y]
    BY <1>1, <1>2
  <2> QED  BY <1>1, <2>1 DEF Quiet, Received, Passed
<1>4. /\ FirstGid' = FirstGid /\ Final(FirstGid)' = Final(FirstGid)
      /\ \A q, r, n : TableOf(q, r, n)' = TableOf(q, r, n)
  BY <1>1, Stable
<1>5. ShapeInv'
  <2>1. prio' \in [Proc -> [Obj -> Prio]]
    BY <1>0 DEF ShapeInv, DDD_PrioChange, Prio
  <2> QED  BY <1>0, <1>1, <2>1 DEF ShapeInv
<1>6. CommandsInv'
  <2>1. \A q : GidsAt(q)' = GidsAt(q)
    BY <1>1, <1>4 DEF GidsAt
  <2>2. \A q, order : ListsOf(q, order)' <=> ListsOf(q, order)
    BY <1>1, <2>1 DEF ListsOf
  <2> QED  BY <1>0, <1>1, <2>2 DEF CommandsInv
<1>7. ModesInv'
  BY <1>0, <1>1, <1>4 DEF ModesInv
<1>8. ThrownInv'
  BY <1>0, <1>1, <1>4 DEF ThrownInv
<1> QED  BY <1>3, <1>5, <1>6, <1>7, <1>8, QuietStep DEF IInv

LEMMA StutterStep ==
  ASSUME IInv, UNCHANGED vars
  PROVE  IInv'
<1>0. ShapeInv /\ ModesInv /\ CommandsInv /\ ThrownInv
  BY DEF IInv
<1>1. /\ created' = created /\ option' = option /\ gid' = gid /\ prio' = prio
      /\ identMode' = identMode /\ session' = session /\ issued' = issued /\ plist' = plist
      /\ indexmap' = indexmap /\ waiting' = waiting /\ channel' = channel /\ coupling' = coupling
  BY DEF vars
<1>2. Quiet
  BY <1>1 DEF Quiet, Received, Passed
<1>3. /\ FirstGid' = FirstGid /\ Final(FirstGid)' = Final(FirstGid)
      /\ \A q, r, n : TableOf(q, r, n)' = TableOf(q, r, n)
  BY <1>1, Stable
<1>4. CommandsInv'
  <2>1. \A q : GidsAt(q)' = GidsAt(q)
    BY <1>1, <1>3 DEF GidsAt
  <2>2. \A q, order : ListsOf(q, order)' <=> ListsOf(q, order)
    BY <1>1, <2>1 DEF ListsOf
  <2> QED  BY <1>0, <1>1, <2>2 DEF CommandsInv
<1>5. ModesInv' /\ ThrownInv' /\ ShapeInv'
  BY <1>0, <1>1, <1>3 DEF ModesInv, ThrownInv, ShapeInv
<1> QED  BY <1>2, <1>4, <1>5, QuietStep DEF IInv

LEMMA ReturnStep ==
  ASSUME IInv, NEW p \in Proc, IdentifyEndReturns(p)
  PROVE  IInv'
<1>0. ShapeInv /\ ModesInv /\ CommandsInv /\ ThrownInv
  BY DEF IInv
<1>1. /\ identMode[p] = "BUSY" /\ waiting[p] = {}
      /\ \A q \in Proc : identMode'[q] = IF q = p THEN "IDLE" ELSE identMode[q]
      /\ \A q \in Proc : indexmap'[q] = IF q = p THEN Nobody ELSE indexmap[q]
      /\ created' = created /\ option' = option /\ gid' = gid /\ prio' = prio
      /\ session' = session /\ issued' = issued /\ plist' = plist
      /\ waiting' = waiting /\ channel' = channel /\ coupling' = coupling
  BY <1>0 DEF IdentifyEndReturns, IdentStepMode, ShapeInv
<1>2. \A q \in Proc, n \in 1..Sessions : Passed(q, n)' <=> Passed(q, n)
  BY <1>1 DEF Passed
<1>3. Quiet
  BY <1>1, <1>2 DEF Quiet, Received
<1>4. /\ FirstGid' = FirstGid /\ Final(FirstGid)' = Final(FirstGid)
      /\ \A q, r, n : TableOf(q, r, n)' = TableOf(q, r, n)
  BY <1>1, Stable
<1>5. ShapeInv'
  <2>1. identMode' \in [Proc -> {"IDLE", "CMDS", "BUSY", "THROWN"}]
    BY <1>0 DEF ShapeInv, IdentifyEndReturns, IdentStepMode
  <2>2. indexmap' = [q \in Proc |-> [r \in Proc |-> indexmap'[q][r]]]
    BY <1>0 DEF ShapeInv, IdentifyEndReturns, Nobody
  <2> QED  BY <1>0, <1>1, <2>1, <2>2 DEF ShapeInv
<1>6. CommandsInv'
  <2>1. \A q : GidsAt(q)' = GidsAt(q)
    BY <1>1, <1>4 DEF GidsAt
  <2>2. \A q, order : ListsOf(q, order)' <=> ListsOf(q, order)
    BY <1>1, <2>1 DEF ListsOf
  <2> QED  BY <1>0, <1>1, <2>2 DEF CommandsInv
<1>7. ModesInv'
  BY <1>0, <1>1, <1>4 DEF ModesInv, Nobody
<1>8. ThrownInv'
  BY <1>0, <1>1, <1>4 DEF ThrownInv
<1> QED  BY <1>3, <1>5, <1>6, <1>7, <1>8, QuietStep DEF IInv

-------------------------------------------------------------------------------
(* The messages.                                                             *)

LEMMA SameChannel ==
  ASSUME created' = created, option' = option, prio' = prio, NEW q \in Proc, NEW p \in Proc,
         channel'[q][p] = channel[q][p],
         \A n \in 1..Sessions : Pending(q, p, n)' <=> Pending(q, p, n),
         \E ks \in Seq(1..Sessions) : ChannelIs(q, p, ks)
  PROVE  (\E ks \in Seq(1..Sessions) : ChannelIs(q, p, ks))'
<1>1. PICK ks \in Seq(1..Sessions) : ChannelIs(q, p, ks)
  OBVIOUS
<1>2. FirstGid' = FirstGid /\ \A r, s, n : TableOf(r, s, n)' = TableOf(r, s, n)
  BY Stable
<1>3. \A i \in 1..Len(ks) : LetterIs(channel[q][p][i], q, p, ks[i])'
  BY <1>1, <1>2 DEF ChannelIs, LetterIs
<1>4. ChannelIs(q, p, ks)'
  BY <1>1, <1>3 DEF ChannelIs
<1> QED  BY <1>4

\* The message for q has an item for every object, at its place.
LEMMA MessageIs ==
  ASSUME IInv, NEW p \in Proc, NEW q \in Proc, issued[p], NEW n, n = session[p],
         ~Ambiguous(TableOf(p, q, n))
  PROVE  /\ Message(p, q, TableOf(p, q, n)) \in Letters
         /\ LetterIs(Message(p, q, TableOf(p, q, n)), p, q, n)
<1> DEFINE t == TableOf(p, q, n)
           S == Shared(p, q, n)
           m == Message(p, q, t)
           at(i) == CHOOSE x \in DOMAIN t : t[x] = i
<1>0. ShapeInv /\ CommandsInv /\ Distinct(FirstGid) /\ n \in Nat
  BY FirstGidDistinct DEF IInv, ShapeInv
<1>1. /\ TableOf(q, p, n) = t /\ DOMAIN t = S /\ t \in [S -> Nat] /\ IsFiniteSet(S)
      /\ Shared(q, p, n) = S
  <2>1. TableOf(q, p, n) = t /\ DOMAIN t = S /\ IsTable(t, S)
    BY <1>0, TableFacts DEF ShapeInv
  <2> QED  BY <1>0, <2>1, SharedFacts DEF IsTable
<1>2. \A x, y \in S : t[x] = t[y] => x = y
  BY <1>1 DEF Ambiguous
<1>3. \A x \in S : plist[p][q][x].gid = FirstGid[p][x]
  BY <1>0, SortedIs
<1>4. \A x \in S : x \in Obj /\ FirstGid[p][x] \in Nat /\ prio[p][x] \in Prio
  BY <1>0 DEF Shared, Distinct, ShapeInv
<1>5. \A x \in S : at(t[x]) = x
  <2> HIDE DEF t, S
  <2> QED  BY <1>1, <1>2
<1>6. Range(t) = {t[x] : x \in S}
  <2> HIDE DEF t, S
  <2> QED  BY <1>1 DEF Range
<1>7. m = [i \in Range(t) |-> [gid |-> plist[p][q][at(i)].gid, prio |-> prio[p][at(i)]]]
  BY DEF Message, MsgItem
<1> HIDE DEF t, S, m, at
<1>8. \A x \in S : t[x] \in DOMAIN m /\ m[t[x]] = [gid |-> FirstGid[p][x], prio |-> prio[p][x]]
  BY <1>3, <1>5, <1>6, <1>7
<1>9. \A i \in DOMAIN m : m[i] \in [gid : Nat, prio : Prio]
  BY <1>3, <1>4, <1>5, <1>6, <1>7
<1>10. DOMAIN m \in SUBSET Nat
  BY <1>1, <1>6, <1>7
<1>11. m \in Letters
  <2>1. m \in [DOMAIN m -> [gid : Nat, prio : Prio]]
    BY <1>7, <1>9
  <2> QED  BY <1>10, <2>1 DEF Letters
<1>12. Cardinality(DOMAIN m) = Cardinality(S)
  <2>1. t \in Bijection(S, DOMAIN m)
    BY <1>1, <1>2, <1>6, <1>7 DEF Bijection, Injection, Surjection, IsInjective
  <2>2. ExistsBijection(S, DOMAIN m)
    BY <2>1 DEF ExistsBijection
  <2> QED  BY <1>1, <2>2, FS_Bijection
<1>13. LetterIs(m, p, q, n)
  BY <1>1, <1>8, <1>12 DEF LetterIs, t, S
<1> QED  BY <1>11, <1>13 DEF m, t

LEMMA ThrowStep ==
  ASSUME IInv, NEW p \in Proc, DDD_IdentifyEnd(p), Throws(p, Sorted(p))
  PROVE  IInv'
<1>0. ShapeInv /\ ModesInv /\ CommandsInv /\ ThrownInv
  BY DEF IInv
<1>1. /\ identMode[p] = "CMDS" /\ issued[p]
      /\ \A q \in Proc : identMode'[q] = IF q = p THEN "THROWN" ELSE identMode[q]
      /\ created' = created /\ option' = option /\ gid' = gid /\ prio' = prio
      /\ session' = session /\ issued' = issued /\ plist' = plist /\ indexmap' = indexmap
      /\ waiting' = waiting /\ channel' = channel /\ coupling' = coupling
      /\ identMode' \in [Proc -> {"IDLE", "CMDS", "BUSY", "THROWN"}]
  BY <1>0 DEF DDD_IdentifyEnd, IdentStepMode, ShapeInv
<1>2. \A q \in Proc, n \in 1..Sessions : Passed(q, n)' <=> Passed(q, n)
  BY <1>1 DEF Passed
<1>3. Quiet
  BY <1>1, <1>2 DEF Quiet, Received
<1>4. /\ FirstGid' = FirstGid /\ Final(FirstGid)' = Final(FirstGid)
      /\ \A q, r, n : TableOf(q, r, n)' = TableOf(q, r, n)
  BY <1>1, Stable
<1>5. ShapeInv'
  BY <1>0, <1>1 DEF ShapeInv
<1>6. CommandsInv'
  <2>1. \A q : GidsAt(q)' = GidsAt(q)
    BY <1>1, <1>4 DEF GidsAt
  <2>2. \A q, order : ListsOf(q, order)' <=> ListsOf(q, order)
    BY <1>1, <2>1 DEF ListsOf
  <2> QED  BY <1>0, <1>1, <2>2 DEF CommandsInv
<1>7. ModesInv'
  <2>1. session[p] >= 1
    BY <1>0, <1>1 DEF ModesInv
  <2> QED  BY <1>0, <1>1, <1>4, <2>1 DEF ModesInv
<1>8. ThrownInv'
  <2>1. \E q \in Proc : Ambiguous(TableOf(p, q, session[p]))
    BY <1>0, <1>1, SortedIs DEF Throws
  <2> QED  BY <1>0, <1>1, <1>4, <2>1 DEF ThrownInv
<1> QED  BY <1>3, <1>5, <1>6, <1>7, <1>8, QuietStep DEF IInv

\* What changes when p sends its tables.
Sends(p) ==
  /\ identMode[p] = "CMDS" /\ issued[p] /\ session[p] >= 1
  /\ \A q \in Proc : identMode'[q] = IF q = p THEN "BUSY" ELSE identMode[q]
  /\ \A q \in Proc : indexmap'[q] =
       IF q = p THEN [r \in Proc |-> TableOf(p, r, session[p])] ELSE indexmap[q]
  /\ \A q \in Proc : waiting'[q] =
       IF q = p THEN {r \in Proc : Shared(p, r, session[p]) # {}} ELSE waiting[q]
  /\ \A q, r \in Proc : channel'[q][r] =
       IF q = p /\ Shared(p, r, session[p]) # {}
       THEN Append(channel[p][r], Message(p, r, TableOf(p, r, session[p])))
       ELSE channel[q][r]
  /\ \A r \in Proc : ~Ambiguous(TableOf(p, r, session[p]))
  /\ created' = created /\ option' = option /\ gid' = gid /\ prio' = prio
  /\ session' = session /\ issued' = issued /\ plist' = plist /\ coupling' = coupling

LEMMA EndSends ==
  ASSUME IInv, NEW p \in Proc, DDD_IdentifyEnd(p), ~Throws(p, Sorted(p))
  PROVE  Sends(p) /\ ShapeInv'
<1>0. ShapeInv /\ ModesInv /\ CommandsInv /\ issued[p] /\ identMode[p] = "CMDS"
  BY DEF IInv, DDD_IdentifyEnd
<1>1. Sorted(p) = [r \in Proc |-> TableOf(p, r, session[p])]
  BY <1>0, SortedIs
<1>2. ToIdentify(p) = {r \in Proc : Shared(p, r, session[p]) # {}}
  BY <1>0, SortedIs DEF ToIdentify
<1>3. \A r \in Proc : ~Ambiguous(TableOf(p, r, session[p]))
  BY <1>1 DEF Throws
<1>4. /\ IdentStepMode(p, "CMDS", "BUSY")
      /\ indexmap' = [indexmap EXCEPT ![p] = Sorted(p)]
      /\ channel' = [channel EXCEPT ![p] = [q \in Proc |->
           IF q \in ToIdentify(p) THEN Append(@[q], Message(p, q, Sorted(p)[q])) ELSE @[q]]]
      /\ waiting' = [waiting EXCEPT ![p] = ToIdentify(p)]
      /\ UNCHANGED << option, created, session, issued, gid, prio, plist, coupling >>
  BY DEF DDD_IdentifyEnd
<1>5. \A q \in Proc : identMode'[q] = IF q = p THEN "BUSY" ELSE identMode[q]
  BY <1>0, <1>4 DEF IdentStepMode, ShapeInv
<1>6. \A q \in Proc : indexmap'[q] = IF q = p THEN Sorted(p) ELSE indexmap[q]
  <2>1. DOMAIN indexmap = Proc
    BY <1>0 DEF ShapeInv
  <2> QED  BY <2>1, <1>4
<1>7. \A q \in Proc : waiting'[q] = IF q = p THEN ToIdentify(p) ELSE waiting[q]
  BY <1>0, <1>4 DEF ShapeInv
<1>8. \A q, r \in Proc : channel'[q][r] =
       IF q = p /\ r \in ToIdentify(p) THEN Append(channel[p][r], Message(p, r, Sorted(p)[r]))
       ELSE channel[q][r]
  <2>1. DOMAIN channel = Proc
    BY <1>0 DEF ShapeInv
  <2> QED  BY <2>1, <1>4
<1>9. session[p] >= 1
  BY <1>0 DEF ModesInv
<1>10. Sends(p)
  <2>1. \A q, r \in Proc : channel'[q][r] =
       IF q = p /\ Shared(p, r, session[p]) # {}
       THEN Append(channel[p][r], Message(p, r, TableOf(p, r, session[p])))
       ELSE channel[q][r]
    BY <1>1, <1>2, <1>8
  <2>2. \A q \in Proc : indexmap'[q] =
       IF q = p THEN [r \in Proc |-> TableOf(p, r, session[p])] ELSE indexmap[q]
    BY <1>1, <1>6
  <2>3. \A q \in Proc : waiting'[q] =
       IF q = p THEN {r \in Proc : Shared(p, r, session[p]) # {}} ELSE waiting[q]
    BY <1>2, <1>7
  <2> QED  BY <1>0, <1>3, <1>4, <1>5, <1>9, <2>1, <2>2, <2>3 DEF Sends
<1>11. ShapeInv'
  <2>1. identMode' \in [Proc -> {"IDLE", "CMDS", "BUSY", "THROWN"}]
    BY <1>0, <1>4 DEF IdentStepMode, ShapeInv
  <2>2. indexmap' = [q \in Proc |-> [r \in Proc |-> indexmap'[q][r]]]
    <3>1. indexmap' = [q \in Proc |-> IF q = p THEN Sorted(p) ELSE indexmap[q]]
      BY <1>0, <1>4 DEF ShapeInv
    <3>2. Sorted(p) = [r \in Proc |-> Sorted(p)[r]]
      BY <1>1
    <3>3. \A q \in Proc : indexmap[q] = [r \in Proc |-> indexmap[q][r]]
      BY <1>0 DEF ShapeInv
    <3> QED  BY <3>1, <3>2, <3>3
  <2>3. waiting' \in [Proc -> SUBSET Proc]
    BY <1>0, <1>2, <1>4 DEF ShapeInv
  <2>4. channel' \in [Proc -> [Proc -> Seq(Letters)]]
    <3>1. \A r \in Proc : Message(p, r, Sorted(p)[r]) \in Letters
      BY <1>0, <1>1, <1>3, MessageIs
    <3>2. channel \in [Proc -> [Proc -> Seq(Letters)]]
      BY <1>0 DEF ShapeInv
    <3> DEFINE new == [r \in Proc |-> IF r \in ToIdentify(p)
                         THEN Append(channel[p][r], Message(p, r, Sorted(p)[r])) ELSE channel[p][r]]
    <3>3. new \in [Proc -> Seq(Letters)]
      <4>1. \A r \in Proc : channel[p][r] \in Seq(Letters)
        BY <3>2
      <4>2. \A r \in Proc : Append(channel[p][r], Message(p, r, Sorted(p)[r])) \in Seq(Letters)
        BY <3>1, <4>1
      <4> QED  BY <4>1, <4>2
    <3>4. channel' = [channel EXCEPT ![p] = new]
      BY <1>4
    <3> HIDE DEF new
    <3> QED  BY <3>2, <3>3, <3>4
  <2> QED  BY <1>0, <1>4, <2>1, <2>2, <2>3, <2>4 DEF ShapeInv
<1> QED  BY <1>10, <1>11

(* Every partner that is waiting already, or will be, has its message.       *)
LEMMA SendStep ==
  ASSUME IInv, NEW p \in Proc, Sends(p), ShapeInv'
  PROVE  IInv'
<1>0. ShapeInv /\ ModesInv /\ CommandsInv /\ ThrownInv /\ GidInv /\ CouplingInv /\ ClearInv
        /\ AnswersInv /\ ChannelInv
  BY DEF IInv
<1>1. PICK n \in 1..Sessions :
        n = session[p] /\ n \in Nat /\ \A q : TableOf(p, q, n) = TableOf(q, p, n)
  <2>1. session[p] \in 1..Sessions /\ session[p] \in Nat
    BY <1>0, PassedFacts DEF Sends
  <2>2. \A q : TableOf(p, q, session[p]) = TableOf(q, p, session[p])
    BY <1>0, <2>1, TableFacts DEF ShapeInv
  <2> QED  BY <2>1, <2>2
<1>2. /\ FirstGid' = FirstGid /\ Final(FirstGid)' = Final(FirstGid)
      /\ \A q, r, k : TableOf(q, r, k)' = TableOf(q, r, k)
  BY Stable DEF Sends
<1>3. \A q \in Proc, k \in 1..Sessions : Passed(q, k)' <=> Passed(q, k) \/ (q = p /\ k = n)
  BY <1>1 DEF Passed, Sends
<1>4. \A q, r \in Proc, k \in 1..Sessions :
        Received(q, r, k)' <=> Received(q, r, k) \/ (q = p /\ k = n /\ Shared(p, r, n) = {})
  <2> TAKE q, r \in Proc, k \in 1..Sessions
  <2>1. CASE q = p /\ k = n
    <3>1. ~Passed(p, n)
      BY <1>1 DEF Passed, Sends
    <3>2. session'[p] = n /\ waiting'[p] = {s \in Proc : Shared(p, s, n) # {}}
      BY <1>1 DEF Sends
    <3> QED  BY <1>3, <2>1, <3>1, <3>2 DEF Received
  <2>2. CASE q = p /\ k # n
    <3>1. session'[p] = n
      BY <1>1 DEF Sends
    <3> QED  BY <1>1, <1>3, <2>2, <3>1 DEF Received
  <2>3. CASE q # p
    <3>1. session'[q] = session[q] /\ waiting'[q] = waiting[q]
      BY <1>1, <2>3 DEF Sends
    <3> QED  BY <1>3, <2>3, <3>1 DEF Received
  <2> QED  BY <2>1, <2>2, <2>3
<1>5. ASSUME NEW q \in Proc, NEW x \in Obj, q \in Owners[x] PROVE Heard(q, x)' = Heard(q, x)
  <2>1. Session[x] \in 1..Sessions
    BY ObjFacts
  <2>2. ASSUME NEW r \in Partners(q, x)
        PROVE  Received(q, r, Session[x])' <=> Received(q, r, Session[x])
    <3>1. r \in Proc
      BY ObjFacts DEF Partners
    <3>2. x \in Shared(q, r, Session[x])
      BY <1>5 DEF Shared
    <3> QED  BY <1>4, <2>1, <3>1, <3>2
  <2> QED  BY <2>2 DEF Heard
<1>6. GidInv'
  BY <1>0, <1>2, <1>5 DEF GidInv, Sends
<1>7. CouplingInv'
  BY <1>0, <1>5 DEF CouplingInv, Sends
<1>8. CommandsInv'
  <2>1. \A q : GidsAt(q)' = GidsAt(q)
    BY <1>2 DEF GidsAt, Sends
  <2>2. \A q, order : ListsOf(q, order)' <=> ListsOf(q, order)
    BY <2>1 DEF ListsOf, Sends
  <2> QED  BY <1>0, <2>2 DEF CommandsInv, Sends
<1>9. ModesInv'
  <2>1. ASSUME NEW q \in Proc
        PROVE  /\ identMode'[q] # "IDLE" => session'[q] >= 1
               /\ identMode'[q] \in {"BUSY", "THROWN"} => issued'[q]
               /\ identMode'[q] # "BUSY" => waiting'[q] = {}
               /\ \A r \in waiting'[q] : Shared(q, r, session'[q]) # {}
               /\ \A r \in Proc : indexmap'[q][r] =
                    IF identMode'[q] = "BUSY" THEN TableOf(q, r, session[q])' ELSE Nothing
    <3>0. session' = session /\ issued' = issued /\ \A r : TableOf(q, r, session[q])' = TableOf(q, r, session[q])
      BY <1>2 DEF Sends
    <3>1. CASE q = p
      <4>1. identMode'[q] = "BUSY" /\ issued[q] /\ session[q] >= 1
        BY <3>1 DEF Sends
      <4>2. \A r \in waiting'[q] : Shared(q, r, session[q]) # {}
        BY <3>1 DEF Sends
      <4>3. \A r \in Proc : indexmap'[q][r] = TableOf(q, r, session[q])
        <5>1. indexmap'[p] = [r \in Proc |-> TableOf(p, r, session[p])]
          BY DEF Sends
        <5> QED  BY <3>1, <5>1
      <4> QED  BY <3>0, <4>1, <4>2, <4>3
    <3>2. CASE q # p
      <4>1. /\ identMode'[q] = identMode[q] /\ waiting'[q] = waiting[q]
            /\ indexmap'[q] = indexmap[q]
        BY <3>2 DEF Sends
      <4>2. /\ identMode[q] # "IDLE" => session[q] >= 1
            /\ identMode[q] \in {"BUSY", "THROWN"} => issued[q]
            /\ identMode[q] # "BUSY" => waiting[q] = {}
            /\ \A r \in waiting[q] : Shared(q, r, session[q]) # {}
            /\ \A r \in Proc : indexmap[q][r] =
                 IF identMode[q] = "BUSY" THEN TableOf(q, r, session[q]) ELSE Nothing
        BY <1>0 DEF ModesInv
      <4> QED  BY <3>0, <4>1, <4>2
    <3> QED  BY <3>1, <3>2
  <2> QED  BY <2>1 DEF ModesInv
<1>10. ThrownInv'
  BY <1>0, <1>2 DEF ThrownInv, Sends
<1>11. ClearInv'
  <2>1. ASSUME NEW q \in Proc, NEW r \in Proc, NEW k \in 1..Sessions, Passed(q, k)'
        PROVE  ~Ambiguous(TableOf(q, r, k))
    BY <1>0, <1>1, <1>3, <2>1 DEF ClearInv, Sends
  <2>2. \A q, r \in Proc, k \in 1..Sessions : Passed(q, k)' => ~Ambiguous(TableOf(q, r, k)')
    BY <1>2, <2>1
  <2> QED  BY <2>2 DEF ClearInv
<1>12. AnswersInv'
  BY <1>0, <1>3, <1>4 DEF AnswersInv
<1>13. ASSUME NEW q \in Proc, NEW r \in Proc
       PROVE  (\E ks \in Seq(1..Sessions) : ChannelIs(q, r, ks))'
  <2>1. PICK ks \in Seq(1..Sessions) : ChannelIs(q, r, ks)
    BY <1>0 DEF ChannelInv
  <2>2. CASE q = p /\ Shared(p, r, n) # {}
    <3> DEFINE ls == Append(ks, n)
               m == Message(p, r, TableOf(p, r, n))
    <3>0. r # p
      BY <1>1, <2>2, SharedFacts
    <3>1. ls \in Seq(1..Sessions) /\ Len(ls) = Len(ks) + 1 /\ ls[Len(ks) + 1] = n
            /\ (\A i \in 1..Len(ks) : ls[i] = ks[i]) /\ Len(ks) \in Nat
      BY <1>1, <2>1
    <3>2. channel[p][r] \in Seq(Letters) /\ channel'[p][r] = Append(channel[p][r], m)
      <4>1. channel[p][r] \in Seq(Letters)
        BY <1>0 DEF ShapeInv
      <4>2. channel'[p][r] = Append(channel[p][r], m)
        BY <1>1, <2>2 DEF Sends
      <4> QED  BY <4>1, <4>2
    <3>3. Len(channel[p][r]) = Len(ks)
      BY <2>1, <2>2 DEF ChannelIs
    <3>4. /\ Len(channel'[p][r]) = Len(ks) + 1 /\ channel'[p][r][Len(ks) + 1] = m
          /\ \A i \in 1..Len(ks) : channel'[p][r][i] = channel[p][r][i]
      <4> HIDE DEF m
      <4> QED  BY <3>2, <3>3
    <3>5. \A i \in 1..Len(ks) : ks[i] \in 1..Sessions /\ Pending(p, r, ks[i])
      <4>1. \A i \in 1..Len(ks) : ks[i] \in 1..Sessions
        <5>1. Sessions \in Nat
          BY IdentAssumption
        <5> QED  BY <5>1, <2>1
      <4> QED  BY <2>1, <2>2, <4>1 DEF ChannelIs
    <3>6. \A i \in 1..Len(ks) : ks[i] < n
      <4>1. \A k \in 1..Sessions : Passed(p, k) => k < n
        BY <1>1 DEF Passed, Sends
      <4> QED  BY <3>5, <4>1 DEF Pending
    <3>7. LetterIs(m, p, r, n)
      BY <1>0, <1>1, MessageIs DEF Sends
    <3>8. \A k \in 1..Sessions : Pending(p, r, k)' <=> Pending(p, r, k) \/ k = n
      <4>1. ~Received(r, p, n)
        <5>1. ~Passed(p, n)
          BY <1>1 DEF Passed, Sends
        <5>2. Shared(r, p, n) # {}
          BY <1>1, <2>2, SharedFacts
        <5> QED  BY <1>0, <1>1, <5>1, <5>2 DEF AnswersInv
      <4>2. Shared(r, p, n) # {}
        BY <1>1, <2>2, SharedFacts
      <4> QED  BY <1>1, <1>3, <1>4, <3>0, <4>1, <4>2 DEF Pending
    <3>9. \A i \in 1..Len(ls) : LetterIs(channel'[p][r][i], p, r, ls[i])
      <4> TAKE i \in 1..Len(ls)
      <4>1. CASE i \in 1..Len(ks)
        <5>1. LetterIs(channel[p][r][i], p, r, ks[i])
          BY <2>1, <2>2, <4>1 DEF ChannelIs
        <5>2. channel'[p][r][i] = channel[p][r][i] /\ ls[i] = ks[i]
          BY <3>1, <3>4, <4>1
        <5> HIDE DEF ls
        <5> QED  BY <5>1, <5>2
      <4>2. CASE i = Len(ks) + 1
        <5>1. channel'[p][r][i] = m /\ ls[i] = n
          BY <3>1, <3>4, <4>2
        <5> HIDE DEF ls, m
        <5> QED  BY <3>7, <5>1
      <4>3. i \in 1..Len(ks) \/ i = Len(ks) + 1
        <5> HIDE DEF ls
        <5> QED  BY <3>1
      <4> QED  BY <4>1, <4>2, <4>3
    <3>10. \A i \in 1..Len(ls) : LetterIs(channel[p][r][i], p, r, ls[i])'
      BY <1>2, <3>9 DEF LetterIs, Sends
    <3>11. \A i, j \in 1..Len(ls) : i < j => ls[i] < ls[j]
      <4>1. \A i, j \in 1..Len(ks) : i < j => ks[i] < ks[j]
        BY <2>1 DEF ChannelIs
      <4> HIDE DEF ls
      <4> QED  BY <3>1, <3>6, <4>1
    <3>12. \A k \in 1..Sessions : Pending(p, r, k)' <=> \E i \in 1..Len(ls) : ls[i] = k
      <4>1. \A k \in 1..Sessions : Pending(p, r, k) <=> \E i \in 1..Len(ks) : ks[i] = k
        BY <2>1, <2>2 DEF ChannelIs
      <4> HIDE DEF ls
      <4>2. \A k : (\E i \in 1..Len(ls) : ls[i] = k) <=> (k = n \/ \E i \in 1..Len(ks) : ks[i] = k)
        BY <3>1
      <4> QED  BY <3>8, <4>1, <4>2
    <3>13. ChannelIs(p, r, ls)'
      <4>1. Len(channel'[p][r]) = Len(ls)
        <5> HIDE DEF ls
        <5> QED  BY <3>1, <3>4
      <4>2. \A i \in 1..Len(ls) : LetterIs(channel[p][r][i], p, r, ls[i])'
        BY <3>10
      <4>3. \A k \in 1..Sessions : Pending(p, r, k)' <=> \E i \in 1..Len(ls) : ls[i] = k
        BY <3>12
      <4> HIDE DEF ls
      <4> QED  BY <3>11, <4>1, <4>2, <4>3 DEF ChannelIs
    <3> HIDE DEF ls
    <3> QED  BY <2>2, <3>1, <3>13
  <2>3. CASE ~(q = p /\ Shared(p, r, n) # {})
    <3>1. channel'[q][r] = channel[q][r]
      BY <1>1, <2>3 DEF Sends
    <3>2. \A k \in 1..Sessions : Pending(q, r, k)' <=> Pending(q, r, k)
      <4> TAKE k \in 1..Sessions
      <4>1. k \in Nat /\ Shared(q, r, k) = Shared(r, q, k)
        BY SharedFacts
      <4>2. CASE Shared(r, q, k) = {}
        BY <4>1, <4>2 DEF Pending
      <4>3. CASE Shared(r, q, k) # {}
        <5>1. ~(q = p /\ k = n)
          BY <2>3, <4>1, <4>3
        <5>2. ~(r = p /\ k = n /\ Shared(p, q, n) = {})
          BY <4>3
        <5> QED  BY <1>3, <1>4, <5>1, <5>2 DEF Pending
      <4> QED  BY <4>2, <4>3
    <3> QED  BY <2>1, <3>1, <3>2, SameChannel DEF Sends
  <2> QED  BY <2>2, <2>3
<1>14. ChannelInv'
  BY <1>13 DEF ChannelInv
<1> QED  BY <1>6, <1>7, <1>8, <1>9, <1>10, <1>11, <1>12, <1>14 DEF IInv

LEMMA EndStep ==
  ASSUME IInv, NEW p \in Proc, DDD_IdentifyEnd(p)
  PROVE  IInv'
<1>1. CASE Throws(p, Sorted(p))
  BY <1>1, ThrowStep
<1>2. CASE ~Throws(p, Sorted(p))
  BY <1>2, EndSends, SendStep
<1> QED  BY <1>1, <1>2

\* The message p takes is that of its own identification: q cannot have sent
\* the next one before it has p's answer to this one, or nothing to wait for.
(* The message received is of the identification the receiver is in.         *)
LEMMA HeadIs ==
  ASSUME IInv, NEW p \in Proc, NEW q \in Proc, Receive(p, q),
         NEW ks \in Seq(1..Sessions), ChannelIs(q, p, ks)
  PROVE  /\ Len(ks) \in Nat /\ Len(ks) >= 1 /\ ks[1] = session[p] /\ session[p] \in 1..Sessions
         /\ Pending(q, p, session[p])
         /\ LetterIs(Head(channel[q][p]), q, p, session[p])
<1>0. ShapeInv /\ ModesInv /\ Sessions \in Nat
  BY IdentAssumption DEF IInv
<1>1. identMode[p] = "BUSY" /\ q \in waiting[p] /\ channel[q][p] # << >>
  BY DEF Receive
<1>2. session[p] \in 1..Sessions /\ session[p] \in Nat /\ session[q] \in Nat
        /\ Shared(p, q, session[p]) # {}
  BY <1>0, <1>1, PassedFacts DEF ModesInv
<1>3. channel[q][p] \in Seq(Letters) /\ Len(channel[q][p]) = Len(ks)
  BY <1>0 DEF ShapeInv, ChannelIs
<1>4. Len(ks) \in Nat /\ Len(ks) >= 1 /\ Head(channel[q][p]) = channel[q][p][1]
  BY <1>1, <1>3
<1>5. \A i \in 1..Len(ks) : ks[i] \in 1..Sessions
  BY <1>0
<1>6. Pending(q, p, ks[1]) /\ LetterIs(channel[q][p][1], q, p, ks[1])
  BY <1>4, <1>5 DEF ChannelIs
<1>7. ~(ks[1] < session[p])
  BY <1>2, <1>4, <1>5, <1>6 DEF Pending, Received, Passed
<1>8. ASSUME ks[1] > session[p] PROVE FALSE
  <2>1. Passed(q, session[p])
    <3>1. Passed(q, ks[1])
      BY <1>6 DEF Pending
    <3>2. ks[1] \in Nat /\ session[q] >= ks[1]
      BY <1>2, <1>4, <1>5, <3>1 DEF Passed
    <3> QED  BY <1>2, <1>8, <3>2 DEF Passed
  <2>2. Pending(q, p, session[p])
    BY <1>1, <1>2, <2>1 DEF Pending, Received
  <2>3. PICK i \in 1..Len(ks) : ks[i] = session[p]
    BY <1>2, <2>2 DEF ChannelIs
  <2>4. \A k \in 1..Len(ks) : 1 < k => ks[1] < ks[k]
    BY <1>4 DEF ChannelIs
  <2> QED  BY <1>2, <1>4, <1>5, <1>8, <2>3, <2>4
<1>9. ks[1] = session[p]
  <2>1. ks[1] \in Nat
    BY <1>4, <1>5
  <2> QED  BY <1>2, <1>7, <1>8, <2>1
<1> QED  BY <1>2, <1>4, <1>6, <1>9

\* What changes when p takes q's message.
Takes(p, q) ==
  /\ identMode[p] = "BUSY" /\ q \in waiting[p]
  /\ Pending(q, p, session[p])
  /\ \A r \in Proc, x \in Obj : gid'[r][x] =
       IF r = p /\ x \in Shared(p, q, session[p]) THEN Smaller(gid[p][x], FirstGid[q][x]) ELSE gid[r][x]
  /\ \A r \in Proc, x \in Obj, s \in Proc : coupling'[r][x][s] =
       IF r = p /\ s = q /\ x \in Shared(p, q, session[p]) THEN prio[q][x] ELSE coupling[r][x][s]
  /\ \A r, s \in Proc : channel'[r][s] =
       IF r = q /\ s = p THEN Tail(channel[q][p]) ELSE channel[r][s]
  /\ \A r \in Proc : waiting'[r] = IF r = p THEN waiting[p] \ {q} ELSE waiting[r]
  /\ created' = created /\ option' = option /\ identMode' = identMode /\ prio' = prio
  /\ session' = session /\ issued' = issued /\ plist' = plist /\ indexmap' = indexmap

LEMMA ReceiveTakes ==
  ASSUME IInv, NEW p \in Proc, NEW q \in Proc, Receive(p, q)
  PROVE  Takes(p, q) /\ ShapeInv'
<1> DEFINE S == Shared(p, q, session[p])
           m == Head(channel[q][p])
<1>0. ShapeInv /\ ModesInv /\ ChannelInv
  BY DEF IInv
<1>1. PICK ks \in Seq(1..Sessions) : ChannelIs(q, p, ks)
  BY <1>0 DEF ChannelInv
<1>2. /\ session[p] \in Nat /\ Pending(q, p, session[p]) /\ LetterIs(m, q, p, session[p])
      /\ channel[q][p] # << >> /\ identMode[p] = "BUSY" /\ q \in waiting[p]
  <2>1. session[p] \in Nat
    BY <1>0, PassedFacts
  <2> QED  BY <1>1, <2>1, HeadIs DEF Receive
<1>3. indexmap[p][q] = TableOf(p, q, session[p]) /\ DOMAIN indexmap[p][q] = S
  BY <1>0, <1>2, TableFacts DEF ModesInv, ShapeInv
<1>4. LengthAgrees(p, q)
  BY <1>2, <1>3 DEF LengthAgrees, LetterIs
<1>5. \A x \in S : Incoming(p, q, x) = [gid |-> FirstGid[q][x], prio |-> prio[q][x]]
  BY <1>2, <1>3 DEF Incoming, LetterIs
<1>6. \A x \in S : x \in Obj /\ q \in Owners[x] /\ FirstGid[q][x] \in Nat /\ prio[q][x] \in Prio
  <2>1. \A x \in S : x \in Obj /\ q \in Owners[x]
    BY DEF Shared, Partners
  <2>2. Distinct(FirstGid)
    BY <1>0, FirstGidDistinct DEF ShapeInv
  <2> QED  BY <1>0, <2>1, <2>2 DEF Distinct, ShapeInv
<1>7. /\ gid' = [gid EXCEPT ![p] = [x \in Obj |->
            IF x \in S THEN Smaller(gid[p][x], Incoming(p, q, x).gid) ELSE gid[p][x]]]
      /\ coupling' = [coupling EXCEPT ![p] = [x \in Obj |->
            IF x \in S THEN [coupling[p][x] EXCEPT ![q] = Incoming(p, q, x).prio]
            ELSE coupling[p][x]]]
      /\ identMode' = [identMode EXCEPT ![p] = identMode[p]]
      /\ channel' = [channel EXCEPT ![q][p] = Tail(channel[q][p])]
      /\ waiting' = [waiting EXCEPT ![p] = waiting[p] \ {q}]
      /\ UNCHANGED << option, created, session, issued, prio, plist, indexmap >>
  BY <1>3, <1>4 DEF Receive
<1> HIDE DEF S, m
<1>8. \A r \in Proc, x \in Obj : gid'[r][x] =
        IF r = p /\ x \in S THEN Smaller(gid[p][x], FirstGid[q][x]) ELSE gid[r][x]
  BY <1>0, <1>5, <1>7 DEF ShapeInv
<1>9. \A r \in Proc, x \in Obj, s \in Proc : coupling'[r][x][s] =
        IF r = p /\ s = q /\ x \in S THEN prio[q][x] ELSE coupling[r][x][s]
  <2>1. \A r \in Proc, x \in Obj : coupling'[r][x] =
          IF r = p /\ x \in S THEN [coupling[p][x] EXCEPT ![q] = prio[q][x]] ELSE coupling[r][x]
    <3>1. DOMAIN coupling = Proc
      BY <1>0 DEF ShapeInv
    <3>2. coupling'[p] = [x \in Obj |->
            IF x \in S THEN [coupling[p][x] EXCEPT ![q] = Incoming(p, q, x).prio] ELSE coupling[p][x]]
      BY <1>7, <3>1
    <3>3. \A r \in Proc : r # p => coupling'[r] = coupling[r]
      BY <1>7, <3>1
    <3>4. \A x \in S : Incoming(p, q, x).prio = prio[q][x]
      BY <1>5
    <3> QED  BY <3>2, <3>3, <3>4
  <2>2. \A x \in Obj : DOMAIN coupling[p][x] = Proc
    BY <1>0 DEF ShapeInv
  <2>3. ASSUME NEW r \in Proc, NEW x \in Obj, NEW s \in Proc
        PROVE  coupling'[r][x][s] = IF r = p /\ s = q /\ x \in S THEN prio[q][x] ELSE coupling[r][x][s]
    <3>1. CASE r = p /\ x \in S
      <4>1. coupling'[r][x] = [coupling[p][x] EXCEPT ![q] = prio[q][x]]
        BY <2>1, <3>1
      <4>2. DOMAIN coupling[p][x] = Proc
        BY <2>2
      <4> QED  BY <3>1, <4>1, <4>2
    <3>2. CASE ~(r = p /\ x \in S)
      BY <2>1, <3>2
    <3> QED  BY <3>1, <3>2
  <2> QED  BY <2>3
<1>10. \A r, s \in Proc : channel'[r][s] = IF r = q /\ s = p THEN Tail(channel[q][p]) ELSE channel[r][s]
  BY <1>0, <1>7 DEF ShapeInv
<1>11. \A r \in Proc : waiting'[r] = IF r = p THEN waiting[p] \ {q} ELSE waiting[r]
  BY <1>0, <1>7 DEF ShapeInv
<1>12. identMode' = identMode
  BY <1>0, <1>7 DEF ShapeInv
<1>13. Takes(p, q)
  BY <1>2, <1>7, <1>8, <1>9, <1>10, <1>11, <1>12 DEF Takes, S
<1>14. ShapeInv'
  <2>1. gid' \in [Proc -> [Obj -> Nat]]
    <3>1. \A x \in Obj : (IF x \in S THEN Smaller(gid[p][x], Incoming(p, q, x).gid) ELSE gid[p][x]) \in Nat
      <4>1. \A x \in S : Incoming(p, q, x).gid \in Nat
        BY <1>5, <1>6
      <4>2. \A x \in Obj : gid[p][x] \in Nat
        BY <1>0 DEF ShapeInv
      <4> QED  BY <4>1, <4>2 DEF Smaller
    <3> QED  BY <1>0, <1>7, <3>1 DEF ShapeInv
  <2>2. coupling' \in [Proc -> [Obj -> [Proc -> {0} \cup Prio]]]
    <3>1. \A x \in Obj : (IF x \in S THEN [coupling[p][x] EXCEPT ![q] = Incoming(p, q, x).prio]
            ELSE coupling[p][x]) \in [Proc -> {0} \cup Prio]
      BY <1>0, <1>5, <1>6 DEF ShapeInv
    <3> QED  BY <1>0, <1>7, <3>1 DEF ShapeInv
  <2>3. channel' \in [Proc -> [Proc -> Seq(Letters)]]
    <3>1. Tail(channel[q][p]) \in Seq(Letters)
      BY <1>0, <1>2 DEF ShapeInv
    <3> QED  BY <1>0, <1>7, <3>1 DEF ShapeInv
  <2>4. waiting' \in [Proc -> SUBSET Proc]
    BY <1>0, <1>7 DEF ShapeInv
  <2> QED  BY <1>0, <1>7, <1>12, <2>1, <2>2, <2>3, <2>4 DEF ShapeInv
<1> QED  BY <1>13, <1>14

(* The partner's global id and priority become known.                        *)
LEMMA TakeStep ==
  ASSUME IInv, NEW p \in Proc, NEW q \in Proc, Receive(p, q), Takes(p, q), ShapeInv'
  PROVE  IInv'
<1>0. ShapeInv /\ ModesInv /\ CommandsInv /\ ThrownInv /\ GidInv /\ CouplingInv /\ ClearInv
        /\ AnswersInv /\ ChannelInv
  BY DEF IInv
<1>1. PICK n \in 1..Sessions : n = session[p] /\ n \in Nat
  <2>1. session[p] \in 1..Sessions /\ session[p] \in Nat
    BY <1>0, PassedFacts DEF Takes, ModesInv
  <2> QED  BY <2>1
<1>2. /\ FirstGid' = FirstGid /\ Final(FirstGid)' = Final(FirstGid)
      /\ \A r, s, k : TableOf(r, s, k)' = TableOf(r, s, k)
  BY Stable DEF Takes
<1>3. \A r, k : Passed(r, k)' <=> Passed(r, k)
  BY DEF Passed, Takes
<1>4. \A r, s \in Proc, k \in 1..Sessions :
        Received(r, s, k)' <=> Received(r, s, k) \/ (r = p /\ s = q /\ k = n)
  <2> TAKE r, s \in Proc, k \in 1..Sessions
  <2>1. session'[r] = session[r] /\ (r # p => waiting'[r] = waiting[r])
          /\ (r = p => waiting'[r] = waiting[p] \ {q})
    BY DEF Takes
  <2>2. Passed(p, n)
    BY <1>1 DEF Passed, Takes
  <2> QED  BY <1>1, <1>3, <2>1, <2>2 DEF Received
<1>5. ASSUME NEW r \in Proc, NEW x \in Obj, r \in Owners[x]
      PROVE  Heard(r, x)' = IF r = p /\ x \in Shared(p, q, n) THEN Heard(p, x) \cup {q} ELSE Heard(r, x)
  <2>1. Session[x] \in 1..Sessions /\ Partners(r, x) \subseteq Proc
    BY ObjFacts DEF Partners
  <2>2. x \in Shared(p, q, n) <=> p \in Owners[x] /\ q \in Partners(p, x) /\ Session[x] = n
    BY DEF Shared
  <2>3. \A s \in Partners(r, x) : Received(r, s, Session[x])' <=>
          Received(r, s, Session[x]) \/ (r = p /\ s = q /\ Session[x] = n)
    BY <1>4, <2>1
  <2> QED  BY <1>5, <2>2, <2>3 DEF Heard
<1>6. GidInv'
  <2>1. ASSUME NEW r \in Proc, NEW x \in Obj
        PROVE  IF r \in Owners[x]
               THEN /\ \E s \in {r} \cup Heard(r, x)' : gid'[r][x] = FirstGid[s][x]
                    /\ \A s \in {r} \cup Heard(r, x)' : gid'[r][x] <= FirstGid[s][x]
               ELSE gid'[r][x] = 0
    <3>1. CASE r = p /\ x \in Shared(p, q, n)
      <4>1. r \in Owners[x] /\ q \in Owners[x] /\ Heard(r, x)' = Heard(p, x) \cup {q}
              /\ gid'[r][x] = Smaller(gid[p][x], FirstGid[q][x])
        BY <1>1, <1>5, <3>1 DEF Shared, Takes, Partners
      <4>2. /\ \E s \in {p} \cup Heard(p, x) : gid[p][x] = FirstGid[s][x]
            /\ \A s \in {p} \cup Heard(p, x) : gid[p][x] <= FirstGid[s][x]
        BY <1>0, <3>1, <4>1 DEF GidInv
      <4>3. \A s \in {p, q} \cup Heard(p, x) : FirstGid[s][x] \in Nat
        <5>1. Distinct(FirstGid)
          BY <1>0, FirstGidDistinct DEF ShapeInv
        <5>2. {p, q} \cup Heard(p, x) \subseteq Owners[x]
          BY <3>1, <4>1 DEF Heard, Partners
        <5> QED  BY <5>1, <5>2 DEF Distinct
      <4>4. gid[p][x] \in Nat
        BY <1>0 DEF ShapeInv
      <4> QED  BY <3>1, <4>1, <4>2, <4>3, <4>4 DEF Smaller
    <3>2. CASE ~(r = p /\ x \in Shared(p, q, n))
      <4>1. gid'[r][x] = gid[r][x]
        BY <1>1, <3>2 DEF Takes
      <4>2. r \in Owners[x] => Heard(r, x)' = Heard(r, x)
        BY <1>5, <3>2
      <4> QED  BY <1>0, <4>1, <4>2 DEF GidInv
    <3> QED  BY <3>1, <3>2
  <2> QED  BY <1>2, <2>1 DEF GidInv
<1>7. CouplingInv'
  <2>1. ASSUME NEW r \in Proc, NEW x \in Obj, NEW s \in Proc
        PROVE  coupling'[r][x][s] = IF r \in Owners[x] /\ s \in Heard(r, x)' THEN prio[s][x] ELSE 0
    <3>0. coupling[r][x][s] = IF r \in Owners[x] /\ s \in Heard(r, x) THEN prio[s][x] ELSE 0
      BY <1>0 DEF CouplingInv
    <3>1. CASE r = p /\ x \in Shared(p, q, n)
      <4>1. r \in Owners[x] /\ Heard(r, x)' = Heard(p, x) \cup {q}
        BY <1>5, <3>1 DEF Shared
      <4>2. coupling'[r][x][s] = IF s = q THEN prio[q][x] ELSE coupling[r][x][s]
        BY <1>1, <3>1 DEF Takes
      <4> QED  BY <3>0, <3>1, <4>1, <4>2
    <3>2. CASE ~(r = p /\ x \in Shared(p, q, n))
      <4>1. coupling'[r][x][s] = coupling[r][x][s]
        BY <1>1, <3>2 DEF Takes
      <4>2. r \in Owners[x] => Heard(r, x)' = Heard(r, x)
        BY <1>5, <3>2
      <4> QED  BY <3>0, <4>1, <4>2
    <3> QED  BY <3>1, <3>2
  <2>2. prio' = prio
    BY DEF Takes
  <2> QED  BY <2>1, <2>2 DEF CouplingInv
<1>8. CommandsInv'
  <2>1. \A r : GidsAt(r)' = GidsAt(r)
    BY <1>2 DEF GidsAt, Takes
  <2>2. \A r, order : ListsOf(r, order)' <=> ListsOf(r, order)
    BY <2>1 DEF ListsOf, Takes
  <2> QED  BY <1>0, <2>2 DEF CommandsInv, Takes
<1>9. ModesInv'
  <2>1. ASSUME NEW r \in Proc PROVE waiting'[r] \subseteq waiting[r]
    BY DEF Takes
  <2>2. /\ identMode' = identMode /\ session' = session /\ issued' = issued /\ indexmap' = indexmap
    BY DEF Takes
  <2>3. \A r, s : TableOf(r, s, session[r])' = TableOf(r, s, session[r])
    BY <1>2, <2>2
  <2> QED  BY <1>0, <2>1, <2>2, <2>3 DEF ModesInv
<1>10. ThrownInv'
  BY <1>0, <1>2 DEF ThrownInv, Takes
<1>11. ClearInv'
  <2>1. \A r, s \in Proc, k \in 1..Sessions : Passed(r, k)' => ~Ambiguous(TableOf(r, s, k)')
    BY <1>0, <1>2, <1>3 DEF ClearInv
  <2> QED  BY <2>1 DEF ClearInv
<1>12. AnswersInv'
  <2>1. Passed(q, n)
    BY <1>1 DEF Takes, Pending
  <2> QED  BY <1>0, <1>3, <1>4, <2>1 DEF AnswersInv
<1>13. ASSUME NEW r \in Proc, NEW s \in Proc
       PROVE  (\E ks \in Seq(1..Sessions) : ChannelIs(r, s, ks))'
  <2>1. PICK ks \in Seq(1..Sessions) : ChannelIs(r, s, ks)
    BY <1>0 DEF ChannelInv
  <2>2. CASE r = q /\ s = p
    <3> DEFINE ls == Tail(ks)
    <3>0. /\ Len(ks) \in Nat /\ Len(ks) >= 1 /\ ks[1] = n
          /\ ChannelIs(q, p, ks) /\ channel[q][p] \in Seq(Letters) /\ Len(channel[q][p]) = Len(ks)
      <4>1. ChannelIs(q, p, ks)
        BY <2>1, <2>2
      <4>2. Len(ks) \in Nat /\ Len(ks) >= 1 /\ ks[1] = n
        BY <1>1, <4>1, HeadIs
      <4> QED  BY <1>0, <4>1, <4>2 DEF ShapeInv, ChannelIs
    <3>1. ls \in Seq(1..Sessions) /\ Len(ls) = Len(ks) - 1 /\ \A i \in 1..Len(ls) : ls[i] = ks[i + 1]
      BY <2>1, <3>0
    <3>2. /\ Len(channel'[q][p]) = Len(ks) - 1
          /\ \A i \in 1..(Len(ks) - 1) : channel'[q][p][i] = channel[q][p][i + 1]
      <4>1. channel'[q][p] = Tail(channel[q][p])
        BY DEF Takes
      <4> QED  BY <3>0, <4>1
    <3>3. \A i \in 1..Len(ls) : i + 1 \in 1..Len(ks)
      <4> HIDE DEF ls
      <4> QED  BY <3>0, <3>1
    <3>4. \A i \in 1..Len(ls) : LetterIs(channel'[q][p][i], q, p, ls[i])
      <4> TAKE i \in 1..Len(ls)
      <4>1. LetterIs(channel[q][p][i + 1], q, p, ks[i + 1])
        BY <3>0, <3>3 DEF ChannelIs
      <4>2. ls[i] = ks[i + 1]
        BY <3>1
      <4>3. channel'[q][p][i] = channel[q][p][i + 1]
        <5> HIDE DEF ls
        <5> QED  BY <3>1, <3>2
      <4> HIDE DEF ls
      <4> QED  BY <4>1, <4>2, <4>3
    <3>5. \A i \in 1..Len(ls) : LetterIs(channel[q][p][i], q, p, ls[i])'
      BY <1>2, <3>4 DEF LetterIs, Takes
    <3>6. \A i, j \in 1..Len(ks) : i < j => ks[i] < ks[j]
      BY <3>0 DEF ChannelIs
    <3>7. \A i, j \in 1..Len(ls) : i < j => ls[i] < ls[j]
      <4> TAKE i, j \in 1..Len(ls)
      <4>1. i + 1 \in 1..Len(ks) /\ j + 1 \in 1..Len(ks) /\ ls[i] = ks[i + 1] /\ ls[j] = ks[j + 1]
        BY <3>1, <3>3
      <4>2. i < j => i + 1 < j + 1
        <5> HIDE DEF ls
        <5> QED  BY <3>0, <3>1
      <4> HIDE DEF ls
      <4> QED  BY <3>6, <4>1, <4>2
    <3>8. \A k \in 1..Sessions : Pending(q, p, k)' <=> Pending(q, p, k) /\ k # n
      <4>1. \A k \in 1..Sessions : Received(p, q, k)' <=> Received(p, q, k) \/ k = n
        BY <1>4
      <4> QED  BY <1>3, <4>1 DEF Pending
    <3>9. \A k : (\E i \in 1..Len(ls) : ls[i] = k) <=> k # n /\ \E i \in 1..Len(ks) : ks[i] = k
      <4> TAKE k
      <4>0. \A i \in 1..Len(ks) : ks[i] \in Nat
        <5>1. Sessions \in Nat
          BY IdentAssumption
        <5> QED  BY <2>1, <5>1
      <4>1. ASSUME NEW i \in 1..Len(ls), ls[i] = k
            PROVE  k # n /\ \E j \in 1..Len(ks) : ks[j] = k
        <5>1. i + 1 \in 1..Len(ks) /\ 1 \in 1..Len(ks) /\ ks[i + 1] = k /\ 1 < i + 1
          <6>1. i + 1 \in 1..Len(ks) /\ ks[i + 1] = k
            BY <3>1, <3>3, <4>1
          <6> HIDE DEF ls
          <6> QED  BY <3>0, <3>1, <6>1
        <5>2. ks[1] < k
          BY <3>6, <5>1
        <5> QED  BY <3>0, <4>0, <5>1, <5>2
      <4>2. ASSUME NEW j \in 1..Len(ks), ks[j] = k, k # n
            PROVE  \E i \in 1..Len(ls) : ls[i] = k
        <5>1. j # 1 /\ j - 1 \in 1..Len(ls) /\ (j - 1) + 1 = j
          <6> HIDE DEF ls
          <6> QED  BY <3>0, <3>1, <4>2
        <5>2. ls[j - 1] = k
          <6> HIDE DEF ls
          <6> QED  BY <3>1, <4>2, <5>1
        <5> HIDE DEF ls
        <5> QED  BY <5>1, <5>2
      <4> HIDE DEF ls
      <4> QED  BY <4>1, <4>2
    <3>10. \A k \in 1..Sessions : Pending(q, p, k)' <=> \E i \in 1..Len(ls) : ls[i] = k
      <4> HIDE DEF ls
      <4>1. \A k \in 1..Sessions : Pending(q, p, k) <=> \E i \in 1..Len(ks) : ks[i] = k
        BY <3>0 DEF ChannelIs
      <4> QED  BY <3>8, <3>9, <4>1
    <3> HIDE DEF ls
    <3>11. ChannelIs(q, p, ls)'
      BY <3>1, <3>2, <3>5, <3>7, <3>10 DEF ChannelIs
    <3> QED  BY <2>2, <3>1, <3>11
  <2>3. CASE ~(r = q /\ s = p)
    <3>1. channel'[r][s] = channel[r][s]
      BY <2>3 DEF Takes
    <3>2. \A k \in 1..Sessions : Pending(r, s, k)' <=> Pending(r, s, k)
      BY <1>3, <1>4, <2>3 DEF Pending
    <3> QED  BY <2>1, <3>1, <3>2, SameChannel DEF Takes
  <2> QED  BY <2>2, <2>3
<1>14. ChannelInv'
  BY <1>13 DEF ChannelInv
<1> QED  BY <1>6, <1>7, <1>8, <1>9, <1>10, <1>11, <1>12, <1>14 DEF IInv

LEMMA ReceiveStep ==
  ASSUME IInv, NEW p \in Proc, NEW q \in Proc, Receive(p, q)
  PROVE  IInv'
  BY ReceiveTakes, TakeStep

-------------------------------------------------------------------------------
(* The theorems.                                                             *)

(* What the messages carry and what has been done with them is as IInv says. *)
THEOREM Invariant == Spec => []IInv
<1>1. Init => IInv
  BY InitIInv
<1>2. IInv /\ [Next]_vars => IInv'
  <2> SUFFICES ASSUME IInv, [Next]_vars PROVE IInv'
    OBVIOUS
  <2>1. CASE UNCHANGED vars
    BY <2>1, StutterStep
  <2>2. CASE Next
    <3>1. PICK p \in Proc : Step(p) \/ \E x \in Obj : DDD_PrioChange(p, x)
      BY <2>2 DEF Next
    <3>2. CASE DDD_IdentifyBegin(p)
      BY <3>2, BeginStep
    <3>3. CASE Identify(p)
      BY <3>3, CommandsStep
    <3>4. CASE DDD_IdentifyEnd(p)
      BY <3>4, EndStep
    <3>5. CASE \E q \in Proc : Receive(p, q)
      BY <3>5, ReceiveStep
    <3>6. CASE IdentifyEndReturns(p)
      BY <3>6, ReturnStep
    <3>7. CASE \E x \in Obj : DDD_PrioChange(p, x)
      BY <3>7, PrioStep
    <3> QED  BY <3>1, <3>2, <3>3, <3>4, <3>5, <3>6, <3>7 DEF Step
  <2> QED  BY <2>1, <2>2
<1> QED  BY <1>1, <1>2, PTL DEF Spec

(* The tables two processors pair with each other by position list the same  *)
(* objects in the same order, although each was sorted with other global ids. *)
THEOREM TablesHold == Spec => []TablesInv
<1>1. IInv => TablesInv
  BY Types, Pairs DEF TablesInv
<1> QED  BY <1>1, Invariant, PTL

(* After DDD_IdentifyEnd the copies of an object have one global id that no  *)
(* other object has, and couplings with the priorities the copies have.      *)
THEOREM IdentificationHolds == Spec => []IdentifiedRight
<1>1. IInv => IdentifiedRight
  BY Identifies
<1> QED  BY <1>1, Invariant, PTL

(* An exception is due to equal identifiers, and nobody who shares the two   *)
(* objects has sent anything then.                                           *)
THEOREM ThrowHolds == Spec => []ThrowsTogether
<1>1. IInv => ThrowsTogether
  BY AllThrow
<1> QED  BY <1>1, Invariant, PTL

(* In DDD_IdentifyEnd a partner that tells its objects apart has sent its    *)
(* message or has that before it, and has not left by an exception; and      *)
(* while nobody has thrown, processors do not wait in a circle.              *)
THEOREM AnswerHolds == Spec => []AnswerComes
<1>1. IInv => AnswerComes
  BY Answers, LeadsOn DEF AnswerComes
<1> QED  BY <1>1, Invariant, PTL

===============================================================================
