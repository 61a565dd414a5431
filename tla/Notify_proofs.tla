---------------------------- MODULE Notify_proofs -----------------------------
(***************************************************************************)
(* Proofs about Notify, for any number of processors, calls, messages and   *)
(* exceptions: types, the tree and the barrier; then what the infos of the  *)
(* wave are at each processor and in each direction; and with it, that the  *)
(* wave implements the collective call of GlobalNotify.                     *)
(***************************************************************************)
EXTENDS NotifyRefinement, FiniteSetTheorems, WellFoundedInduction, TLAPS

------------------------------------------------------------------------------
(* The tree of processors. *)

Root == 0
Sons == Proc \ {Root}

LEMMA Father ==
  ASSUME NEW s \in Sons
  PROVE  /\ Uptree(s) \in Proc /\ Uptree(s) < s
         /\ SlotOf(s) \in {0, 1} /\ SlotOf(s) < Degree(Uptree(s))
         /\ Son(Uptree(s), SlotOf(s)) = s
  BY NAssumption DEF Sons, Root, Proc, Uptree, SlotOf, Son, Degree

LEMMA SonOf ==
  ASSUME NEW p \in Proc, NEW l \in {0, 1}, l < Degree(p)
  PROVE  Son(p, l) \in Sons /\ Uptree(Son(p, l)) = p /\ SlotOf(Son(p, l)) = l
  BY NAssumption DEF Sons, Root, Proc, Uptree, SlotOf, Son, Degree

LEMMA DegreeType == \A p \in Proc : Degree(p) \in 0 .. 2
  BY DEF Degree

(* A set of processors has a smallest member: what stands for induction.     *)
Less == {ss \in Nat \X Nat : ss[1] < ss[2]}

LEMMA Smallest ==
  ASSUME NEW S \in SUBSET Nat, S # {}
  PROVE  \E n \in S : \A m \in S : n <= m
<1>1. OpToRel(<, Nat) = Less
  BY DEF OpToRel, Less
<1>2. IsWellFoundedOn(Less, Nat)
  BY <1>1, NatLessThanWellFounded
<1>3. PICK n \in S : \A m \in S : ~ (<<m, n>> \in Less)
  BY <1>2, WFMin
<1>4. \A m \in S : ~ (m < n)
  BY <1>3 DEF Less
<1> QED  BY <1>4

------------------------------------------------------------------------------
(* Types. *)

LEMMA Members ==
  /\ {"user", "up", "down", "spread"} \subseteq Places
  /\ {0, EXCEPTION_NOTIFY} \cup Exceptions \subseteq Codes /\ Codes \subseteq Int
  /\ NoResult \in Results /\ ERROR \in Results
  /\ 0 \in Proc
<1>1. {"user", "up", "down", "spread"} \subseteq Places
  BY DEF Places
<1>3. {0, EXCEPTION_NOTIFY} \cup Exceptions \subseteq Codes
  BY DEF Codes
<1>4. Codes \subseteq Int
  <2>1. Exceptions \subseteq Int
    BY ExceptionsAssumption
  <2>2. 0 \in Int /\ EXCEPTION_NOTIFY \in Int
    BY DEF EXCEPTION_NOTIFY
  <2> QED  BY <2>1, <2>2 DEF Codes
<1>5. NoResult \in Results /\ ERROR \in Results
  BY DEF NoResult, ERROR, Results
<1>6. 0 \in Proc
  BY NAssumption DEF Proc
<1> QED  BY <1>1, <1>3, <1>4, <1>5, <1>6

LEMMA InitType == Init => TypeOK
  BY Members DEF Init, TypeOK

LEMMA CallType ==
  ASSUME TypeOK, NEW p \in Proc, NEW c \in CallArgs, DDD_Notify(p, c)
  PROVE  TypeOK'
<1>1. calls' \in [Proc -> Seq(CallArgs)]
  BY DEF TypeOK, DDD_Notify
<1>2. slot' \in [Proc -> -1 .. 2] /\ pc' \in [Proc -> Places]
  BY Members, DegreeType DEF TypeOK, DDD_Notify
<1>3. infos' \in [Proc -> SUBSET Infos]
  <2>1. {Info(p, d) : d \in c.dests \cup {Dummy}} \subseteq Infos
    BY DEF CallArgs, Infos, Info
  <2> QED  BY <2>1 DEF TypeOK, DDD_Notify
<1>4. exception' \in [Proc -> Codes]
  <2>1. c.exc \in Codes
    BY Members DEF CallArgs
  <2> QED  BY <2>1 DEF TypeOK, DDD_Notify
<1>5. routing' \in [Proc -> [Proc -> -1 .. 1]]
  BY DEF TypeOK, DDD_Notify
<1>6. result' \in [Proc -> Results]
  BY Members DEF TypeOK, DDD_Notify
<1>7. \A q \in Proc : pc'[q] = "spread" => slot'[q] >= 0
  BY DEF TypeOK, DDD_Notify
<1> QED  BY <1>1, <1>2, <1>3, <1>4, <1>5, <1>6, <1>7 DEF TypeOK

LEMMA GreaterIsOneOfThem == \A e, f : Greater(e, f) \in {e, f}
  BY DEF Greater

(* The step Concentrate(s), with p for the father of s.                      *)
RoutedTo(p, s) ==
    [q \in Proc |-> IF \E i \in UnknownInfos(s) : i.from = q THEN SlotOf(s) ELSE routing[p][q]]
ConcentrateTo(p, s) ==
    /\ s \in Sons /\ p = Uptree(s) /\ p \in Proc /\ p < s
    /\ slot[p] = SlotOf(s) /\ SlotOf(s) \in {0, 1} /\ slot[s] = -1
    /\ pc[p] = "up" /\ pc[s] = "up"
    /\ pc' = [pc EXCEPT ![s] = "down"]
    /\ slot' = [slot EXCEPT ![p] = @ - 1]
    /\ exception[s] # EXCEPTION_NOTIFY
    /\ \/ /\ exception[s] # 0
          /\ exception' = [exception EXCEPT ![p] = Greater(exception[s], @)]
          /\ UNCHANGED <<infos, routing>>
       \/ /\ exception[s] = 0
          /\ exception' = [exception EXCEPT ![p] = IF Overflow(p, UnknownInfos(s)) THEN EXCEPTION_NOTIFY ELSE @]
          /\ infos' = [infos EXCEPT ![s] = @ \ UnknownInfos(s),
                ![p] = IF Overflow(p, UnknownInfos(s)) THEN @ ELSE @ \cup UnknownInfos(s)]
          /\ routing' = [routing EXCEPT ![p] = RoutedTo(p, s)]
    /\ UNCHANGED <<calls, result>>

LEMMA ConcentrateEffect ==
  ASSUME NEW s \in Proc, Concentrate(s)
  PROVE  ConcentrateTo(Uptree(s), s)
<1> DEFINE p == Uptree(s)
<1>1. s \in Sons
  BY DEF Concentrate, Sons, Root
<1>2. p \in Proc /\ p < s /\ SlotOf(s) \in {0, 1}
  BY <1>1, Father
<1> QED  BY <1>1, <1>2 DEF Concentrate, ConcentrateTo, ReadyToGoUp, RoutedTo

LEMMA ConcentrateType ==
  ASSUME TypeOK, NEW s \in Proc, Concentrate(s)
  PROVE  TypeOK'
<1>0. PICK p \in Proc : ConcentrateTo(p, s)
  BY ConcentrateEffect DEF ConcentrateTo
<1>1. s \in Proc /\ s # p
  BY <1>0 DEF ConcentrateTo, Proc
<1>c. /\ slot \in [Proc -> -1 .. 2] /\ pc \in [Proc -> Places] /\ exception \in [Proc -> Codes]
      /\ infos \in [Proc -> SUBSET Infos] /\ routing \in [Proc -> [Proc -> -1 .. 1]]
      /\ \A q \in Proc : pc[q] = "spread" => slot[q] >= 0
  BY DEF TypeOK
<1>2. slot' \in [Proc -> -1 .. 2] /\ pc' \in [Proc -> Places]
  <2>1. slot[p] - 1 \in -1 .. 2 /\ "down" \in Places
    BY <1>0, Members DEF ConcentrateTo
  <2> QED  BY <1>0, <1>1, <1>c, <2>1 DEF ConcentrateTo
<1>3. infos' \in [Proc -> SUBSET Infos]
  <2>1. UnknownInfos(s) \subseteq Infos
    BY <1>c DEF UnknownInfos
  <2> QED  BY <1>0, <1>c, <2>1 DEF ConcentrateTo
<1>4. exception' \in [Proc -> Codes]
  <2>1. Greater(exception[s], exception[p]) \in Codes /\ EXCEPTION_NOTIFY \in Codes
    BY <1>c, GreaterIsOneOfThem, Members
  <2> QED  BY <1>0, <1>c, <2>1 DEF ConcentrateTo
<1>5. routing' \in [Proc -> [Proc -> -1 .. 1]]
  <2>1. RoutedTo(p, s) \in [Proc -> -1 .. 1]
    BY <1>0, <1>c DEF RoutedTo, ConcentrateTo
  <2> QED  BY <1>0, <1>c, <2>1 DEF ConcentrateTo
<1>6. \A q \in Proc : pc'[q] = "spread" => slot'[q] >= 0
  <2>1. pc'[s] = "down" /\ pc'[p] = "up"
    BY <1>0, <1>1, <1>c DEF ConcentrateTo
  <2>2. \A q \in Proc \ {p, s} : slot'[q] = slot[q] /\ pc'[q] = pc[q]
    BY <1>0, <1>1, <1>c DEF ConcentrateTo
  <2> QED  BY <1>c, <2>1, <2>2
<1>7. UNCHANGED <<calls, result>>
  BY <1>0 DEF ConcentrateTo
<1> QED  BY <1>2, <1>3, <1>4, <1>5, <1>6, <1>7 DEF TypeOK

(* The step Spread(p), with s for the son p talks to.                        *)
SentDown(p) == {i \in infos[p] : i.to \in Proc /\ routing[p][i.to] = slot[p]}
SpreadTo(p, s) ==
    /\ s \in Sons /\ Uptree(s) = p /\ SlotOf(s) = slot[p] /\ p < s
    /\ slot[p] \in {0, 1} /\ slot[p] < Degree(p)
    /\ pc[p] = "spread" /\ pc[s] = "down"
    /\ pc' = [pc EXCEPT ![s] = "spread"]
    /\ slot' = [slot EXCEPT ![p] = @ + 1, ![s] = 0]
    /\ exception' = [exception EXCEPT ![s] = IF exception[p] # 0 THEN Greater(exception[p], @) ELSE @]
    /\ infos' = IF exception[p] # 0 THEN infos
                ELSE [infos EXCEPT ![p] = @ \ SentDown(p), ![s] = @ \cup SentDown(p)]
    /\ UNCHANGED <<calls, routing, result>>

LEMMA SpreadEffect ==
  ASSUME TypeOK, NEW p \in Proc, Spread(p)
  PROVE  \E s \in Sons : SpreadTo(p, s)
<1> DEFINE s == Son(p, slot[p])
<1>1. slot[p] \in {0, 1} /\ slot[p] < Degree(p)
  <2>1. pc[p] = "spread" /\ slot[p] < Degree(p)
    BY DEF Spread
  <2>2. slot[p] \in -1 .. 2 /\ slot[p] >= 0
    BY <2>1 DEF TypeOK
  <2> QED  BY <2>1, <2>2, DegreeType
<1>2. s \in Sons /\ Uptree(s) = p /\ SlotOf(s) = slot[p]
  BY <1>1, SonOf
<1>3. p < s
  BY <1>2, Father
<1>4. exception \in [Proc -> Codes] /\ s \in Proc
  BY <1>2 DEF TypeOK, Sons
<1>5. exception' = [exception EXCEPT ![s] = IF exception[p] # 0 THEN Greater(exception[p], @) ELSE @]
  BY <1>4 DEF Spread
<1>6. /\ pc[p] = "spread" /\ pc[s] = "down"
      /\ pc' = [pc EXCEPT ![s] = "spread"]
      /\ slot' = [slot EXCEPT ![p] = @ + 1, ![s] = 0]
      /\ UNCHANGED <<calls, routing, result>>
  BY DEF Spread
<1>7. infos' = IF exception[p] # 0 THEN infos
              ELSE [infos EXCEPT ![p] = @ \ SentDown(p), ![s] = @ \cup SentDown(p)]
  BY DEF Spread, SentDown
<1> QED  BY <1>1, <1>2, <1>3, <1>5, <1>6, <1>7 DEF SpreadTo

LEMMA SpreadType ==
  ASSUME TypeOK, NEW p \in Proc, Spread(p)
  PROVE  TypeOK'
<1>0. PICK s \in Sons : SpreadTo(p, s)
  BY SpreadEffect
<1>1. s \in Proc /\ s # p
  BY <1>0 DEF Sons, SpreadTo, Proc
<1>c. /\ slot \in [Proc -> -1 .. 2] /\ pc \in [Proc -> Places] /\ exception \in [Proc -> Codes]
      /\ \A q \in Proc : pc[q] = "spread" => slot[q] >= 0
  BY DEF TypeOK
<1>2. slot' \in [Proc -> -1 .. 2] /\ pc' \in [Proc -> Places]
  <2>1. slot[p] + 1 \in -1 .. 2 /\ "spread" \in Places
    BY <1>0, Members DEF SpreadTo
  <2> QED  BY <1>0, <1>1, <1>c, <2>1 DEF SpreadTo
<1>3. infos' \in [Proc -> SUBSET Infos]
  BY <1>0 DEF TypeOK, SpreadTo, SentDown
<1>4. exception' \in [Proc -> Codes]
  <2>1. (IF exception[p] # 0 THEN Greater(exception[p], exception[s]) ELSE exception[s]) \in Codes
    BY <1>1, <1>c, GreaterIsOneOfThem
  <2> QED  BY <1>0, <1>1, <1>c, <2>1 DEF SpreadTo
<1>5. \A q \in Proc : pc'[q] = "spread" => slot'[q] >= 0
  <2>1. slot'[s] = 0 /\ slot'[p] = slot[p] + 1 /\ slot[p] \in {0, 1}
    BY <1>0, <1>1, <1>c DEF SpreadTo
  <2>2. \A q \in Proc \ {p, s} : slot'[q] = slot[q] /\ pc'[q] = pc[q]
    BY <1>0, <1>1, <1>c DEF SpreadTo
  <2> QED  BY <1>c, <2>1, <2>2
<1> QED  BY <1>0, <1>2, <1>3, <1>4, <1>5 DEF TypeOK, SpreadTo

LEMMA ReturnType ==
  ASSUME TypeOK, NEW p \in Proc, NotifyReturn(p)
  PROVE  TypeOK'
<1>1. {i.from : i \in {j \in infos[p] : j.to = p}} \subseteq Proc
  BY DEF TypeOK, Infos
<1>2. exception[p] \in Int
  BY Members DEF TypeOK
<1>3. result' \in [Proc -> Results]
  BY <1>1, <1>2 DEF TypeOK, NotifyReturn, Results
<1>4. slot' \in [Proc -> -1 .. 2] /\ pc' \in [Proc -> Places] /\ exception' \in [Proc -> Codes]
  BY Members DEF TypeOK, NotifyReturn
<1>5. infos' \in [Proc -> SUBSET Infos]
  BY DEF TypeOK, NotifyReturn
<1>6. UNCHANGED <<calls, routing>>
  BY DEF NotifyReturn
<1>7. \A q \in Proc : pc'[q] = "spread" => slot'[q] >= 0
  BY DEF TypeOK, NotifyReturn
<1> QED  BY <1>3, <1>4, <1>5, <1>6, <1>7 DEF TypeOK

LEMMA NextType == TypeOK /\ [Next]_vars => TypeOK'
<1> SUFFICES ASSUME TypeOK, [Next]_vars PROVE TypeOK'
  OBVIOUS
<1>1. ASSUME NEW p \in Proc, AnyCall(p) PROVE TypeOK'
  <2>1. \A dests \in SUBSET (Proc \ {p}) : [dests |-> dests, exc |-> 0] \in CallArgs
    BY DEF CallArgs
  <2>2. \A e \in Exceptions : [dests |-> {}, exc |-> e] \in CallArgs
    BY DEF CallArgs
  <2> QED  BY <1>1, <2>1, <2>2, CallType DEF AnyCall
<1>2. ASSUME NEW p \in Proc, NotifyRefused(p) PROVE TypeOK'
  BY <1>2, Members DEF NotifyRefused, TypeOK
<1>3. ASSUME Turn PROVE TypeOK'
  <2>1. infos' \in [Proc -> SUBSET Infos]
    BY <1>3 DEF Turn, TypeOK, UnknownInfos
  <2>2. slot' \in [Proc -> -1 .. 2] /\ pc' \in [Proc -> Places]
    BY <1>3, Members DEF Turn, TypeOK
  <2>3. \A q \in Proc : pc'[q] = "spread" => slot'[q] >= 0
    BY <1>3 DEF TypeOK, Turn
  <2> QED  BY <1>3, <2>1, <2>2, <2>3 DEF Turn, TypeOK
<1>4. CASE UNCHANGED vars
  BY <1>4 DEF vars, TypeOK
<1> QED
  BY <1>1, <1>2, <1>3, <1>4, ConcentrateType, SpreadType, ReturnType DEF Next, Wave

(* All variables of the wave keep their types. *)
THEOREM TypeCorrect == Spec => []TypeOK
  BY InitType, NextType, PTL DEF Spec

------------------------------------------------------------------------------
(* The two waves: how many of its calls a processor has reported upwards, in *)
(* how many it has been told the outcome, and the same as seen by its father.*)

K(p)     == Len(calls[p])
Ups(p)   == IF pc[p] = "up" THEN K(p) - 1 ELSE K(p)
Downs(p) == IF pc[p] \in {"up", "down"} THEN K(p) - 1 ELSE K(p)
UpsFrom(p, l) == IF pc[p] = "up" /\ slot[p] >= l THEN K(p) - 1 ELSE K(p)
DownsTo(p, l) == IF pc[p] \in {"up", "down"} \/ (pc[p] = "spread" /\ slot[p] <= l)
                 THEN K(p) - 1 ELSE K(p)

TreeInv == \A s \in Sons : /\ Ups(s)   = UpsFrom(Uptree(s), SlotOf(s))
                           /\ Downs(s) = DownsTo(Uptree(s), SlotOf(s))

(* What a step changes of these, in the terms they are made of. *)
Control == /\ pc \in [Proc -> Places] /\ slot \in [Proc -> -1 .. 2]
           /\ \A p \in Proc : K(p) \in Nat

LEMMA ControlType == TypeOK => Control
<1> SUFFICES ASSUME TypeOK, NEW p \in Proc PROVE K(p) \in Nat
  BY DEF TypeOK, Control
<1>1. calls[p] \in Seq(CallArgs)
  BY DEF TypeOK
<1> QED  BY <1>1 DEF K

(* At an edge of the tree a step of s or of its father f is seen by both.    *)
LEMMA Edge ==
  ASSUME NEW s \in Sons
  PROVE  /\ s \in Proc /\ Uptree(s) \in Proc /\ Uptree(s) # s /\ SlotOf(s) \in {0, 1}
         /\ SlotOf(s) < Degree(Uptree(s)) /\ Degree(Uptree(s)) \in 0 .. 2
<1>1. Proc \subseteq Int /\ s \in Proc
  BY DEF Sons, Proc
<1>2. /\ Uptree(s) \in Proc /\ Uptree(s) < s /\ SlotOf(s) \in {0, 1} /\ SlotOf(s) < Degree(Uptree(s))
  BY Father
<1>3. Uptree(s) # s
  BY <1>1, <1>2
<1> QED  BY <1>1, <1>2, <1>3, DegreeType

LEMMA CallTree ==
  ASSUME TypeOK, TreeInv, NEW p \in Proc, NEW c \in CallArgs, DDD_Notify(p, c)
  PROVE  TreeInv'
<1>1. /\ pc[p] = "user" /\ pc'[p] = "up" /\ slot'[p] = Degree(p) - 1
      /\ \A q \in Proc \ {p} : pc'[q] = pc[q] /\ slot'[q] = slot[q]
  BY DEF DDD_Notify, TypeOK
<1>2. K(p)' = K(p) + 1 /\ \A q \in Proc \ {p} : K(q)' = K(q)
  <2>1. calls \in [Proc -> Seq(CallArgs)] /\ calls' = [calls EXCEPT ![p] = Append(@, c)]
    BY DEF TypeOK, DDD_Notify
  <2>2. calls[p] \in Seq(CallArgs) /\ calls'[p] = Append(calls[p], c)
    BY <2>1
  <2> QED  BY <2>1, <2>2 DEF K
<1>3. Control
  BY ControlType
<1> SUFFICES ASSUME NEW s \in Sons
             PROVE  /\ Ups(s)'   = UpsFrom(Uptree(s), SlotOf(s))'
                    /\ Downs(s)' = DownsTo(Uptree(s), SlotOf(s))'
  BY DEF TreeInv
<1>4. /\ Ups(s) = UpsFrom(Uptree(s), SlotOf(s)) /\ Downs(s) = DownsTo(Uptree(s), SlotOf(s))
  BY DEF TreeInv
<1> QED  BY <1>1, <1>2, <1>3, <1>4, Edge DEF Control, Ups, Downs, UpsFrom, DownsTo

LEMMA ConcentrateTree ==
  ASSUME TypeOK, TreeInv, NEW r \in Proc, Concentrate(r)
  PROVE  TreeInv'
<1>0. PICK p \in Proc : ConcentrateTo(p, r)
  BY ConcentrateEffect DEF ConcentrateTo
<1>1. Control /\ r # p /\ SlotOf(r) \in {0, 1} /\ p = Uptree(r) /\ r \in Sons
  BY <1>0, ControlType, Edge DEF ConcentrateTo
<1>2. /\ pc[r] = "up" /\ slot[r] = -1 /\ pc'[r] = "down" /\ slot'[r] = -1
      /\ pc[p] = "up" /\ slot[p] = SlotOf(r) /\ pc'[p] = "up" /\ slot'[p] = slot[p] - 1
      /\ \A q \in Proc \ {p, r} : pc'[q] = pc[q] /\ slot'[q] = slot[q]
  BY <1>0, <1>1 DEF ConcentrateTo, Control
<1>3. \A q \in Proc : K(q)' = K(q)
  BY <1>0 DEF ConcentrateTo, K
<1> SUFFICES ASSUME NEW s \in Sons
             PROVE  /\ Ups(s)'   = UpsFrom(Uptree(s), SlotOf(s))'
                    /\ Downs(s)' = DownsTo(Uptree(s), SlotOf(s))'
  BY DEF TreeInv
<1>4. /\ Ups(s) = UpsFrom(Uptree(s), SlotOf(s)) /\ Downs(s) = DownsTo(Uptree(s), SlotOf(s))
  BY DEF TreeInv
<1>5. Uptree(s) = p /\ SlotOf(s) = SlotOf(r) => s = r
  BY <1>1, Father
<1> QED  BY <1>1, <1>2, <1>3, <1>4, <1>5, Edge DEF Control, Ups, Downs, UpsFrom, DownsTo

LEMMA TurnTree ==
  ASSUME TypeOK, TreeInv, Turn
  PROVE  TreeInv'
<1>1. Control /\ 0 \in Proc
  BY ControlType, Members
<1>2. /\ pc[0] = "up" /\ slot[0] = -1 /\ pc'[0] = "spread" /\ slot'[0] = 0
      /\ \A q \in Proc \ {0} : pc'[q] = pc[q] /\ slot'[q] = slot[q]
  BY <1>1 DEF Turn, ReadyToGoUp, Control
<1>3. \A q \in Proc : K(q)' = K(q)
  BY DEF Turn, K
<1> SUFFICES ASSUME NEW s \in Sons
             PROVE  /\ Ups(s)'   = UpsFrom(Uptree(s), SlotOf(s))'
                    /\ Downs(s)' = DownsTo(Uptree(s), SlotOf(s))'
  BY DEF TreeInv
<1>4. /\ Ups(s) = UpsFrom(Uptree(s), SlotOf(s)) /\ Downs(s) = DownsTo(Uptree(s), SlotOf(s))
  BY DEF TreeInv
<1>5. s # 0
  BY DEF Sons, Root
<1> QED  BY <1>1, <1>2, <1>3, <1>4, <1>5, Edge DEF Control, Ups, Downs, UpsFrom, DownsTo

LEMMA SpreadTree ==
  ASSUME TypeOK, TreeInv, NEW p \in Proc, Spread(p)
  PROVE  TreeInv'
<1>0. PICK r \in Sons : SpreadTo(p, r)
  BY SpreadEffect
<1>1. Control /\ r # p /\ r \in Proc /\ SlotOf(r) \in {0, 1} /\ p = Uptree(r)
  BY <1>0, ControlType, Edge DEF SpreadTo
<1>2. /\ pc[r] = "down" /\ pc'[r] = "spread" /\ slot'[r] = 0
      /\ pc[p] = "spread" /\ slot[p] = SlotOf(r) /\ pc'[p] = "spread" /\ slot'[p] = slot[p] + 1
      /\ \A q \in Proc \ {p, r} : pc'[q] = pc[q] /\ slot'[q] = slot[q]
  BY <1>0, <1>1 DEF SpreadTo, Control
<1>3. \A q \in Proc : K(q)' = K(q)
  BY <1>0 DEF SpreadTo, K
<1> SUFFICES ASSUME NEW s \in Sons
             PROVE  /\ Ups(s)'   = UpsFrom(Uptree(s), SlotOf(s))'
                    /\ Downs(s)' = DownsTo(Uptree(s), SlotOf(s))'
  BY DEF TreeInv
<1>4. /\ Ups(s) = UpsFrom(Uptree(s), SlotOf(s)) /\ Downs(s) = DownsTo(Uptree(s), SlotOf(s))
  BY DEF TreeInv
<1>5. Uptree(s) = p /\ SlotOf(s) = SlotOf(r) => s = r
  BY <1>1, Father
<1> QED  BY <1>1, <1>2, <1>3, <1>4, <1>5, Edge DEF Control, Ups, Downs, UpsFrom, DownsTo

LEMMA ReturnTree ==
  ASSUME TypeOK, TreeInv, NEW p \in Proc, NotifyReturn(p)
  PROVE  TreeInv'
<1>1. Control
  BY ControlType
<1>2. /\ pc[p] = "spread" /\ slot[p] = Degree(p) /\ pc'[p] = "user" /\ slot'[p] = 0
      /\ \A q \in Proc \ {p} : pc'[q] = pc[q] /\ slot'[q] = slot[q]
  BY <1>1 DEF NotifyReturn, Control
<1>3. \A q \in Proc : K(q)' = K(q)
  BY DEF NotifyReturn, K
<1> SUFFICES ASSUME NEW s \in Sons
             PROVE  /\ Ups(s)'   = UpsFrom(Uptree(s), SlotOf(s))'
                    /\ Downs(s)' = DownsTo(Uptree(s), SlotOf(s))'
  BY DEF TreeInv
<1>4. /\ Ups(s) = UpsFrom(Uptree(s), SlotOf(s)) /\ Downs(s) = DownsTo(Uptree(s), SlotOf(s))
  BY DEF TreeInv
<1> QED  BY <1>1, <1>2, <1>3, <1>4, Edge DEF Control, Ups, Downs, UpsFrom, DownsTo

LEMMA InitTree == Init => TreeInv
<1> SUFFICES ASSUME Init, NEW s \in Sons
             PROVE  Ups(s) = UpsFrom(Uptree(s), SlotOf(s)) /\ Downs(s) = DownsTo(Uptree(s), SlotOf(s))
  BY DEF TreeInv
<1>1. \A p \in Proc : pc[p] = "user" /\ K(p) = 0
  BY DEF Init, K
<1> QED  BY <1>1, Edge DEF Ups, Downs, UpsFrom, DownsTo

LEMMA NextTree == TypeOK /\ TreeInv /\ [Next]_vars => TreeInv'
<1> SUFFICES ASSUME TypeOK, TreeInv, [Next]_vars PROVE TreeInv'
  OBVIOUS
<1>1. ASSUME NEW p \in Proc, AnyCall(p) PROVE TreeInv'
  <2>1. \A dests \in SUBSET (Proc \ {p}) : [dests |-> dests, exc |-> 0] \in CallArgs
    BY DEF CallArgs
  <2>2. \A e \in Exceptions : [dests |-> {}, exc |-> e] \in CallArgs
    BY DEF CallArgs
  <2> QED  BY <1>1, <2>1, <2>2, CallTree DEF AnyCall
<1>2. ASSUME UNCHANGED <<calls, pc, slot>> PROVE TreeInv'
  BY <1>2 DEF TreeInv, Ups, Downs, UpsFrom, DownsTo, K
<1>3. ASSUME NEW p \in Proc, NotifyRefused(p) PROVE TreeInv'
  BY <1>2, <1>3 DEF NotifyRefused
<1>4. CASE UNCHANGED vars
  BY <1>2, <1>4 DEF vars
<1> QED
  BY <1>1, <1>3, <1>4, ConcentrateTree, TurnTree, SpreadTree, ReturnTree DEF Next, Wave

------------------------------------------------------------------------------
(* From the edges to all pairs of processors: otherwise there is a first     *)
(* processor with fewer reports, or with later outcomes, than the root.      *)

LEMMA RootBounds ==
  ASSUME TypeOK, TreeInv
  PROVE  \A q \in Proc : Ups(0) <= Ups(q) /\ Downs(q) <= Downs(0)
<1>1. Control /\ Proc \subseteq Nat /\ 0 \in Proc
  BY ControlType, Members DEF Proc
<1>2. \A p \in Proc : Ups(p) \in Int /\ Downs(p) \in Int
  BY <1>1 DEF Control, Ups, Downs
<1>3. ASSUME NEW s \in Sons
      PROVE  Ups(Uptree(s)) <= Ups(s) /\ Downs(s) <= Downs(Uptree(s))
  <2>1. /\ Ups(s) = UpsFrom(Uptree(s), SlotOf(s)) /\ Downs(s) = DownsTo(Uptree(s), SlotOf(s))
    BY DEF TreeInv
  <2>2. \A p \in Proc, l \in {0, 1} : Ups(p) <= UpsFrom(p, l) /\ DownsTo(p, l) <= Downs(p)
    BY <1>1 DEF Control, Ups, Downs, UpsFrom, DownsTo
  <2> QED  BY <2>1, <2>2, Father
<1> DEFINE Bad == {q \in Proc : ~ (Ups(0) <= Ups(q) /\ Downs(q) <= Downs(0))}
<1> SUFFICES ASSUME Bad # {} PROVE FALSE
  OBVIOUS
<1>4. PICK s \in Bad : \A q \in Bad : s <= q
  BY <1>1, Smallest
<1>5. s \in Sons
  BY <1>2, <1>1 DEF Sons, Root
<1>6. Uptree(s) \in Proc /\ Uptree(s) < s
  BY <1>5, Father
<1>7. Uptree(s) \notin Bad
  <2>1. s \in Nat /\ Uptree(s) \in Nat
    BY <1>1, <1>4, <1>6
  <2>2. ~ (s <= Uptree(s))
    BY <2>1, <1>6
  <2> QED  BY <1>4, <2>2
<1>8. Ups(0) <= Ups(Uptree(s)) /\ Downs(Uptree(s)) <= Downs(0)
  BY <1>6, <1>7
<1>9. Ups(0) <= Ups(s) /\ Downs(s) <= Downs(0)
  <2>1. /\ Ups(0) \in Int /\ Ups(s) \in Int /\ Ups(Uptree(s)) \in Int
        /\ Downs(0) \in Int /\ Downs(s) \in Int /\ Downs(Uptree(s)) \in Int
    BY <1>1, <1>2, <1>4, <1>6
  <2>2. Ups(Uptree(s)) <= Ups(s) /\ Downs(s) <= Downs(Uptree(s))
    BY <1>3, <1>5
  <2> QED  BY <1>8, <2>1, <2>2
<1> QED  BY <1>4, <1>9

LEMMA TreeInvImpliesBarrier == TypeOK /\ TreeInv => Barrier
<1> SUFFICES ASSUME TypeOK, TreeInv, NEW p \in Proc, NEW q \in Proc
             PROVE  Returned(p) <= Len(calls[q])
  BY DEF Barrier
<1>1. Control /\ 0 \in Proc
  BY ControlType, Members
<1>2. Downs(p) <= Downs(0) /\ Ups(0) <= Ups(q)
  BY RootBounds
<1>3. Returned(p) <= Downs(p) /\ Downs(0) <= Ups(0) /\ Ups(q) <= K(q)
  BY <1>1 DEF Control, Returned, Ups, Downs, K
<1>4. Returned(p) \in Int /\ Downs(p) \in Int /\ Downs(0) \in Int /\ Ups(0) \in Int /\ Ups(q) \in Int /\ K(q) \in Int
  BY <1>1 DEF Control, Returned, Ups, Downs, K
<1> QED  BY <1>2, <1>3, <1>4 DEF K

(* DDD_Notify is a barrier, whatever the number of processors: nobody is     *)
(* back from its k-th call before everybody has made it.                     *)
THEOREM BarrierHolds == Spec => []Barrier
<1>1. Init => TypeOK /\ TreeInv
  BY InitType, InitTree
<1>2. TypeOK /\ TreeInv /\ [Next]_vars => (TypeOK /\ TreeInv)'
  BY NextType, NextTree
<1> QED  BY <1>1, <1>2, TreeInvImpliesBarrier, PTL DEF Spec

------------------------------------------------------------------------------
(* The processors below p in the tree, p among them: those in every set that *)
(* has p and, with a processor, its sons.                                    *)
ClosedDown(S) == \A s \in Sons : Uptree(s) \in S => s \in S
Below(p) == {q \in Proc : \A S \in SUBSET Proc : p \in S /\ ClosedDown(S) => q \in S}

SonsOf(p) == {s \in Sons : Uptree(s) = p}
(* q is below a son of p from slot l on. *)
BelowSonFrom(p, l, q) == \E s \in SonsOf(p) : SlotOf(s) >= l /\ q \in Below(s)
(* f and t are below the same son of p: p never sees an info from f to t. *)
SameSon(p, f, t) == \E s \in SonsOf(p) : f \in Below(s) /\ t \in Below(s)

LEMMA BelowType == \A p \in Proc : Below(p) \in SUBSET Proc /\ p \in Below(p)
  BY DEF Below

LEMMA BelowLeast ==
  ASSUME NEW p \in Proc, NEW S \in SUBSET Proc, p \in S, ClosedDown(S)
  PROVE  Below(p) \subseteq S
  BY DEF Below

LEMMA SonType ==
  ASSUME NEW p \in Proc, NEW s \in SonsOf(p)
  PROVE  /\ s \in Sons /\ s \in Proc /\ s # p /\ p < s /\ Uptree(s) = p
         /\ SlotOf(s) \in {0, 1} /\ SlotOf(s) < Degree(p)
<1>1. s \in Sons /\ Uptree(s) = p
  BY DEF SonsOf
<1> QED  BY <1>1, Father, Edge

LEMMA BelowClosed == \A p \in Proc : ClosedDown(Below(p))
<1> SUFFICES ASSUME NEW p \in Proc, NEW s \in Sons, Uptree(s) \in Below(p),
                    NEW S \in SUBSET Proc, p \in S, ClosedDown(S)
             PROVE  s \in S
  BY Edge DEF ClosedDown, Below
<1> QED  BY BelowLeast DEF ClosedDown

(* Who is below p is p, or below one of its sons; and is not before p. *)
LEMMA BelowSons ==
  ASSUME NEW p \in Proc
  PROVE  /\ \A q \in Proc : q \in Below(p) <=> (q = p \/ BelowSonFrom(p, 0, q))
         /\ \A q \in Below(p) : p <= q
<1> DEFINE S == {q \in Proc : q = p \/ BelowSonFrom(p, 0, q)}
<1>1. \A s \in SonsOf(p) : Below(s) \subseteq Below(p)
  <2> SUFFICES ASSUME NEW s \in SonsOf(p) PROVE Below(s) \subseteq Below(p)
    OBVIOUS
  <2>1. s \in Sons /\ s \in Proc /\ Uptree(s) = p
    BY SonType
  <2>2. s \in Below(p)
    BY <2>1, BelowType, BelowClosed DEF ClosedDown
  <2> QED  BY <2>1, <2>2, BelowType, BelowClosed, BelowLeast
<1>2. ClosedDown(S)
  <2> SUFFICES ASSUME NEW s \in Sons, Uptree(s) \in S PROVE BelowSonFrom(p, 0, s)
    BY Edge DEF ClosedDown
  <2>0. s \in Proc
    BY Edge
  <2>1. CASE Uptree(s) = p
    <3>1. s \in SonsOf(p) /\ SlotOf(s) >= 0
      BY <2>1, Edge DEF SonsOf
    <3> QED  BY <2>0, <3>1, BelowType DEF BelowSonFrom
  <2>2. CASE BelowSonFrom(p, 0, Uptree(s))
    <3>1. PICK t \in SonsOf(p) : SlotOf(t) >= 0 /\ Uptree(s) \in Below(t)
      BY <2>2 DEF BelowSonFrom
    <3>2. s \in Below(t)
      BY <3>1, SonType, BelowClosed DEF ClosedDown
    <3> QED  BY <3>1, <3>2 DEF BelowSonFrom
  <2> QED  BY <2>1, <2>2
<1>3. Below(p) \subseteq S
  BY <1>2, BelowLeast
<1>4. S \subseteq Below(p)
  BY <1>1, BelowType DEF BelowSonFrom
<1>5. \A q \in Below(p) : p <= q
  <2> DEFINE T == {q \in Proc : p <= q}
  <2>1. Proc \subseteq Int
    BY DEF Proc
  <2>2. ClosedDown(T)
    <3> SUFFICES ASSUME NEW s \in Sons, Uptree(s) \in T PROVE s \in Proc /\ p <= s
      BY DEF ClosedDown
    <3>1. s \in Proc /\ Uptree(s) < s /\ Uptree(s) \in Proc /\ p <= Uptree(s)
      BY Edge, Father
    <3>2. s \in Int /\ Uptree(s) \in Int /\ p \in Int
      BY <2>1, <3>1
    <3> QED  BY <3>1, <3>2
  <2>3. p \in T
    BY <2>1
  <2> QED  BY <2>2, <2>3, BelowLeast
<1> QED  BY <1>3, <1>4, <1>5

(* Everybody is below the root. *)
LEMMA BelowRoot == Below(0) = Proc
<1>1. 0 \in Proc /\ Proc \subseteq Nat
  BY Members DEF Proc
<1> DEFINE Bad == Proc \ Below(0)
<1> SUFFICES ASSUME Bad # {} PROVE FALSE
  BY <1>1, BelowType
<1>2. PICK s \in Bad : \A q \in Bad : s <= q
  BY <1>1, Smallest
<1>3. s \in Sons
  BY <1>1, <1>2, BelowType DEF Sons, Root
<1>4. Uptree(s) \in Proc /\ Uptree(s) < s
  BY <1>3, Father
<1>5. Uptree(s) \in Below(0)
  <2>1. s \in Nat /\ Uptree(s) \in Nat
    BY <1>1, <1>2, <1>4
  <2> QED  BY <1>2, <1>4, <2>1
<1> QED  BY <1>1, <1>2, <1>3, <1>5, BelowClosed DEF ClosedDown

(* Nobody is below two sons of p. *)
LEMMA SonsApart ==
  ASSUME NEW p \in Proc, NEW s \in SonsOf(p), NEW t \in SonsOf(p), s # t
  PROVE  Below(s) \cap Below(t) = {}
<1>1. Proc \subseteq Nat /\ Below(s) \subseteq Proc /\ Below(t) \subseteq Proc
  BY SonType, BelowType DEF Proc
<1> DEFINE Both == Below(s) \cap Below(t)
<1> SUFFICES ASSUME Both # {} PROVE FALSE
  OBVIOUS
<1>2. PICK q \in Both : \A r \in Both : q <= r
  <2>1. Both \in SUBSET Nat
    BY <1>1
  <2> QED  BY <2>1, Smallest
<1>3. ASSUME NEW u \in SonsOf(p), NEW v \in SonsOf(p), u # v, u \in Below(v) PROVE FALSE
  <2>1. u \in Proc /\ v \in Proc /\ p < v /\ u \in Sons /\ Uptree(u) = p
    BY SonType
  <2>2. PICK w \in SonsOf(v) : u \in Below(w)
    BY <1>3, <2>1, BelowSons DEF BelowSonFrom
  <2>3. Below(v) \ {u} \in SUBSET Proc /\ v \in Below(v) \ {u}
    BY <1>3, <2>1, BelowType
  <2>4. p \notin Below(v)
    <3>1. p \in Int /\ v \in Int
      BY <1>1, <2>1
    <3> QED  BY <2>1, <3>1, BelowSons
  <2>5. ClosedDown(Below(v) \ {u})
    BY <2>1, <2>4, BelowClosed DEF ClosedDown
  <2> QED  BY <1>3, <2>1, <2>3, <2>5, BelowLeast
<1>4. q # s /\ q # t
  BY <1>2, <1>3
<1>5. ASSUME NEW u \in SonsOf(p), q \in Below(u), q # u PROVE q \in Sons /\ Uptree(q) \in Below(u)
  <2>1. u \in Proc /\ p < u /\ u \in Nat /\ q \in Nat /\ p \in Nat /\ q \in Proc
    BY <1>1, <1>2, SonType
  <2>2. u <= q
    BY <1>5, <2>1, BelowSons
  <2>3. q \in Sons
    BY <2>1, <2>2 DEF Sons, Root
  <2>4. ASSUME Uptree(q) \notin Below(u) PROVE FALSE
    <3>1. ClosedDown(Below(u) \ {q})
      BY <2>1, <2>4, BelowClosed DEF ClosedDown
    <3>2. Below(u) \ {q} \in SUBSET Proc /\ u \in Below(u) \ {q}
      BY <1>5, <2>1, BelowType
    <3> QED  BY <1>5, <2>1, <3>1, <3>2, BelowLeast
  <2> QED  BY <2>3, <2>4
<1>6. q \in Sons /\ Uptree(q) \in Both
  BY <1>2, <1>4, <1>5
<1>7. Uptree(q) < q /\ q \in Nat /\ Uptree(q) \in Nat
  BY <1>1, <1>2, <1>6, Father
<1> QED  BY <1>2, <1>6, <1>7

(* The tree below p, as p's slots see it. *)
LEMMA BelowSlot ==
  ASSUME NEW p \in Proc, NEW s \in SonsOf(p), NEW l \in Int
  PROVE  /\ \A q \in Below(s) : q # p /\ (BelowSonFrom(p, l, q) <=> l <= SlotOf(s))
         /\ \A q \in Proc : l = SlotOf(s) =>
               (BelowSonFrom(p, l, q) <=> (q \in Below(s) \/ BelowSonFrom(p, l + 1, q)))
<1>1. s \in Proc /\ p < s /\ SlotOf(s) \in {0, 1} /\ Uptree(s) = p
  BY SonType
<1>2. ASSUME NEW q \in Below(s) PROVE q # p /\ (BelowSonFrom(p, l, q) <=> l <= SlotOf(s))
  <2>1. q \in Int /\ s \in Int /\ p \in Int
    BY <1>1, BelowType DEF Proc
  <2>2. s <= q
    BY <1>1, BelowSons
  <2>3. \A t \in SonsOf(p) : q \in Below(t) => t = s
    BY SonsApart
  <2>4. BelowSonFrom(p, l, q) <=> SlotOf(s) >= l
    BY <2>3 DEF BelowSonFrom
  <2> QED  BY <1>1, <2>1, <2>2, <2>4
<1>3. ASSUME NEW q \in Proc, l = SlotOf(s)
      PROVE  BelowSonFrom(p, l, q) <=> (q \in Below(s) \/ BelowSonFrom(p, l + 1, q))
  <2>1. \A t \in SonsOf(p) : SlotOf(t) \in {0, 1} /\ (SlotOf(t) = l => t = s)
    <3> SUFFICES ASSUME NEW t \in SonsOf(p) PROVE SlotOf(t) \in {0, 1} /\ (SlotOf(t) = l => t = s)
      OBVIOUS
    <3>1. Son(p, SlotOf(t)) = t /\ Son(p, SlotOf(s)) = s
      BY SonType, Father DEF SonsOf
    <3> QED  BY <1>3, <3>1, SonType
  <2>2. \A t \in SonsOf(p) : SlotOf(t) >= l <=> (t = s \/ SlotOf(t) >= l + 1)
    BY <1>1, <1>3, <2>1
  <2> QED  BY <2>2 DEF BelowSonFrom
<1> QED  BY <1>2, <1>3

LEMMA SameSonBelow ==
  ASSUME NEW p \in Proc, NEW s \in SonsOf(p), NEW f, NEW t
  PROVE  /\ f \in Below(s) => (SameSon(p, f, t) <=> t \in Below(s))
         /\ t \in Below(s) => (SameSon(p, f, t) <=> f \in Below(s))
         /\ SameSon(s, f, t) => f \in Below(s) /\ t \in Below(s)
<1>1. \A u \in SonsOf(p) : f \in Below(s) /\ f \in Below(u) => u = s
  BY SonsApart
<1>2. \A u \in SonsOf(p) : t \in Below(s) /\ t \in Below(u) => u = s
  BY SonsApart
<1>3. SameSon(s, f, t) => f \in Below(s) /\ t \in Below(s)
  <2> SUFFICES ASSUME NEW u \in SonsOf(s), f \in Below(u), t \in Below(u)
               PROVE  f \in Below(s) /\ t \in Below(s)
    BY DEF SameSon
  <2>1. s \in Proc /\ u \in Proc /\ SlotOf(u) >= 0
    BY SonType
  <2>2. f \in Proc /\ t \in Proc
    BY <2>1, BelowType
  <2> QED  BY <2>1, <2>2, BelowSons DEF BelowSonFrom
<1> QED  BY <1>1, <1>2, <1>3 DEF SameSon

------------------------------------------------------------------------------
(* What p knows of the call it is in. *)

ExcOf(f, k)   == calls[f][k].exc
Targets(f, k) == calls[f][k].dests \cup {Dummy}

(* The processors whose infos, or whose exception, have reached p: in the    *)
(* wave up those below the sons that have reported, in the wave down all.    *)
Heard(p) == IF pc[p] = "spread" THEN Proc
            ELSE {q \in Proc : q = p \/ BelowSonFrom(p, slot[p] + 1, q)}

(* The targets whose infos p has: in the wave up everything but what stayed  *)
(* below, after it what is for p or below it, and less and less of that when *)
(* p sends it to its sons.                                                   *)
Here(p) == CASE pc[p] = "up"     -> Proc \cup {Dummy}
             [] pc[p] = "down"   -> Below(p)
             [] pc[p] = "spread" -> {q \in Proc : q = p \/ BelowSonFrom(p, slot[p], q)}
             [] OTHER            -> {}

GreatestException(p) ==
    /\ \E f \in Heard(p) : exception[p] = ExcOf(f, K(p))
    /\ \A f \in Heard(p) : ExcOf(f, K(p)) <= exception[p]

FromOthers(p) == \A i \in infos[p] : i.from \in Heard(p) /\ i.from # i.to

Held(p, i) == /\ i.from \in Heard(p)
              /\ i.to \in Targets(i.from, K(p)) \cap Here(p)
              /\ ~SameSon(p, i.from, i.to)
ExactInfos(p) == \A i \in Infos : i \in infos[p] <=> Held(p, i)

RightWay(p) ==
    /\ routing[p][p] = -1
    /\ \A s \in SonsOf(p) : \A f \in Below(s) \cap Heard(p) : routing[p][f] = SlotOf(s)

WaveAt(p) ==
    /\ pc[p] = "user" => exception[p] = 0
    /\ pc[p] # "user" => K(p) >= 1 /\ GreatestException(p)
    /\ pc[p] = "up" => FromOthers(p)
    /\ pc[p] # "user" /\ exception[p] = 0 => ExactInfos(p) /\ RightWay(p)
    /\ pc[p] = "down" => slot[p] = -1

NotToOneself == \A p \in Proc : \A k \in 1 .. K(p) : p \notin calls[p][k].dests

DataInv == NotToOneself /\ \A p \in Proc : WaveAt(p)

------------------------------------------------------------------------------
(* Whoever p has heard of has made the call that p is in. *)
LEMMA HeardCalled ==
  ASSUME TypeOK, TreeInv, NEW p \in Proc, pc[p] # "user", NEW f \in Heard(p)
  PROVE  f \in Proc /\ K(f) \in Nat /\ K(p) \in Nat /\ K(p) <= K(f)
<1>1. Control /\ f \in Proc /\ 0 \in Proc
  BY ControlType, Members DEF Heard
<1>2. K(f) \in Nat /\ K(p) \in Nat /\ \A q \in Proc : Ups(q) \in Int /\ Ups(q) <= K(q)
  BY <1>1 DEF Control, Ups
<1>3. CASE pc[p] = "spread"
  <2>1. Downs(p) = K(p) /\ Downs(p) <= Downs(0) /\ Ups(0) <= Ups(f)
    BY <1>1, <1>3, RootBounds DEF Downs
  <2>2. Downs(0) <= Ups(0) /\ Downs(0) \in Int /\ Ups(0) \in Int /\ Downs(p) \in Int
    BY <1>1, <1>2 DEF Control, Downs, Ups
  <2> QED  BY <1>1, <1>2, <2>1, <2>2
<1>4. CASE pc[p] # "spread" /\ f # p
  <2>1. PICK s \in SonsOf(p) : SlotOf(s) >= slot[p] + 1 /\ f \in Below(s)
    BY <1>4 DEF Heard, BelowSonFrom
  <2>2. s \in Sons /\ s \in Proc /\ Uptree(s) = p /\ SlotOf(s) \in {0, 1} /\ slot[p] \in Int
    BY <1>1, SonType DEF Control
  <2>3. K(p) = Ups(s)
    BY <2>1, <2>2 DEF TreeInv, UpsFrom
  <2> DEFINE S == {q \in Proc : K(p) <= Ups(q)}
  <2>4. ClosedDown(S)
    <3> SUFFICES ASSUME NEW t \in Sons, Uptree(t) \in S PROVE t \in Proc /\ K(p) <= Ups(t)
      BY DEF ClosedDown
    <3>1. t \in Proc /\ Uptree(t) \in Proc /\ K(p) <= Ups(Uptree(t))
      BY Edge
    <3>2. Ups(t) = UpsFrom(Uptree(t), SlotOf(t))
      BY DEF TreeInv
    <3>3. Ups(Uptree(t)) <= UpsFrom(Uptree(t), SlotOf(t))
      BY <1>1, <3>1 DEF Control, Ups, UpsFrom
    <3> QED  BY <1>2, <3>1, <3>2, <3>3
  <2>5. s \in S
    BY <1>2, <2>2, <2>3
  <2>6. f \in S
    BY <2>1, <2>2, <2>4, <2>5, BelowLeast
  <2> QED  BY <1>1, <1>2, <2>6
<1> QED  BY <1>1, <1>2, <1>3, <1>4

(* What the others do does not change what p knows: the arguments of a call  *)
(* stay as they are.                                                         *)
SameCalls == \A f \in Proc : \A k \in 1 .. K(f) : calls'[f][k] = calls[f][k]

LEMMA WaveElsewhere ==
  ASSUME TypeOK, TreeInv, SameCalls, NEW p \in Proc, WaveAt(p), K(p)' = K(p),
         pc'[p] = pc[p], slot'[p] = slot[p], infos'[p] = infos[p], exception'[p] = exception[p],
         routing'[p] = routing[p]
  PROVE  WaveAt(p)'
<1>1. Heard(p)' = Heard(p) /\ Here(p)' = Here(p)
  BY DEF Heard, Here
<1>2. CASE pc[p] = "user"
  BY <1>2 DEF WaveAt
<1>3. CASE pc[p] # "user"
  <2>1. K(p) >= 1 /\ GreatestException(p)
    BY <1>3 DEF WaveAt
  <2>2. \A f \in Heard(p) : calls'[f][K(p)] = calls[f][K(p)]
    <3> SUFFICES ASSUME NEW f \in Heard(p) PROVE calls'[f][K(p)] = calls[f][K(p)]
      OBVIOUS
    <3>1. f \in Proc /\ K(p) \in 1 .. K(f)
      BY <1>3, <2>1, HeardCalled
    <3> QED  BY <3>1 DEF SameCalls
  <2>3. \A f \in Heard(p) : ExcOf(f, K(p))' = ExcOf(f, K(p)) /\ Targets(f, K(p))' = Targets(f, K(p))
    BY <2>2 DEF ExcOf, Targets
  <2>4. GreatestException(p)'
    BY <1>1, <2>1, <2>3 DEF GreatestException
  <2>5. FromOthers(p) => FromOthers(p)'
    BY <1>1 DEF FromOthers
  <2>6. ASSUME NEW i PROVE Held(p, i)' <=> Held(p, i)
    BY <1>1, <2>3 DEF Held
  <2>7. ExactInfos(p) => ExactInfos(p)'
    BY <2>6 DEF ExactInfos
  <2>8. RightWay(p) => RightWay(p)'
    BY <1>1 DEF RightWay
  <2> QED  BY <1>3, <2>1, <2>4, <2>5, <2>7, <2>8 DEF WaveAt
<1> QED  BY <1>2, <1>3

------------------------------------------------------------------------------
(* DataInv is inductive. *)

LEMMA InitData == Init => DataInv
<1> SUFFICES ASSUME Init PROVE DataInv
  OBVIOUS
<1>1. \A p \in Proc : pc[p] = "user" /\ exception[p] = 0 /\ K(p) = 0
  BY DEF Init, K
<1> QED  BY <1>1 DEF DataInv, NotToOneself, WaveAt

LEMMA CallData ==
  ASSUME TypeOK, TreeInv, DataInv, NEW p \in Proc, NEW c \in CallArgs, p \notin c.dests, DDD_Notify(p, c)
  PROVE  DataInv'
<1>1. /\ calls \in [Proc -> Seq(CallArgs)] /\ calls' = [calls EXCEPT ![p] = Append(@, c)]
      /\ calls[p] \in Seq(CallArgs) /\ calls'[p] = Append(calls[p], c)
  BY DEF TypeOK, DDD_Notify
<1>2. /\ K(p) \in Nat /\ K(p)' = K(p) + 1 /\ calls'[p][K(p)'] = c
      /\ \A k \in 1 .. K(p) : calls'[p][k] = calls[p][k]
  BY <1>1 DEF K
<1>3. \A q \in Proc \ {p} : calls'[q] = calls[q] /\ K(q)' = K(q)
  BY <1>1 DEF K
<1>4. SameCalls
  BY <1>2, <1>3 DEF SameCalls
<1>5. NotToOneself'
  <2> SUFFICES ASSUME NEW q \in Proc, NEW k \in 1 .. K(q)' PROVE q \notin calls'[q][k].dests
    BY DEF NotToOneself
  <2>1. CASE q # p
    BY <1>3, <2>1 DEF DataInv, NotToOneself
  <2>2. CASE q = p
    <3>1. k \in 1 .. K(p) \/ k = K(p)'
      BY <1>2, <2>2
    <3> QED  BY <1>2, <2>2, <3>1 DEF DataInv, NotToOneself
  <2> QED  BY <2>1, <2>2
<1>6. WaveAt(p)'
  <2>1. /\ pc'[p] = "up" /\ slot'[p] = Degree(p) - 1 /\ exception'[p] = c.exc
        /\ infos'[p] = {Info(p, d) : d \in c.dests \cup {Dummy}} /\ routing'[p][p] = -1
    BY DEF TypeOK, DDD_Notify
  <2>2. \A q : ~BelowSonFrom(p, Degree(p), q)
    <3> SUFFICES ASSUME NEW s \in SonsOf(p), SlotOf(s) >= Degree(p) PROVE FALSE
      BY DEF BelowSonFrom
    <3> QED  BY SonType, DegreeType
  <2>3. Heard(p)' = {p}
    <3>1. slot'[p] + 1 = Degree(p)
      BY <2>1, DegreeType
    <3> QED  BY <2>1, <2>2, <3>1 DEF Heard
  <2>4. GreatestException(p)' /\ K(p)' >= 1
    <3>1. ExcOf(p, K(p))' = c.exc /\ c.exc \in Int
      BY <1>2, Members DEF ExcOf, CallArgs, Codes
    <3> QED  BY <1>2, <2>1, <2>3, <3>1 DEF GreatestException
  <2>5. Dummy \notin Proc
    BY DEF Dummy, Proc
  <2>6. FromOthers(p)'
    BY <2>1, <2>3, <2>5 DEF FromOthers, Info
  <2>7. \A s \in SonsOf(p) : p \notin Below(s)
    BY BelowSlot
  <2>8. ExactInfos(p)'
    <3> SUFFICES ASSUME NEW i \in Infos PROVE i \in infos'[p] <=> Held(p, i)'
      BY DEF ExactInfos
    <3>1. Here(p)' = Proc \cup {Dummy}
      BY <2>1 DEF Here
    <3>2. Targets(p, K(p))' = c.dests \cup {Dummy} /\ c.dests \subseteq Proc
      BY <1>2 DEF Targets, CallArgs
    <3>3. i = Info(i.from, i.to)
      BY DEF Info, Infos
    <3>4. Held(p, i)' <=> i.from = p /\ i.to \in c.dests \cup {Dummy}
      BY <2>3, <2>7, <3>1, <3>2 DEF Held, SameSon
    <3> QED  BY <2>1, <3>3, <3>4 DEF Info
  <2>9. RightWay(p)'
    BY <2>1, <2>3, <2>7 DEF RightWay
  <2> QED  BY <2>1, <2>4, <2>6, <2>8, <2>9 DEF WaveAt
<1>7. ASSUME NEW q \in Proc, q # p PROVE WaveAt(q)'
  <2>1. /\ pc'[q] = pc[q] /\ slot'[q] = slot[q] /\ infos'[q] = infos[q]
        /\ exception'[q] = exception[q] /\ routing'[q] = routing[q]
    BY <1>7 DEF TypeOK, DDD_Notify
  <2>2. WaveAt(q)
    BY DEF DataInv
  <2> QED  BY <1>3, <1>4, <1>7, <2>1, <2>2, WaveElsewhere
<1> QED  BY <1>5, <1>6, <1>7 DEF DataInv

(* There is room for an info from every processor to every other one, and a  *)
(* dummy from each.                                                          *)
LEMMA RoomForInfos ==
  ASSUME NEW A \in SUBSET Infos, NEW B \in SUBSET Infos, A \cap B = {},
         \A i \in A \cup B : i.from # i.to
  PROVE  ~(Cardinality(A) + Cardinality(B) >= MAX_INFOS)
<1> DEFINE Pairs == Proc \X Proc
           pair == [i \in A \cup B |-> <<i.from, IF i.to = Dummy THEN i.from ELSE i.to>>]
<1>1. N \in Nat /\ N >= 1
  BY NAssumption
<1>2. IsFiniteSet(Proc) /\ Cardinality(Proc) = N
  <2>1. IsFiniteSet(0 .. N - 1) /\ Cardinality(0 .. N - 1) = N
    BY <1>1, FS_Interval
  <2> QED  BY <2>1 DEF Proc
<1>3. IsFiniteSet(Pairs) /\ Cardinality(Pairs) = N * N
  BY <1>2, FS_Product
<1>4. pair \in Injection(A \cup B, Pairs)
  <2>1. \A i \in A \cup B : i.from \in Proc /\ i.to \in Proc \cup {Dummy} /\ i = [from |-> i.from, to |-> i.to]
    BY DEF Infos
  <2>2. pair \in [A \cup B -> Pairs]
    BY <2>1
  <2>3. \A i, j \in A \cup B : pair[i] = pair[j] => i = j
    <3> SUFFICES ASSUME NEW i \in A \cup B, NEW j \in A \cup B, pair[i] = pair[j] PROVE i = j
      OBVIOUS
    <3>1. i.from = j.from
      OBVIOUS
    <3>2. i.to = j.to
      BY <3>1
    <3> QED  BY <2>1, <3>1, <3>2
  <2> QED  BY <2>2, <2>3 DEF Injection, IsInjective
<1>5. IsFiniteSet(A \cup B) /\ Cardinality(A \cup B) <= N * N
  <2> HIDE DEF pair, Pairs
  <2> QED  BY <1>3, <1>4, FS_Injection
<1>6. IsFiniteSet(A) /\ IsFiniteSet(B)
  BY <1>5, FS_Subset
<1>7. Cardinality(A \cup B) = Cardinality(A) + Cardinality(B)
  <2>1. Cardinality(A \cup B) = Cardinality(A) + Cardinality(B) - Cardinality(A \cap B)
    BY <1>6, FS_Union
  <2>2. Cardinality(A) \in Nat /\ Cardinality(B) \in Nat /\ Cardinality(A \cap B) = 0
    BY <1>6, FS_CardinalityType, FS_EmptySet
  <2> QED  BY <2>1, <2>2
<1>8. N * N < MAX_INFOS /\ MAX_INFOS \in Nat /\ N * N \in Nat
  <2>1. CASE N >= 9
    <3>1. N * (1 + N) = N + N * N /\ N * N \in Nat
      BY <1>1
    <3>2. MAX_INFOS = N + N * N
      BY <2>1, <3>1 DEF MAX_INFOS
    <3> QED  BY <1>1, <3>1, <3>2
  <2>2. CASE N < 9
    <3>1. N \in {1, 2, 3, 4, 5, 6, 7, 8}
      BY <1>1, <2>2
    <3> QED  BY <3>1 DEF MAX_INFOS
  <2> QED  BY <1>1, <2>1, <2>2
<1>9. Cardinality(A) + Cardinality(B) <= N * N
  BY <1>5, <1>7
<1>10. Cardinality(A) \in Nat /\ Cardinality(B) \in Nat
  BY <1>6, FS_CardinalityType
<1> QED  BY <1>8, <1>9, <1>10

LEMMA ArgsType ==
  ASSUME TypeOK, NEW f \in Proc, NEW k \in 1 .. K(f)
  PROVE  ExcOf(f, k) \in Nat /\ calls[f][k].dests \subseteq Proc
<1>1. calls[f] \in Seq(CallArgs) /\ k \in DOMAIN calls[f]
  BY DEF TypeOK, K
<1>2. calls[f][k] \in CallArgs
  BY <1>1
<1>3. {0} \cup Exceptions \subseteq Nat
  BY ExceptionsAssumption
<1> QED  BY <1>2, <1>3 DEF CallArgs, ExcOf

LEMMA DummyIsNobody == Dummy \notin Proc
  BY DEF Dummy, Proc

(* What a processor with all reports from below does not know are the infos  *)
(* for targets that are not below it.                                        *)
LEMMA UnknownAbove ==
  ASSUME TypeOK, NEW s \in Proc, pc[s] = "up", Heard(s) = Below(s), ExactInfos(s), NEW i \in Infos
  PROVE  i \in UnknownInfos(s) <=>
            i.from \in Below(s) /\ i.to \in Targets(i.from, K(s)) /\ i.to \notin Below(s)
<1>1. infos[s] \subseteq Infos /\ i.to \in Proc \cup {Dummy} /\ Here(s) = Proc \cup {Dummy}
  BY DEF TypeOK, Infos, Here
<1>2. \A q \in SonsOf(s) : Below(q) \subseteq Below(s) /\ Below(q) \subseteq Proc
  <2> SUFFICES ASSUME NEW q \in SonsOf(s) PROVE Below(q) \subseteq Below(s) /\ Below(q) \subseteq Proc
    OBVIOUS
  <2>1. q \in Proc /\ SlotOf(q) >= 0
    BY SonType
  <2>2. Below(q) \subseteq Proc
    BY <2>1, BelowType
  <2> QED  BY <2>1, <2>2, BelowSons DEF BelowSonFrom
<1>3. IsKnown(s, i) <=> i.to \in Below(s)
  <2>1. CASE i.to = Dummy
    <3>1. Info(i.to, Dummy) \notin Infos
      BY <2>1, DummyIsNobody DEF Info, Infos
    <3> QED  BY <1>1, <2>1, <3>1, DummyIsNobody, BelowType DEF IsKnown
  <2>2. CASE i.to \in Proc
    <3> DEFINE d == Info(i.to, Dummy)
    <3>1. d \in Infos /\ d.from = i.to /\ d.to = Dummy
      BY <2>2 DEF Info, Infos
    <3>2. ~SameSon(s, d.from, d.to)
      BY <1>2, <3>1, DummyIsNobody DEF SameSon
    <3>3. Dummy \in Targets(d.from, K(s))
      BY DEF Targets
    <3>4. Held(s, d) <=> i.to \in Below(s)
      BY <1>1, <3>1, <3>2, <3>3 DEF Held
    <3>5. d \in infos[s] <=> Held(s, d)
      BY <3>1 DEF ExactInfos
    <3> QED  BY <3>4, <3>5 DEF IsKnown
  <2> QED  BY <1>1, <2>1, <2>2
<1>4. i.to \notin Below(s) => ~SameSon(s, i.from, i.to)
  BY <1>2 DEF SameSon
<1>5. i \in infos[s] <=> Held(s, i)
  BY DEF ExactInfos
<1>6. i \in UnknownInfos(s) <=> i \in infos[s] /\ ~IsKnown(s, i)
  BY DEF UnknownInfos
<1> QED  BY <1>1, <1>3, <1>4, <1>5, <1>6 DEF Held

LEMMA ConcentrateData ==
  ASSUME TypeOK, TreeInv, DataInv, NEW s \in Proc, Concentrate(s)
  PROVE  DataInv'
<1>0. PICK p \in Proc : ConcentrateTo(p, s)
  BY ConcentrateEffect DEF ConcentrateTo
<1>1. /\ s \in Sons /\ s \in SonsOf(p) /\ s # p /\ SlotOf(s) \in {0, 1} /\ Uptree(s) = p
  BY <1>0, Edge DEF ConcentrateTo, SonsOf
<1>t. /\ Control /\ exception \in [Proc -> Codes] /\ infos \in [Proc -> SUBSET Infos]
      /\ routing \in [Proc -> [Proc -> -1 .. 1]]
  BY ControlType DEF TypeOK
<1>2. /\ pc[s] = "up" /\ slot[s] = -1 /\ pc'[s] = "down" /\ slot'[s] = -1
      /\ pc[p] = "up" /\ slot[p] = SlotOf(s) /\ pc'[p] = "up" /\ slot'[p] = slot[p] - 1
      /\ \A q \in Proc \ {p, s} : pc'[q] = pc[q] /\ slot'[q] = slot[q]
  BY <1>0, <1>1, <1>t DEF ConcentrateTo, Control
<1>3. calls' = calls /\ SameCalls /\ \A q \in Proc : K(q)' = K(q)
  BY <1>0 DEF ConcentrateTo, K, SameCalls
<1>4. K(s) = K(p) /\ K(p) \in Nat
  BY <1>1, <1>2, <1>t DEF TreeInv, Ups, UpsFrom, Control
<1>5. Heard(s) = Below(s) /\ Heard(s)' = Below(s)
  <2>1. Below(s) = {q \in Proc : q = s \/ BelowSonFrom(s, 0, q)}
    BY BelowSons, BelowType
  <2>2. slot[s] + 1 = 0 /\ slot'[s] + 1 = 0
    BY <1>2
  <2> QED  BY <1>2, <2>1, <2>2 DEF Heard
<1>6. Heard(p)' = Heard(p) \cup Below(s) /\ Heard(p) \cap Below(s) = {}
  <2>1. slot'[p] + 1 = slot[p] /\ slot[p] \in Int
    BY <1>1, <1>2
  <2>2. /\ Heard(p)' = {q \in Proc : q = p \/ BelowSonFrom(p, slot[p], q)}
        /\ Heard(p) = {q \in Proc : q = p \/ BelowSonFrom(p, slot[p] + 1, q)}
    BY <1>2, <2>1 DEF Heard
  <2>3. \A q \in Proc : BelowSonFrom(p, slot[p], q) <=> (q \in Below(s) \/ BelowSonFrom(p, slot[p] + 1, q))
    BY <1>1, <1>2, <2>1, BelowSlot
  <2>4. \A q \in Below(s) : q # p /\ ~BelowSonFrom(p, slot[p] + 1, q)
    <3>1. ~(slot[p] + 1 <= SlotOf(s)) /\ slot[p] + 1 \in Int
      BY <1>1, <1>2
    <3> QED  BY <1>1, <3>1, BelowSlot
  <2> QED  BY <2>2, <2>3, <2>4, BelowType
<1>7. /\ WaveAt(p) /\ WaveAt(s) /\ K(p) >= 1
      /\ GreatestException(p) /\ GreatestException(s) /\ FromOthers(p) /\ FromOthers(s)
  BY <1>2 DEF DataInv, WaveAt
<1>8. exception[p] \in Nat /\ exception[s] \in Nat
  <2>1. \A q \in {p, s} : \A f \in Heard(q) : ExcOf(f, K(q)) \in Nat
    <3> SUFFICES ASSUME NEW q \in {p, s}, NEW f \in Heard(q) PROVE ExcOf(f, K(q)) \in Nat
      OBVIOUS
    <3>1. f \in Proc /\ K(q) \in 1 .. K(f)
      BY <1>2, <1>4, <1>7, HeardCalled
    <3> QED  BY <3>1, ArgsType
  <2> QED  BY <1>7, <2>1 DEF GreatestException
<1>9. UnknownInfos(s) \subseteq infos[s] /\ infos[s] \subseteq Infos /\ infos[p] \subseteq Infos
  BY <1>t DEF UnknownInfos
<1>10. ~Overflow(p, UnknownInfos(s))
  <2>1. infos[p] \cap UnknownInfos(s) = {}
    BY <1>5, <1>6, <1>7, <1>9 DEF FromOthers
  <2>2. \A i \in infos[p] \cup UnknownInfos(s) : i.from # i.to
    BY <1>7, <1>9 DEF FromOthers
  <2>3. ~(Cardinality(infos[p]) + Cardinality(UnknownInfos(s)) >= MAX_INFOS)
    BY <1>9, <2>1, <2>2, RoomForInfos
  <2> QED  BY <2>3 DEF Overflow
<1>11. /\ exception'[p] = Greater(exception[s], exception[p])
       /\ \A q \in Proc \ {p} : exception'[q] = exception[q]
  BY <1>0, <1>1, <1>8, <1>10, <1>t DEF ConcentrateTo, Greater
<1>12. /\ exception[s] # 0 => infos' = infos /\ routing' = routing
       /\ exception[s] = 0 =>
            /\ infos'[s] = infos[s] \ UnknownInfos(s)
            /\ infos'[p] = infos[p] \cup UnknownInfos(s)
            /\ routing'[p] = RoutedTo(p, s)
       /\ \A q \in Proc \ {p, s} : infos'[q] = infos[q]
       /\ \A q \in Proc \ {p} : routing'[q] = routing[q]
  BY <1>0, <1>1, <1>10, <1>t DEF ConcentrateTo
<1>13. /\ \A f, k : ExcOf(f, k)' = ExcOf(f, k) /\ Targets(f, k)' = Targets(f, k)
       /\ K(p)' = K(p) /\ K(s)' = K(p)
  BY <1>3, <1>4 DEF ExcOf, Targets
<1>14. GreatestException(p)' /\ GreatestException(s)'
  <2>1. /\ \E f \in Below(s) : exception[s] = ExcOf(f, K(p))
        /\ \A f \in Below(s) : ExcOf(f, K(p)) <= exception[s]
    BY <1>4, <1>5, <1>7 DEF GreatestException
  <2>2. /\ \E f \in Heard(p) : exception[p] = ExcOf(f, K(p))
        /\ \A f \in Heard(p) : ExcOf(f, K(p)) <= exception[p]
    BY <1>7 DEF GreatestException
  <2>3. GreatestException(s)'
    BY <1>1, <1>5, <1>11, <1>13, <2>1 DEF GreatestException
  <2>4. \A f \in Heard(p) \cup Below(s) : ExcOf(f, K(p)) \in Int
    <3> SUFFICES ASSUME NEW f \in Heard(p) \cup Heard(s) PROVE ExcOf(f, K(p)) \in Nat
      BY <1>5
    <3>1. f \in Proc /\ K(p) \in 1 .. K(f)
      BY <1>2, <1>4, <1>7, HeardCalled
    <3> QED  BY <3>1, ArgsType
  <2>5. /\ \E f \in Heard(p) \cup Below(s) : exception'[p] = ExcOf(f, K(p))
        /\ \A f \in Heard(p) \cup Below(s) : ExcOf(f, K(p)) <= exception'[p]
    BY <1>8, <1>11, <2>1, <2>2, <2>4 DEF Greater
  <2> QED  BY <1>6, <1>13, <2>3, <2>5 DEF GreatestException
<1>15. FromOthers(p)'
  <2>1. infos'[p] \subseteq infos[p] \cup infos[s]
    BY <1>9, <1>12
  <2> QED  BY <1>5, <1>6, <1>7, <2>1 DEF FromOthers
<1>16. ASSUME exception[s] = 0 PROVE ExactInfos(s)' /\ RightWay(s)'
  <2>1. ExactInfos(s) /\ RightWay(s)
    BY <1>2, <1>7, <1>16 DEF WaveAt
  <2>2. Here(s)' = Below(s) /\ Here(s) = Proc \cup {Dummy}
    BY <1>2 DEF Here
  <2>3. ASSUME NEW i \in Infos PROVE i \in infos'[s] <=> Held(s, i)'
    <3>1. i \in UnknownInfos(s) <=>
            i.from \in Below(s) /\ i.to \in Targets(i.from, K(s)) /\ i.to \notin Below(s)
      BY <1>2, <1>5, <2>1, UnknownAbove
    <3>2. i \in infos[s] <=> Held(s, i)
      BY <2>1 DEF ExactInfos
    <3>3. Held(s, i)' <=> i.from \in Below(s) /\ i.to \in Targets(i.from, K(s)) \cap Below(s) /\ ~SameSon(s, i.from, i.to)
      BY <1>4, <1>5, <1>13, <2>2 DEF Held
    <3>4. Held(s, i) <=> i.from \in Below(s) /\ i.to \in Targets(i.from, K(s)) \cap (Proc \cup {Dummy})
                         /\ ~SameSon(s, i.from, i.to)
      BY <1>5, <2>2 DEF Held
    <3>5. Below(s) \subseteq Proc
      BY BelowType
    <3> QED  BY <1>12, <1>16, <3>1, <3>2, <3>3, <3>4, <3>5
  <2>4. RightWay(s)'
    BY <1>1, <1>5, <1>12, <2>1 DEF RightWay
  <2> QED  BY <2>3, <2>4 DEF ExactInfos
<1>17. ASSUME exception'[p] = 0 PROVE ExactInfos(p)' /\ RightWay(p)'
  <2>1. exception[s] = 0 /\ exception[p] = 0
    BY <1>8, <1>11, <1>17 DEF Greater
  <2>2. ExactInfos(p) /\ RightWay(p) /\ ExactInfos(s)
    BY <1>2, <1>7, <2>1 DEF WaveAt
  <2>3. Here(p)' = Proc \cup {Dummy} /\ Here(p) = Proc \cup {Dummy}
    BY <1>2 DEF Here
  <2>4. ASSUME NEW i \in Infos PROVE i \in infos'[p] <=> Held(p, i)'
    <3>1. i \in UnknownInfos(s) <=>
            i.from \in Below(s) /\ i.to \in Targets(i.from, K(p)) /\ i.to \notin Below(s)
      BY <1>2, <1>4, <1>5, <2>2, UnknownAbove
    <3>2. i \in infos[p] <=> Held(p, i)
      BY <2>2 DEF ExactInfos
    <3>3. Held(p, i)' <=> /\ i.from \in Heard(p) \cup Below(s)
                          /\ i.to \in Targets(i.from, K(p)) \cap (Proc \cup {Dummy})
                          /\ ~SameSon(p, i.from, i.to)
      BY <1>6, <1>13, <2>3 DEF Held
    <3>4. Held(p, i) <=> /\ i.from \in Heard(p)
                         /\ i.to \in Targets(i.from, K(p)) \cap (Proc \cup {Dummy})
                         /\ ~SameSon(p, i.from, i.to)
      BY <2>3 DEF Held
    <3>5. i.from \in Below(s) => (SameSon(p, i.from, i.to) <=> i.to \in Below(s))
      BY <1>1, SameSonBelow
    <3>6. i.to \in Proc \cup {Dummy}
      BY DEF Infos
    <3> QED  BY <1>12, <2>1, <3>1, <3>2, <3>3, <3>4, <3>5, <3>6
  <2>5. \A q \in Proc : (\E i \in UnknownInfos(s) : i.from = q) <=> q \in Below(s)
    <3> SUFFICES ASSUME NEW q \in Proc
                 PROVE  (\E i \in UnknownInfos(s) : i.from = q) <=> q \in Below(s)
      OBVIOUS
    <3>1. ASSUME NEW i \in UnknownInfos(s), i.from = q PROVE q \in Below(s)
      BY <1>5, <1>7, <1>9, <3>1 DEF FromOthers
    <3>2. ASSUME q \in Below(s) PROVE Info(q, Dummy) \in UnknownInfos(s) /\ Info(q, Dummy).from = q
      <4>1. Info(q, Dummy) \in Infos /\ Info(q, Dummy).from = q /\ Info(q, Dummy).to = Dummy
        BY DEF Info, Infos
      <4>2. Dummy \in Targets(q, K(s)) /\ Dummy \notin Below(s)
        BY DummyIsNobody, BelowType DEF Targets
      <4> HIDE DEF Info
      <4> QED  BY <1>2, <1>5, <2>2, <3>2, <4>1, <4>2, UnknownAbove
    <3> QED  BY <3>1, <3>2
  <2>6. \A q \in Proc : routing'[p][q] = IF q \in Below(s) THEN SlotOf(s) ELSE routing[p][q]
    BY <1>12, <2>1, <2>5 DEF RoutedTo
  <2>7. RightWay(p)'
    <3>1. p \notin Below(s)
      BY <1>1, BelowSlot
    <3>2. ASSUME NEW t \in SonsOf(p), NEW f \in Below(t) \cap Heard(p)' PROVE routing'[p][f] = SlotOf(t)
      <4>1. f \in Proc /\ (f \in Heard(p) \/ f \in Below(s))
        BY <1>6, <3>2, SonType, BelowType
      <4>2. f \in Below(s) => t = s
        BY <1>1, <3>2, SonsApart
      <4>3. f \notin Below(s) => routing[p][f] = SlotOf(t)
        BY <2>2, <3>2, <4>1 DEF RightWay
      <4> QED  BY <2>6, <4>1, <4>2, <4>3
    <3> QED  BY <2>2, <2>6, <3>1, <3>2 DEF RightWay
  <2> QED  BY <2>4, <2>7 DEF ExactInfos
<1>18. WaveAt(p)' /\ WaveAt(s)'
  BY <1>1, <1>2, <1>4, <1>7, <1>11, <1>13, <1>14, <1>15, <1>16, <1>17 DEF WaveAt
<1>19. ASSUME NEW q \in Proc, q # p, q # s PROVE WaveAt(q)'
  <2>1. /\ pc'[q] = pc[q] /\ slot'[q] = slot[q] /\ infos'[q] = infos[q]
        /\ exception'[q] = exception[q] /\ routing'[q] = routing[q] /\ K(q)' = K(q)
    BY <1>2, <1>3, <1>11, <1>12, <1>19
  <2>2. WaveAt(q)
    BY DEF DataInv
  <2> QED  BY <1>3, <2>1, <2>2, WaveElsewhere
<1>20. NotToOneself'
  BY <1>3 DEF DataInv, NotToOneself
<1> QED  BY <1>18, <1>19, <1>20 DEF DataInv

LEMMA TurnData ==
  ASSUME TypeOK, TreeInv, DataInv, Turn
  PROVE  DataInv'
<1>1. /\ Control /\ infos \in [Proc -> SUBSET Infos] /\ 0 \in Proc
  BY ControlType, Members DEF TypeOK
<1>2. /\ pc[0] = "up" /\ slot[0] = -1 /\ pc'[0] = "spread" /\ slot'[0] = 0
      /\ \A q \in Proc \ {0} : pc'[q] = pc[q] /\ slot'[q] = slot[q]
      /\ infos' = [infos EXCEPT ![0] = IF exception[0] # 0 THEN @ ELSE @ \ UnknownInfos(0)]
      /\ UNCHANGED <<calls, routing, exception, result>>
  BY <1>1 DEF Turn, ReadyToGoUp, Control
<1>3. SameCalls /\ \A q \in Proc : K(q)' = K(q)
  BY <1>2 DEF SameCalls, K
<1>4. /\ \A f, k : ExcOf(f, k)' = ExcOf(f, k) /\ Targets(f, k)' = Targets(f, k)
  BY <1>2 DEF ExcOf, Targets
<1>5. {q \in Proc : q = 0 \/ BelowSonFrom(0, 0, q)} = Proc
  BY <1>1, BelowRoot, BelowSons
<1>6. Heard(0) = Proc /\ Heard(0)' = Proc /\ Here(0)' = Proc /\ Here(0) = Proc \cup {Dummy}
  <2>1. slot[0] + 1 = 0
    BY <1>2
  <2> QED  BY <1>2, <1>5, <2>1 DEF Heard, Here
<1>7. WaveAt(0) /\ K(0) >= 1 /\ GreatestException(0)
  BY <1>1, <1>2 DEF DataInv, WaveAt
<1>8. GreatestException(0)'
  BY <1>1, <1>2, <1>3, <1>4, <1>6, <1>7 DEF GreatestException
<1>9. ASSUME exception[0] = 0 PROVE ExactInfos(0)' /\ RightWay(0)'
  <2>1. ExactInfos(0) /\ RightWay(0)
    BY <1>2, <1>7, <1>9 DEF WaveAt
  <2>2. ASSUME NEW i \in Infos PROVE i \in infos'[0] <=> Held(0, i)'
    <3>1. i \in UnknownInfos(0) <=>
            i.from \in Proc /\ i.to \in Targets(i.from, K(0)) /\ i.to \notin Proc
      BY <1>1, <1>2, <1>6, <2>1, UnknownAbove, BelowRoot
    <3>2. i \in infos[0] <=> Held(0, i)
      BY <2>1 DEF ExactInfos
    <3>3. infos'[0] = infos[0] \ UnknownInfos(0)
      BY <1>1, <1>2, <1>9
    <3>4. Held(0, i)' <=> /\ i.from \in Proc /\ i.to \in Targets(i.from, K(0)) \cap Proc
                          /\ ~SameSon(0, i.from, i.to)
      BY <1>1, <1>3, <1>4, <1>6 DEF Held
    <3>5. Held(0, i) <=> /\ i.from \in Proc /\ i.to \in Targets(i.from, K(0)) \cap (Proc \cup {Dummy})
                         /\ ~SameSon(0, i.from, i.to)
      BY <1>6 DEF Held
    <3> QED  BY <3>1, <3>2, <3>3, <3>4, <3>5, DummyIsNobody
  <2>3. RightWay(0)'
    BY <1>2, <1>6, <2>1 DEF RightWay
  <2> QED  BY <2>2, <2>3 DEF ExactInfos
<1>10. WaveAt(0)'
  BY <1>1, <1>2, <1>3, <1>7, <1>8, <1>9 DEF WaveAt
<1>11. ASSUME NEW q \in Proc, q # 0 PROVE WaveAt(q)'
  <2>1. /\ pc'[q] = pc[q] /\ slot'[q] = slot[q] /\ infos'[q] = infos[q]
        /\ exception'[q] = exception[q] /\ routing'[q] = routing[q] /\ K(q)' = K(q)
    BY <1>1, <1>2, <1>3, <1>11
  <2>2. WaveAt(q)
    BY DEF DataInv
  <2> QED  BY <1>3, <2>1, <2>2, WaveElsewhere
<1>12. NotToOneself'
  BY <1>2, <1>3 DEF DataInv, NotToOneself
<1> QED  BY <1>10, <1>11, <1>12 DEF DataInv

LEMMA SpreadData ==
  ASSUME TypeOK, TreeInv, DataInv, NEW p \in Proc, Spread(p)
  PROVE  DataInv'
<1>0. PICK s \in Sons : SpreadTo(p, s)
  BY SpreadEffect
<1>1. /\ s \in Proc /\ s \in SonsOf(p) /\ s # p /\ SlotOf(s) \in {0, 1} /\ Uptree(s) = p
  BY <1>0, Edge DEF SpreadTo, SonsOf
<1>t. /\ Control /\ exception \in [Proc -> Codes] /\ infos \in [Proc -> SUBSET Infos]
      /\ routing \in [Proc -> [Proc -> -1 .. 1]]
  BY ControlType DEF TypeOK
<1>2. /\ pc[s] = "down" /\ pc'[s] = "spread" /\ slot'[s] = 0
      /\ pc[p] = "spread" /\ slot[p] = SlotOf(s) /\ pc'[p] = "spread" /\ slot'[p] = slot[p] + 1
      /\ \A q \in Proc \ {p, s} : pc'[q] = pc[q] /\ slot'[q] = slot[q]
  BY <1>0, <1>1, <1>t DEF SpreadTo, Control
<1>3. calls' = calls /\ routing' = routing /\ SameCalls /\ \A q \in Proc : K(q)' = K(q)
  BY <1>0 DEF SpreadTo, K, SameCalls
<1>4. K(s) = K(p) /\ K(p) \in Nat
  BY <1>1, <1>2, <1>t DEF TreeInv, Downs, DownsTo, Control
<1>5. /\ WaveAt(p) /\ WaveAt(s) /\ K(p) >= 1 /\ GreatestException(p) /\ GreatestException(s)
      /\ slot[s] = -1
  BY <1>1, <1>2 DEF DataInv, WaveAt
<1>6. Heard(p) = Proc /\ Heard(p)' = Proc /\ Heard(s)' = Proc /\ Heard(s) = Below(s)
  <2>1. Below(s) = {q \in Proc : q = s \/ BelowSonFrom(s, 0, q)}
    BY <1>1, BelowSons, BelowType
  <2>2. slot[s] + 1 = 0
    BY <1>5
  <2> QED  BY <1>2, <2>1, <2>2 DEF Heard
<1>7. Here(s) = Below(s) /\ Here(s)' = Below(s)
  <2>1. Below(s) = {q \in Proc : q = s \/ BelowSonFrom(s, 0, q)}
    BY <1>1, BelowSons, BelowType
  <2> QED  BY <1>2, <2>1 DEF Here
<1>8. /\ Here(p) = {q \in Proc : q = p \/ BelowSonFrom(p, slot[p], q)}
      /\ Here(p)' = Here(p) \ Below(s) /\ Below(s) \subseteq Here(p)
  <2>1. slot'[p] = slot[p] + 1 /\ slot[p] \in Int
    BY <1>1, <1>2
  <2>2. /\ Here(p) = {q \in Proc : q = p \/ BelowSonFrom(p, slot[p], q)}
        /\ Here(p)' = {q \in Proc : q = p \/ BelowSonFrom(p, slot[p] + 1, q)}
    BY <1>2, <2>1 DEF Here
  <2>3. \A q \in Proc : BelowSonFrom(p, slot[p], q) <=> (q \in Below(s) \/ BelowSonFrom(p, slot[p] + 1, q))
    BY <1>1, <1>2, <2>1, BelowSlot
  <2>4. \A q \in Below(s) : q # p /\ ~BelowSonFrom(p, slot[p] + 1, q)
    <3>1. ~(slot[p] + 1 <= SlotOf(s)) /\ slot[p] + 1 \in Int
      BY <1>1, <1>2
    <3> QED  BY <1>1, <3>1, BelowSlot
  <2>5. Below(s) \subseteq Proc
    BY <1>1, BelowType
  <2> QED  BY <2>2, <2>3, <2>4, <2>5
<1>9. \A f \in Proc : ExcOf(f, K(p)) \in Nat
  <2> SUFFICES ASSUME NEW f \in Proc PROVE ExcOf(f, K(p)) \in Nat
    OBVIOUS
  <2>1. K(p) \in 1 .. K(f)
    BY <1>2, <1>4, <1>5, <1>6, HeardCalled
  <2> QED  BY <2>1, ArgsType
<1>10. /\ \E f \in Proc : exception[p] = ExcOf(f, K(p))
       /\ \A f \in Proc : ExcOf(f, K(p)) <= exception[p]
       /\ exception[p] \in Nat
  BY <1>5, <1>6, <1>9 DEF GreatestException
<1>11. exception[s] \in Nat /\ exception[s] <= exception[p]
  <2>1. \E f \in Below(s) : exception[s] = ExcOf(f, K(p))
    BY <1>4, <1>5, <1>6 DEF GreatestException
  <2>2. Below(s) \subseteq Proc
    BY <1>1, BelowType
  <2> QED  BY <1>9, <1>10, <2>1, <2>2
<1>12. exception'[s] = exception[p] /\ \A q \in Proc \ {s} : exception'[q] = exception[q]
  <2>1. exception' = [exception EXCEPT ![s] = IF exception[p] # 0 THEN Greater(exception[p], @) ELSE @]
    BY <1>0 DEF SpreadTo
  <2>2. Greater(exception[p], exception[s]) = exception[p]
    BY <1>10, <1>11 DEF Greater
  <2>3. exception[p] = 0 => exception[s] = exception[p]
    BY <1>10, <1>11
  <2>4. exception'[s] = exception[p]
    BY <1>1, <1>t, <2>1, <2>2, <2>3
  <2> QED  BY <1>t, <2>1, <2>4
<1>13. /\ \A f, k : ExcOf(f, k)' = ExcOf(f, k) /\ Targets(f, k)' = Targets(f, k)
       /\ K(p)' = K(p) /\ K(s)' = K(p)
  BY <1>1, <1>3, <1>4 DEF ExcOf, Targets
<1>14. GreatestException(p)' /\ GreatestException(s)'
  BY <1>1, <1>6, <1>10, <1>12, <1>13 DEF GreatestException
<1>15. /\ exception[p] # 0 => infos' = infos
       /\ exception[p] = 0 => /\ infos'[p] = infos[p] \ SentDown(p)
                              /\ infos'[s] = infos[s] \cup SentDown(p)
       /\ \A q \in Proc \ {p, s} : infos'[q] = infos[q]
  BY <1>0, <1>1, <1>t DEF SpreadTo
<1>16. ASSUME exception[p] = 0 PROVE ExactInfos(p)' /\ RightWay(p)' /\ ExactInfos(s)' /\ RightWay(s)'
  <2>1. exception[s] = 0
    BY <1>10, <1>11, <1>16
  <2>2. ExactInfos(p) /\ RightWay(p) /\ ExactInfos(s) /\ RightWay(s)
    BY <1>2, <1>5, <1>16, <2>1 DEF WaveAt
  <2>3. ASSUME NEW i \in Infos
        PROVE  i \in SentDown(p) <=> Held(p, i) /\ i.to \in Below(s)
    <3>1. i \in infos[p] <=> Held(p, i)
      BY <2>2 DEF ExactInfos
    <3>2. ASSUME NEW t \in SonsOf(p), i.to \in Below(t) PROVE routing[p][i.to] = SlotOf(t)
      <4>1. i.to \in Below(t) \cap Heard(p)
        BY <1>6, <3>2, SonType, BelowType
      <4> QED  BY <2>2, <4>1 DEF RightWay
    <3>3. Held(p, i) => i.to \in Proc /\ (i.to = p \/ BelowSonFrom(p, slot[p], i.to))
      BY <1>8 DEF Held
    <3>4. ASSUME Held(p, i), i.to \notin Below(s) PROVE routing[p][i.to] # slot[p]
      <4>1. CASE i.to = p
        BY <1>1, <1>2, <2>2, <4>1 DEF RightWay
      <4>2. CASE i.to # p
        <5>1. PICK t \in SonsOf(p) : i.to \in Below(t)
          BY <3>3, <3>4, <4>2 DEF BelowSonFrom
        <5>2. t # s
          BY <3>4, <5>1
        <5>3. SlotOf(t) # SlotOf(s)
          <6>1. Son(p, SlotOf(t)) = t /\ Son(p, SlotOf(s)) = s
            BY <1>1, SonType, Father
          <6> QED  BY <5>2, <6>1
        <5> QED  BY <1>2, <3>2, <5>1, <5>3
      <4> QED  BY <4>1, <4>2
    <3>5. i \in SentDown(p) <=> i \in infos[p] /\ i.to \in Proc /\ routing[p][i.to] = slot[p]
      BY DEF SentDown
    <3> QED  BY <1>1, <1>2, <3>1, <3>2, <3>3, <3>4, <3>5
  <2>4. ASSUME NEW i \in Infos PROVE i \in infos'[p] <=> Held(p, i)'
    <3>1. i \in infos[p] <=> Held(p, i)
      BY <2>2 DEF ExactInfos
    <3>2. Held(p, i)' <=> /\ i.from \in Proc /\ i.to \in Targets(i.from, K(p)) \cap (Here(p) \ Below(s))
                          /\ ~SameSon(p, i.from, i.to)
      BY <1>6, <1>8, <1>13 DEF Held
    <3>3. Held(p, i) <=> /\ i.from \in Proc /\ i.to \in Targets(i.from, K(p)) \cap Here(p)
                         /\ ~SameSon(p, i.from, i.to)
      BY <1>6 DEF Held
    <3> QED  BY <1>15, <1>16, <2>3, <3>1, <3>2, <3>3
  <2>5. ASSUME NEW i \in Infos PROVE i \in infos'[s] <=> Held(s, i)'
    <3>1. i \in infos[s] <=> Held(s, i)
      BY <2>2 DEF ExactInfos
    <3>2. Held(s, i)' <=> /\ i.from \in Proc /\ i.to \in Targets(i.from, K(p)) \cap Below(s)
                          /\ ~SameSon(s, i.from, i.to)
      BY <1>6, <1>7, <1>13 DEF Held
    <3>3. Held(s, i) <=> /\ i.from \in Below(s) /\ i.to \in Targets(i.from, K(p)) \cap Below(s)
                         /\ ~SameSon(s, i.from, i.to)
      BY <1>4, <1>6, <1>7 DEF Held
    <3>4. Held(p, i) <=> /\ i.from \in Proc /\ i.to \in Targets(i.from, K(p)) \cap Here(p)
                         /\ ~SameSon(p, i.from, i.to)
      BY <1>6 DEF Held
    <3>5. /\ i.to \in Below(s) => (SameSon(p, i.from, i.to) <=> i.from \in Below(s))
          /\ SameSon(s, i.from, i.to) => i.from \in Below(s)
      BY <1>1, SameSonBelow
    <3>6. Below(s) \subseteq Proc /\ i.from \in Proc
      BY <1>1, BelowType DEF Infos
    <3> QED  BY <1>8, <1>15, <1>16, <2>3, <3>1, <3>2, <3>3, <3>4, <3>5, <3>6
  <2>6. RightWay(p)'
    BY <1>3, <1>6, <2>2 DEF RightWay
  <2>7. RightWay(s)'
    <3>1. \A t \in SonsOf(s) : Below(t) \subseteq Below(s)
      BY <1>1, SameSonBelow, SonType, BelowType DEF SameSon
    <3> QED  BY <1>3, <1>6, <2>2, <3>1 DEF RightWay
  <2> QED  BY <2>4, <2>5, <2>6, <2>7 DEF ExactInfos
<1>17. WaveAt(p)' /\ WaveAt(s)'
  BY <1>1, <1>2, <1>5, <1>12, <1>13, <1>14, <1>16 DEF WaveAt
<1>18. ASSUME NEW q \in Proc, q # p, q # s PROVE WaveAt(q)'
  <2>1. /\ pc'[q] = pc[q] /\ slot'[q] = slot[q] /\ infos'[q] = infos[q]
        /\ exception'[q] = exception[q] /\ routing'[q] = routing[q] /\ K(q)' = K(q)
    BY <1>2, <1>3, <1>12, <1>15, <1>18
  <2>2. WaveAt(q)
    BY DEF DataInv
  <2> QED  BY <1>3, <2>1, <2>2, WaveElsewhere
<1>19. NotToOneself'
  BY <1>3 DEF DataInv, NotToOneself
<1> QED  BY <1>17, <1>18, <1>19 DEF DataInv

LEMMA ReturnData ==
  ASSUME TypeOK, TreeInv, DataInv, NEW p \in Proc, NotifyReturn(p)
  PROVE  DataInv'
<1>1. SameCalls /\ \A q \in Proc : K(q)' = K(q)
  BY DEF NotifyReturn, SameCalls, K
<1>2. WaveAt(p)'
  BY DEF TypeOK, NotifyReturn, WaveAt
<1>3. ASSUME NEW q \in Proc, q # p PROVE WaveAt(q)'
  <2>1. /\ pc'[q] = pc[q] /\ slot'[q] = slot[q] /\ infos'[q] = infos[q]
        /\ exception'[q] = exception[q] /\ routing'[q] = routing[q]
    BY <1>3 DEF TypeOK, NotifyReturn
  <2>2. WaveAt(q)
    BY DEF DataInv
  <2> QED  BY <1>1, <2>1, <2>2, WaveElsewhere
<1>4. NotToOneself'
  BY <1>1 DEF DataInv, NotToOneself, NotifyReturn
<1> QED  BY <1>2, <1>3, <1>4 DEF DataInv

LEMMA RefusedData ==
  ASSUME TypeOK, TreeInv, DataInv, NEW p \in Proc, NotifyRefused(p)
  PROVE  DataInv'
<1>1. SameCalls /\ \A q \in Proc : K(q)' = K(q)
  BY DEF NotifyRefused, SameCalls, K
<1>2. WaveAt(p)'
  BY DEF NotifyRefused, DataInv, WaveAt
<1>3. ASSUME NEW q \in Proc, q # p PROVE WaveAt(q)'
  <2>1. /\ pc'[q] = pc[q] /\ slot'[q] = slot[q] /\ infos'[q] = infos[q]
        /\ exception'[q] = exception[q] /\ routing'[q] = routing[q]
    BY <1>3 DEF TypeOK, NotifyRefused
  <2>2. WaveAt(q)
    BY DEF DataInv
  <2> QED  BY <1>1, <2>1, <2>2, WaveElsewhere
<1>4. NotToOneself'
  BY <1>1 DEF DataInv, NotToOneself, NotifyRefused
<1> QED  BY <1>2, <1>3, <1>4 DEF DataInv

LEMMA NextData == TypeOK /\ TreeInv /\ DataInv /\ [Next]_vars => DataInv'
<1> SUFFICES ASSUME TypeOK, TreeInv, DataInv, [Next]_vars PROVE DataInv'
  OBVIOUS
<1>1. ASSUME NEW p \in Proc, AnyCall(p) PROVE DataInv'
  <2>1. \A dests \in SUBSET (Proc \ {p}) : LET c == [dests |-> dests, exc |-> 0] IN c \in CallArgs /\ p \notin c.dests
    BY DEF CallArgs
  <2>2. \A e \in Exceptions : LET c == [dests |-> {}, exc |-> e] IN c \in CallArgs /\ p \notin c.dests
    BY DEF CallArgs
  <2> QED  BY <1>1, <2>1, <2>2, CallData DEF AnyCall
<1>2. CASE UNCHANGED vars
  <2>1. SameCalls /\ \A q \in Proc : K(q)' = K(q)
    BY <1>2 DEF vars, SameCalls, K
  <2>2. \A q \in Proc : WaveAt(q)'
    BY <1>2, <2>1, WaveElsewhere DEF vars, DataInv
  <2> QED  BY <1>2, <2>1, <2>2 DEF vars, DataInv, NotToOneself
<1> QED
  BY <1>1, <1>2, ConcentrateData, TurnData, SpreadData, ReturnData, RefusedData DEF Next, Wave

(* The invariant of the wave, as the following theorems use it. *)
NotifyInv == TypeOK /\ TreeInv /\ DataInv

LEMMA InitInv == Init => NotifyInv
  BY InitType, InitTree, InitData DEF NotifyInv

LEMMA NextInv == NotifyInv /\ [Next]_vars => NotifyInv'
  BY NextType, NextTree, NextData DEF NotifyInv

------------------------------------------------------------------------------
(* What a processor knows of exceptions is an exception, and the wave down   *)
(* brings the greatest one.                                                  *)
LEMMA ExceptionKnown ==
  ASSUME NotifyInv, NEW p \in Proc
  PROVE  /\ exception[p] \in Nat
         /\ pc[p] = "spread" => /\ \A f \in Proc : K(p) \in 1 .. K(f) /\ ExcOf(f, K(p)) \in Nat
                                /\ \E f \in Proc : exception[p] = ExcOf(f, K(p))
                                /\ \A f \in Proc : ExcOf(f, K(p)) <= exception[p]
<1>1. TypeOK /\ TreeInv /\ WaveAt(p)
  BY DEF NotifyInv, DataInv
<1>2. CASE pc[p] = "user"
  BY <1>1, <1>2 DEF WaveAt
<1>3. CASE pc[p] # "user"
  <2>1. K(p) >= 1 /\ GreatestException(p)
    BY <1>1, <1>3 DEF WaveAt
  <2>2. \A f \in Heard(p) : K(p) \in 1 .. K(f) /\ ExcOf(f, K(p)) \in Nat
    <3> SUFFICES ASSUME NEW f \in Heard(p) PROVE K(p) \in 1 .. K(f) /\ ExcOf(f, K(p)) \in Nat
      OBVIOUS
    <3>1. f \in Proc /\ K(p) \in 1 .. K(f)
      BY <1>1, <1>3, <2>1, HeardCalled
    <3> QED  BY <1>1, <3>1, ArgsType
  <2>3. exception[p] \in Nat
    BY <2>1, <2>2 DEF GreatestException
  <2>4. pc[p] = "spread" => Heard(p) = Proc
    BY DEF Heard
  <2> QED  BY <2>1, <2>2, <2>3, <2>4 DEF GreatestException
<1> QED  BY <1>2, <1>3

LEMMA NotifyInvImpliesWaveInv == NotifyInv => WaveInv
<1> SUFFICES ASSUME NotifyInv PROVE WaveInv
  OBVIOUS
<1>1. TypeOK /\ Control /\ \A p \in Proc : WaveAt(p)
  BY ControlType DEF NotifyInv, DataInv
<1>2. NoOverflow
  BY ExceptionKnown DEF NoOverflow, EXCEPTION_NOTIFY
<1>3. SomethingGoesUp
  <2> SUFFICES ASSUME NEW p \in Proc, ReadyToGoUp(p), exception[p] = 0
               PROVE  UnknownInfos(p) # {}
    BY DEF SomethingGoesUp
  <2>1. pc[p] = "up" /\ slot[p] + 1 = 0 /\ ExactInfos(p)
    BY <1>1 DEF ReadyToGoUp, WaveAt
  <2>2. Heard(p) = Below(p)
    <3>1. Below(p) = {q \in Proc : q = p \/ BelowSonFrom(p, 0, q)}
      BY BelowSons, BelowType
    <3> QED  BY <2>1, <3>1 DEF Heard
  <2>3. Info(p, Dummy) \in Infos /\ Info(p, Dummy).from = p /\ Info(p, Dummy).to = Dummy
    BY DEF Info, Infos
  <2>4. p \in Below(p) /\ Dummy \notin Below(p) /\ Dummy \in Targets(p, K(p))
    BY BelowType, DummyIsNobody DEF Targets
  <2>5. Info(p, Dummy) \in UnknownInfos(p)
    <3> HIDE DEF Info
    <3> QED  BY <1>1, <2>1, <2>2, <2>3, <2>4, UnknownAbove
  <2> QED  BY <2>5
<1>4. Routed
  <2> SUFFICES ASSUME NEW p \in Proc, pc[p] = "spread", exception[p] = 0,
                      NEW i \in infos[p], i.to # p
               PROVE  routing[p][i.to] \in slot[p] .. Degree(p) - 1
    BY DEF Routed
  <2>1. ExactInfos(p) /\ RightWay(p) /\ i \in Infos /\ Heard(p) = Proc
    BY <1>1 DEF TypeOK, WaveAt, Heard
  <2>2. i.to \in Here(p)
    BY <2>1 DEF ExactInfos, Held
  <2>3. BelowSonFrom(p, slot[p], i.to) /\ i.to \in Proc
    BY <2>2 DEF Here
  <2>4. PICK s \in SonsOf(p) : SlotOf(s) >= slot[p] /\ i.to \in Below(s)
    BY <2>3 DEF BelowSonFrom
  <2>5. routing[p][i.to] = SlotOf(s)
    BY <2>1, <2>3, <2>4 DEF RightWay
  <2>6. SlotOf(s) \in Int /\ SlotOf(s) < Degree(p) /\ Degree(p) \in Int /\ slot[p] \in Int
    BY <1>1, SonType, DegreeType DEF Control
  <2> QED  BY <2>4, <2>5, <2>6
<1> QED  BY <1>1, <1>2, <1>3, <1>4 DEF WaveInv

(* The wave never overflows its array of infos, never has nothing to send    *)
(* upwards, and never sends an info the wrong way down, for any number of    *)
(* processors and of messages between them.                                  *)
THEOREM WaveInvHolds == Spec => []WaveInv
  BY InitInv, NextInv, NotifyInvImpliesWaveInv, PTL DEF Spec

------------------------------------------------------------------------------
(* The steps of the wave implement the collective call. *)

LEMMA CallImplemented ==
  ASSUME TypeOK, NEW p \in Proc, NEW c, DDD_Notify(p, c)
  PROVE  Global!Call(p, c)
<1>1. pc \in [Proc -> Places]
  BY DEF TypeOK
<1>2. InCall' = [InCall EXCEPT ![p] = TRUE]
  BY <1>1 DEF DDD_Notify, InCall
<1> QED  BY <1>2 DEF DDD_Notify, InCall, Global!Call, Global!NoResult, NoResult

LEMMA GreatestOf ==
  ASSUME NEW R \in SUBSET Nat, NEW m \in R, \A e \in R : e <= m
  PROVE  Global!Max(R) = m /\ (m = 0 => R = {0})
<1>1. \A x \in R : (\A y \in R : x >= y) <=> x = m
  <2> SUFFICES ASSUME NEW x \in R PROVE (\A y \in R : x >= y) <=> x = m
    OBVIOUS
  <2>1. x \in Nat /\ m \in Nat /\ x <= m
    OBVIOUS
  <2>2. (\A y \in R : x >= y) => x >= m
    OBVIOUS
  <2>3. x >= m => x = m
    BY <2>1
  <2>4. \A y \in R : m >= y
    <3> SUFFICES ASSUME NEW y \in R PROVE m >= y
      OBVIOUS
    <3>1. y \in Nat /\ y <= m
      OBVIOUS
    <3> QED  BY <2>1, <3>1
  <2> QED  BY <2>2, <2>3, <2>4
<1>2. Global!Max(R) = m
  BY <1>1 DEF Global!Max
<1>3. ASSUME m = 0, NEW e \in R PROVE e = 0
  <2>1. e \in Nat /\ e <= 0
    BY <1>3
  <2> QED  BY <2>1
<1> QED  BY <1>2, <1>3

LEMMA ReturnImplemented ==
  ASSUME NotifyInv, NEW p \in Proc, NotifyReturn(p)
  PROVE  Global!Return(p)
<1>1. /\ pc \in [Proc -> Places] /\ infos[p] \subseteq Infos /\ pc[p] = "spread" /\ slot[p] = Degree(p)
      /\ WaveAt(p)
  BY DEF NotifyInv, DataInv, TypeOK, NotifyReturn
<1>2. InCall[p] /\ InCall' = [InCall EXCEPT ![p] = FALSE] /\ UNCHANGED calls
  BY <1>1 DEF NotifyReturn, InCall
<1>3. /\ exception[p] \in Nat
      /\ \A f \in Proc : K(p) \in 1 .. K(f) /\ ExcOf(f, K(p)) \in Nat
      /\ \E f \in Proc : exception[p] = ExcOf(f, K(p))
      /\ \A f \in Proc : ExcOf(f, K(p)) <= exception[p]
  BY <1>1, ExceptionKnown
<1>4. Global!EverybodyCalled(Len(calls[p]))
  <2> SUFFICES ASSUME NEW q \in Proc PROVE Len(calls[q]) >= Len(calls[p])
    BY DEF Global!EverybodyCalled
  <2>1. K(p) \in 1 .. K(q)
    BY <1>3
  <2>2. K(p) <= K(q)
    BY <2>1
  <2> QED  BY <2>2 DEF K
<1> DEFINE R == Global!Raised(Len(calls[p]))
<1>5. R = {ExcOf(f, K(p)) : f \in Proc}
  BY DEF Global!Raised, ExcOf, K
<1>6. exception[p] \in R /\ R \subseteq Nat /\ \A e \in R : e <= exception[p]
  BY <1>3, <1>5
<1> HIDE DEF R
<1>7. CASE exception[p] = 0
  <2>1. R = {0}
    BY <1>6, <1>7, GreatestOf
  <2>2. ExactInfos(p) /\ Heard(p) = Proc /\ p \in Here(p)
    BY <1>1, <1>7 DEF WaveAt, Heard, Here
  <2>3. {i.from : i \in {j \in infos[p] : j.to = p}} = {q \in Proc : p \in calls[q][Len(calls[p])].dests}
    <3>1. ASSUME NEW i \in infos[p], i.to = p
          PROVE  i.from \in Proc /\ p \in calls[i.from][Len(calls[p])].dests
      <4>1. Held(p, i) /\ i.from \in Proc
        BY <1>1, <2>2 DEF ExactInfos, Infos
      <4> QED  BY <3>1, <4>1, DummyIsNobody DEF Held, Targets, K
    <3>2. ASSUME NEW q \in Proc, p \in calls[q][Len(calls[p])].dests
          PROVE  Info(q, p) \in infos[p] /\ Info(q, p).to = p /\ Info(q, p).from = q
      <4>1. Info(q, p) \in Infos /\ Info(q, p).to = p /\ Info(q, p).from = q
        BY DEF Info, Infos
      <4>2. ~SameSon(p, q, p)
        BY BelowSlot DEF SameSon
      <4>3. Held(p, Info(q, p))
        BY <2>2, <3>2, <4>1, <4>2 DEF Held, Targets, K
      <4> HIDE DEF Info
      <4> QED  BY <2>2, <4>1, <4>3 DEF ExactInfos
    <3> QED  BY <3>1, <3>2
  <2>4. Global!CommonResult(p, Len(calls[p])) =
          [senders |-> {q \in Proc : p \in calls[q][Len(calls[p])].dests}, exc |-> 0]
    BY <2>1 DEF Global!CommonResult, Global!Senders, R
  <2>5. result' = [result EXCEPT ![p] =
          [senders |-> {i.from : i \in {j \in infos[p] : j.to = p}}, exc |-> 0]]
    BY <1>7 DEF NotifyReturn
  <2> QED  BY <1>2, <1>4, <2>3, <2>4, <2>5 DEF Global!Return
<1>8. CASE exception[p] # 0
  <2>1. R # {0}
    BY <1>6, <1>8
  <2>2. Global!Max(R) = exception[p]
    BY <1>6, GreatestOf
  <2>3. Global!CommonResult(p, Len(calls[p])) = [senders |-> {}, exc |-> exception[p]]
    BY <2>1, <2>2 DEF Global!CommonResult, Global!GlobalError, R
  <2>4. result' = [result EXCEPT ![p] = [senders |-> {}, exc |-> exception[p]]]
    BY <1>8 DEF NotifyReturn
  <2> QED  BY <1>2, <1>4, <2>3, <2>4 DEF Global!Return
<1> QED  BY <1>7, <1>8

LEMMA RefusedImplemented ==
  ASSUME NEW p \in Proc, NotifyRefused(p)
  PROVE  Global!Refused(p)
  BY DEF NotifyRefused, Global!Refused, Global!GlobalError, ERROR, InCall

(* The steps between the call and its return are not seen by the caller. *)
LEMMA WaveStutters ==
  ASSUME TypeOK,
         \/ \E p \in Proc : Concentrate(p) \/ Spread(p)
         \/ Turn
  PROVE  UNCHANGED Global!abstractVars
<1>1. pc \in [Proc -> Places] /\ 0 \in Proc
  BY Members DEF TypeOK
<1>2. ASSUME NEW p \in Proc, Concentrate(p) PROVE UNCHANGED <<calls, InCall, result>>
  BY <1>1, <1>2 DEF Concentrate, ReadyToGoUp, InCall
<1>3. ASSUME NEW p \in Proc, Spread(p) PROVE UNCHANGED <<calls, InCall, result>>
  BY <1>1, <1>3 DEF Spread, InCall
<1>4. ASSUME Turn PROVE UNCHANGED <<calls, InCall, result>>
  BY <1>1, <1>4 DEF Turn, ReadyToGoUp, InCall
<1> QED  BY <1>2, <1>3, <1>4 DEF Global!abstractVars

LEMMA StepImplemented ==
  ASSUME NotifyInv, [Next]_vars
  PROVE  [Global!GlobalNext]_(Global!abstractVars)
<1>1. TypeOK
  BY DEF NotifyInv
<1>2. ASSUME NEW p \in Proc, AnyCall(p) PROVE Global!GlobalNext
  BY <1>1, <1>2, CallImplemented DEF AnyCall, Global!GlobalNext, Global!Announce, Global!Raise
<1>3. ASSUME NEW p \in Proc, NotifyReturn(p) \/ NotifyRefused(p) PROVE Global!GlobalNext
  BY <1>3, ReturnImplemented, RefusedImplemented DEF Global!GlobalNext
<1>4. CASE UNCHANGED vars
  BY <1>4 DEF vars, InCall, Global!abstractVars
<1> QED  BY <1>1, <1>2, <1>3, <1>4, WaveStutters DEF Next, Wave

(* However the steps of the wave interleave, every call of DDD_Notify returns*)
(* to each processor who is going to send it a message, or to all of them    *)
(* the greatest exception anybody has raised in this call.                   *)
THEOREM GlobalNotifyImplemented == Spec => ImplementsGlobalNotify
<1>1. Init => Global!GlobalInit
  BY DEF Init, InCall, Global!GlobalInit, Global!NoResult, NoResult
<1>2. NotifyInv /\ [Next]_vars => [Global!GlobalNext]_(Global!abstractVars)
  BY StepImplemented
<1> QED
  BY InitInv, NextInv, <1>1, <1>2, PTL DEF Spec, ImplementsGlobalNotify, Global!GlobalSpec
==============================================================================
