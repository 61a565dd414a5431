---------------------------- MODULE LowComm_proofs ----------------------------
(***************************************************************************)
(* Proofs about LowComm, for any number of processors, phases, messages and *)
(* buffers.                                                                 *)
(*                                                                          *)
(* The invariant says which announced messages have been sent, and which    *)
(* receives have been posted, in every state of a phase (StreamInv).  As    *)
(* both are in the order of the phases, the i-th send from one processor to *)
(* another and the i-th receive are for the same phase.                     *)
(***************************************************************************)
EXTENDS LowComm, FiniteSetTheorems, WellFoundedInduction, TLAPS

CallRec == [dests : SUBSET Proc, exc : Nat]
Result  == [senders : SUBSET Proc, exc : Nat]

(* Everybody has made the k-th call, and nobody with an exception.           *)
Good(k) == \A q \in Proc : k <= Phase(q) /\ calls[q][k].exc = 0

(* Who is not in a call has returned from its last one, and then everybody   *)
(* has made it.                                                              *)
CallInv ==
    /\ calls \in [Proc -> Seq(CallRec)] /\ inCall \in [Proc -> BOOLEAN] /\ result \in [Proc -> Result]
    /\ \A p \in Proc :
          /\ Phase(p) <= MaxCalls
          /\ inCall[p] <=> pc[p] = "connect"
          /\ inCall[p] => Phase(p) >= 1
          /\ pc[p] \in {"pack", "communicate", "nomem"} => Phase(p) >= 1 /\ Good(Phase(p))
          /\ \A q \in Proc : Phase(p) <= Phase(q) \/ (inCall[p] /\ Phase(p) - 1 <= Phase(q))
          /\ \A k \in 1 .. Phase(p) : calls[p][k].exc # 0 => k \in Raising

(* The states of messages that are possible in each part of a phase. *)
QueueOf(p, q) ==
    /\ pc[p] \in {"idle", "nomem"} => sendQueue[p][q] = "none"
    /\ pc[p] = "prepare" => sendQueue[p][q] \in {"none", "FREEZED", "ALLOCATED"}
    /\ pc[p] = "prepare" /\ Phase(p) + 1 \in LatePhases => sendQueue[p][q] # "ALLOCATED"
    /\ pc[p] \in {"connect", "pack"} =>
          IF Phase(p) \in LatePhases THEN sendQueue[p][q] # "ALLOCATED"
                                     ELSE sendQueue[p][q] \in {"none", "ALLOCATED"}
    /\ pc[p] = "connect" => sendQueue[p][q] \notin {"COMM", "READY"}
    /\ pc[p] = "communicate" => sendQueue[p][q] \notin {"FREEZED", "ALLOCATED"}
    /\ pc[p] \in {"connect", "pack", "communicate"} =>
          (sendQueue[p][q] # "none" <=> q \in calls[p][Phase(p)].dests)
QueueInv == \A p, q \in Proc : QueueOf(p, q)

(* The phases with a message from p to q that everybody has entered without  *)
(* exception.                                                                *)
Announced(p, q) == {k \in 1 .. MaxCalls : Good(k) /\ q \in calls[p][k].dests}

Increasing(s)  == \A i, j \in 1 .. Len(s) : i < j => s[i] < s[j]
Occurs(k, s)   == \E i \in 1 .. Len(s) : s[i] = k

(* Sends and receives are started once for each announced message, in the    *)
(* order of the phases.                                                      *)
SentInv(p, q) ==
    /\ Increasing(sent[p][q])
    /\ \A i \in 1 .. Len(sent[p][q]) : sent[p][q][i] \in Announced(p, q)
    /\ \A k \in Announced(p, q) :
          /\ k < Phase(p) => Occurs(k, sent[p][q])
          /\ k = Phase(p) /\ pc[p] \in {"idle", "prepare", "thrown", "communicate"} => Occurs(k, sent[p][q])
          /\ k = Phase(p) /\ pc[p] \in {"connect", "exited"} => ~Occurs(k, sent[p][q])
          /\ k = Phase(p) /\ pc[p] = "pack" =>
                (Occurs(k, sent[p][q]) <=> sendQueue[p][q] \in {"COMM", "READY"})
PostedInv(p, q) ==
    /\ Increasing(posted[q][p])
    /\ \A i \in 1 .. Len(posted[q][p]) : posted[q][p][i] \in Announced(p, q)
    /\ \A k \in Announced(p, q) :
          /\ k < Phase(q) => Occurs(k, posted[q][p])
          /\ k = Phase(q) => (Occurs(k, posted[q][p]) <=> pc[q] \notin {"connect", "exited"})
StreamInv == \A p, q \in Proc : SentInv(p, q) /\ PostedInv(p, q)

(* At most the last message is still to come, and then the receiver is       *)
(* waiting for it with its buffer.                                           *)
RecvOf(p, q) ==
    /\ arrived[q][p] <= Matched(q, p)
    /\ ~Gone(p) /\ arrived[q][p] < Len(posted[p][q]) =>
          /\ pc[p] \in {"pack", "communicate"} /\ recvQueue[p][q] = "COMM"
          /\ arrived[q][p] = Len(posted[p][q]) - 1
          /\ posted[p][q][Len(posted[p][q])] = Phase(p) /\ recvBuf[p] = Phase(p)
RecvInv == \A p, q \in Proc : RecvOf(p, q)

IInv == TypeOK /\ CallInv /\ QueueInv /\ StreamInv /\ RecvInv /\ NoLeak /\ OneBufferIsEnough
-------------------------------------------------------------------------------
(* Sets of processors are finite. *)
LEMMA Finite ==
  ASSUME NEW S \in SUBSET Proc
  PROVE  IsFiniteSet(S) /\ Cardinality(S) \in Nat
BY RoomAssumption, FS_Subset, FS_CardinalityType

(* A set of numbers has a smallest member: what stands for induction.        *)
Less == {ss \in Nat \X Nat : ss[1] < ss[2]}

LEMMA Smallest ==
  ASSUME NEW S \in SUBSET Nat, S # {}
  PROVE  \E n \in S : \A m \in S : n <= m
<1>1. OpToRel(<, Nat) = Less
  BY DEF OpToRel, Less
<1>2. IsWellFoundedOn(Less, Nat)
  BY <1>1, NatLessThanWellFounded
<1>3. PICK n \in S : \A m \in S : ~ (<<m, n>> \in Less)
  BY <1>2, WFMin
<1>4. \A m \in S : ~ (m < n)
  BY <1>3 DEF Less
<1> QED  BY <1>4

(* The exceptions of a call have a maximum, and it is one of them. *)
LEMMA BoundedCodes ==
  ASSUME NEW f \in [Proc -> Nat]
  PROVE  \E b \in Nat : \A p \in Proc : f[p] <= b
<1>1. PICK n \in Nat : \E g : g \in Bijection(1 .. n, Proc)
  BY RoomAssumption, FS_CardinalityType DEF ExistsBijection
<1>2. PICK g : g \in Bijection(1 .. n, Proc)
  BY <1>1
<1>3. g \in [1 .. n -> Proc] /\ \A p \in Proc : \E i \in 1 .. n : g[i] = p
  BY <1>2 DEF Bijection, Surjection, Injection
<1> DEFINE BoundsUpTo(m) == \E b \in Nat : \A i \in 1 .. n : i <= m => f[g[i]] <= b
           unbounded == {m \in Nat : ~BoundsUpTo(m)}
<1>4. unbounded = {}
  <2>1. SUFFICES ASSUME unbounded # {} PROVE FALSE
    OBVIOUS
  <2>2. PICK m \in unbounded : \A l \in unbounded : m <= l
    BY <2>1, Smallest
  <2>3. CASE m = 0
    <3>1. BoundsUpTo(0)
      BY <1>1
    <3> QED  BY <2>2, <2>3, <3>1
  <2>4. CASE m # 0
    <3>1. m - 1 \in Nat /\ m \in Nat /\ BoundsUpTo(m - 1)
      <4> HIDE DEF BoundsUpTo
      <4>1. m \in Nat /\ m - 1 \in Nat
        BY <2>2, <2>4
      <4>2. m - 1 \notin unbounded
        BY <2>2, <4>1
      <4> QED  BY <4>1, <4>2
    <3>2. PICK b \in Nat : \A i \in 1 .. n : i <= m - 1 => f[g[i]] <= b
      BY <3>1
    <3>3. \A i \in 1 .. n : f[g[i]] \in Nat
      BY <1>3
    <3>4. CASE m \in 1 .. n
      <4> DEFINE c == IF f[g[m]] > b THEN f[g[m]] ELSE b
      <4>1. c \in Nat /\ b <= c /\ f[g[m]] <= c
        BY <3>3, <3>4
      <4>2. ASSUME NEW i \in 1 .. n, i <= m PROVE f[g[i]] <= c
        <5>1. i <= m - 1 \/ i = m
          BY <3>1, <4>2
        <5>2. CASE i = m
          BY <4>1, <5>2
        <5>3. CASE i <= m - 1
          BY <3>2, <3>3, <4>1, <5>3
        <5> QED  BY <5>1, <5>2, <5>3
      <4> QED  BY <2>2, <4>1, <4>2
    <3>5. CASE m \notin 1 .. n
      <4>1. \A i \in 1 .. n : i <= m => i <= m - 1
        BY <1>1, <3>1, <3>5
      <4> QED  BY <2>2, <3>2, <4>1
    <3> QED  BY <3>4, <3>5
  <2> QED  BY <2>3, <2>4
<1>5. PICK b \in Nat : \A i \in 1 .. n : i <= n => f[g[i]] <= b
  BY <1>1, <1>4
<1>6. \A i \in 1 .. n : f[g[i]] <= b
  BY <1>1, <1>5
<1> QED  BY <1>3, <1>6

LEMMA MaxOfCodes ==
  ASSUME NEW f \in [Proc -> Nat], Proc # {}
  PROVE  /\ Max({f[p] : p \in Proc}) \in {f[p] : p \in Proc}
         /\ \A p \in Proc : f[p] <= Max({f[p2] : p2 \in Proc})
<1> DEFINE S == {f[p] : p \in Proc}
           U == {b \in Nat : \A x \in S : x <= b}
<1>1. S \subseteq Nat /\ S # {}
  OBVIOUS
<1>2. U # {}
  BY BoundedCodes
<1>3. PICK u \in U : \A b \in U : u <= b
  BY <1>2, Smallest
<1>4. u \in S
  <2>1. SUFFICES ASSUME u \notin S PROVE FALSE
    OBVIOUS
  <2>2. \A x \in S : x <= u - 1 /\ u - 1 \in Nat
    BY <1>1, <1>3, <2>1
  <2>3. u - 1 \in U
    BY <1>1, <2>2
  <2> QED  BY <1>3, <2>3
<1>5. Max(S) \in S /\ \A x \in S : x <= Max(S)
  BY <1>1, <1>3, <1>4 DEF Max
<1> QED  BY <1>5
-------------------------------------------------------------------------------
(* The calls of DDD_Notify. *)

LEMMA OldCalls ==
  ASSUME calls \in [Proc -> Seq(CallRec)], NEW p \in Proc, NEW c \in CallRec, Call(p, c)
  PROVE  /\ calls' \in [Proc -> Seq(CallRec)]
         /\ \A q \in Proc : /\ Len(calls[q]) \in Nat /\ Len(calls'[q]) \in Nat
                            /\ Len(calls[q]) <= Len(calls'[q])
                            /\ q = p => Len(calls'[q]) = Len(calls[q]) + 1
                            /\ q # p => Len(calls'[q]) = Len(calls[q])
                            /\ \A k \in 1 .. Len(calls[q]) : calls'[q][k] = calls[q][k]
         /\ calls'[p][Len(calls[p]) + 1] = c
<1>1. calls' = [calls EXCEPT ![p] = Append(calls[p], c)]
  BY DEF Call
<1>2. calls[p] \in Seq(CallRec)
  OBVIOUS
<1>3. /\ Append(calls[p], c) \in Seq(CallRec) /\ Len(Append(calls[p], c)) = Len(calls[p]) + 1
      /\ Append(calls[p], c)[Len(calls[p]) + 1] = c
      /\ \A k \in 1 .. Len(calls[p]) : Append(calls[p], c)[k] = calls[p][k]
  BY <1>2
<1>4. /\ calls' \in [Proc -> Seq(CallRec)] /\ calls'[p] = Append(calls[p], c)
      /\ \A q \in Proc : q # p => calls'[q] = calls[q]
  BY <1>1, <1>3
<1>5. \A q \in Proc : Len(calls[q]) \in Nat
  OBVIOUS
<1>6. ASSUME NEW q \in Proc
      PROVE  /\ Len(calls[q]) \in Nat /\ Len(calls'[q]) \in Nat
             /\ Len(calls[q]) <= Len(calls'[q])
             /\ q = p => Len(calls'[q]) = Len(calls[q]) + 1
             /\ q # p => Len(calls'[q]) = Len(calls[q])
             /\ \A k \in 1 .. Len(calls[q]) : calls'[q][k] = calls[q][k]
  <2>1. CASE q = p
    BY <1>3, <1>4, <1>5, <2>1
  <2>2. CASE q # p
    BY <1>4, <1>5, <2>2
  <2> QED  BY <2>1, <2>2
<1> QED  BY <1>3, <1>4, <1>6

LEMMA OldGood ==
  ASSUME calls \in [Proc -> Seq(CallRec)], NEW p \in Proc, NEW c \in CallRec, Call(p, c),
         NEW k \in Nat, k >= 1, Good(k)
  PROVE  /\ \A q \in Proc : k <= Len(calls'[q]) /\ calls'[q][k].exc = 0
         /\ \A q \in Proc : calls'[q][k] = calls[q][k]
<1>1. \A q \in Proc : k \in 1 .. Len(calls[q]) /\ calls[q][k].exc = 0 /\ Len(calls[q]) \in Nat
  BY DEF Good, Phase
<1>2. \A q \in Proc : /\ Len(calls'[q]) \in Nat /\ Len(calls[q]) <= Len(calls'[q])
                      /\ \A j \in 1 .. Len(calls[q]) : calls'[q][j] = calls[q][j]
  BY OldCalls
<1> QED  BY <1>1, <1>2

LEMMA CallKeepsCallInv ==
  ASSUME TypeOK, CallInv, NEW p \in Proc, NEW c \in CallRec, Call(p, c), pc[p] # "connect",
         Goto(p, "connect"), c.exc # 0 => Phase(p) + 1 \in Raising
  PROVE  CallInv'
<1>1. /\ calls \in [Proc -> Seq(CallRec)] /\ inCall \in [Proc -> BOOLEAN] /\ result \in [Proc -> Result]
      /\ Len(calls[p]) < MaxCalls /\ inCall' = [inCall EXCEPT ![p] = TRUE]
      /\ result' = [result EXCEPT ![p] = NoResult]
      /\ pc' = [pc EXCEPT ![p] = "connect"] /\ ~inCall[p]
  BY DEF CallInv, Call, Goto
<1>2. inCall' \in [Proc -> BOOLEAN] /\ result' \in [Proc -> Result]
  BY <1>1 DEF NoResult, Result
<1>4. /\ calls' \in [Proc -> Seq(CallRec)]
      /\ \A q \in Proc : /\ Len(calls[q]) \in Nat /\ Len(calls'[q]) \in Nat
                         /\ q = p => Len(calls'[q]) = Len(calls[q]) + 1
                         /\ q # p => Len(calls'[q]) = Len(calls[q])
                         /\ \A k \in 1 .. Len(calls[q]) : calls'[q][k] = calls[q][k]
      /\ calls'[p][Len(calls[p]) + 1] = c
  BY <1>1, OldCalls
<1>3. ASSUME NEW q \in Proc
      PROVE  /\ Len(calls'[q]) <= MaxCalls
             /\ inCall'[q] <=> pc'[q] = "connect"
             /\ inCall'[q] => Len(calls'[q]) >= 1
             /\ pc'[q] \in {"pack", "communicate", "nomem"} =>
                   /\ Len(calls'[q]) >= 1
                   /\ \A r \in Proc : /\ Len(calls'[q]) <= Len(calls'[r])
                                      /\ calls'[r][Len(calls'[q])].exc = 0
             /\ \A r \in Proc : \/ Len(calls'[q]) <= Len(calls'[r])
                                \/ inCall'[q] /\ Len(calls'[q]) - 1 <= Len(calls'[r])
             /\ \A k \in 1 .. Len(calls'[q]) : calls'[q][k].exc # 0 => k \in Raising
  <2>1. /\ \A r \in Proc : Len(calls[r]) \in Nat
        /\ Len(calls[q]) <= MaxCalls
        /\ inCall[q] <=> pc[q] = "connect"
        /\ inCall[q] => Len(calls[q]) >= 1
        /\ pc[q] \in {"pack", "communicate", "nomem"} => Len(calls[q]) >= 1 /\ Good(Len(calls[q]))
        /\ \A r \in Proc : Len(calls[q]) <= Len(calls[r]) \/ (inCall[q] /\ Len(calls[q]) - 1 <= Len(calls[r]))
        /\ \A k \in 1 .. Len(calls[q]) : calls[q][k].exc # 0 => k \in Raising
    BY <1>1 DEF CallInv, Phase
  <2>2. CASE q = p
    <3>1. Len(calls'[q]) = Len(calls[p]) + 1 /\ inCall'[q] /\ pc'[q] = "connect"
      BY <1>1, <2>2, <1>4 DEF TypeOK
    <3>2. \A r \in Proc : Len(calls'[q]) - 1 <= Len(calls'[r])
      <4>1. \A r \in Proc : Len(calls[q]) <= Len(calls[r])
        BY <1>1, <2>1, <2>2
      <4> QED  BY <1>1, <2>1, <2>2, <3>1, <4>1, <1>4
    <3>3. \A k \in 1 .. Len(calls'[q]) : k \in 1 .. Len(calls[q]) \/ k = Len(calls[p]) + 1
      BY <2>1, <2>2, <3>1
    <3>4. \A k \in 1 .. Len(calls'[q]) : calls'[q][k].exc # 0 => k \in Raising
      BY <1>1, <2>1, <2>2, <3>3, <1>4 DEF Phase
    <3>5. Len(calls'[q]) <= MaxCalls /\ Len(calls'[q]) >= 1
      BY <1>1, <2>1, <2>2, <3>1, PhasesAssumption
    <3> QED  BY <3>1, <3>2, <3>4, <3>5
  <2>3. CASE q # p
    <3>1. Len(calls'[q]) = Len(calls[q]) /\ inCall'[q] = inCall[q] /\ pc'[q] = pc[q]
      BY <1>1, <2>3, <1>4 DEF TypeOK
    <3>2. \A r \in Proc : Len(calls[r]) <= Len(calls'[r]) /\ Len(calls'[r]) \in Nat
      BY <1>1, <2>1, <1>4
    <3>3. pc[q] \in {"pack", "communicate", "nomem"} =>
             \A r \in Proc : Len(calls[q]) <= Len(calls'[r]) /\ calls'[r][Len(calls[q])].exc = 0
      BY <1>1, <2>1, OldGood
    <3>4. \A k \in 1 .. Len(calls[q]) : calls'[q][k] = calls[q][k]
      BY <1>1, <1>4
    <3>5. \A r \in Proc : Len(calls[q]) <= Len(calls'[r]) \/ (inCall[q] /\ Len(calls[q]) - 1 <= Len(calls'[r]))
      BY <2>1, <3>2
    <3> QED  BY <2>1, <3>1, <3>3, <3>4, <3>5
  <2> QED  BY <2>2, <2>3
<1> QED  BY <1>2, <1>3, <1>4 DEF CallInv, Phase, Good

(* What a call returns. *)
LEMMA ReturnResult ==
  ASSUME CallInv, NEW p \in Proc, Return(p)
  PROVE  /\ inCall[p] /\ Phase(p) \in 1 .. MaxCalls
         /\ \A q \in Proc : Phase(p) <= Phase(q)
         /\ result' \in [Proc -> Result]
         /\ result'[p].exc = 0 => /\ Good(Phase(p))
                                  /\ result'[p].senders = {q \in Proc : p \in calls[q][Phase(p)].dests}
         /\ result'[p].exc # 0 => ~Good(Phase(p))
<1>1. /\ calls \in [Proc -> Seq(CallRec)] /\ result \in [Proc -> Result] /\ inCall[p]
      /\ Phase(p) \in Nat /\ Phase(p) >= 1 /\ Phase(p) <= MaxCalls
      /\ \A q \in Proc : Phase(p) <= Phase(q)
      /\ result' = [result EXCEPT ![p] = CommonResult(p, Phase(p))]
  BY DEF CallInv, Return, Phase, EverybodyCalled
<1> DEFINE k == Phase(p)
           f == [q \in Proc |-> calls[q][k].exc]
<1>2. \A q \in Proc : calls[q][k] \in CallRec
  BY <1>1 DEF Phase
<1>3. f \in [Proc -> Nat] /\ Raised(k) = {f[q] : q \in Proc}
  BY <1>2 DEF CallRec, Raised
<1>4. Good(k) <=> \A q \in Proc : f[q] = 0
  BY <1>1 DEF Good
<1>5. CASE Good(k)
  <2>1. Raised(k) = {0}
    BY <1>3, <1>4, <1>5
  <2>2. result'[p] = Senders({q \in Proc : p \in calls[q][k].dests})
    BY <1>1, <2>1 DEF CommonResult
  <2> QED  BY <1>1, <1>5, <2>2 DEF Senders, Result
<1>6. CASE ~Good(k)
  <2>1. Raised(k) # {0}
    BY <1>3, <1>4, <1>6
  <2>2. result'[p] = GlobalError(Max(Raised(k)))
    BY <1>1, <2>1 DEF CommonResult
  <2>3. Max(Raised(k)) \in Raised(k) /\ \A q \in Proc : f[q] <= Max(Raised(k))
    <3> HIDE DEF f, k
    <3> QED  BY <1>3, MaxOfCodes
  <2>4. Max(Raised(k)) \in Nat
    BY <1>3, <2>3
  <2>5. Max(Raised(k)) # 0
    BY <1>3, <1>4, <1>6, <2>3
  <2> QED  BY <1>1, <1>6, <2>2, <2>4, <2>5 DEF GlobalError, Result
<1> QED  BY <1>1, <1>5, <1>6

LEMMA ReturnKeepsCallInv ==
  ASSUME TypeOK, CallInv, NEW p \in Proc, Return(p), NEW l \in {"idle", "pack", "exited"}, Goto(p, l),
         l = "pack" => result'[p].exc = 0
  PROVE  CallInv'
<1>1. /\ calls' = calls /\ inCall' = [inCall EXCEPT ![p] = FALSE] /\ pc' = [pc EXCEPT ![p] = l]
      /\ calls \in [Proc -> Seq(CallRec)] /\ inCall \in [Proc -> BOOLEAN]
  BY DEF Return, Goto, CallInv
<1>2. ASSUME NEW q \in Proc
      PROVE  /\ Phase(q) <= MaxCalls
             /\ inCall'[q] <=> pc'[q] = "connect"
             /\ inCall'[q] => Phase(q) >= 1
             /\ pc'[q] \in {"pack", "communicate", "nomem"} => Phase(q) >= 1 /\ Good(Phase(q))
             /\ \A r \in Proc : Phase(q) <= Phase(r) \/ (inCall'[q] /\ Phase(q) - 1 <= Phase(r))
             /\ \A k \in 1 .. Phase(q) : calls[q][k].exc # 0 => k \in Raising
  <2>1. CASE q = p
    BY <1>1, <2>1, ReturnResult DEF CallInv, TypeOK
  <2>2. CASE q # p
    BY <1>1, <2>2 DEF CallInv, TypeOK
  <2> QED  BY <2>1, <2>2
<1>3. result' \in [Proc -> Result] /\ inCall' \in [Proc -> BOOLEAN]
  BY <1>1, ReturnResult
<1> QED  BY <1>1, <1>2, <1>3 DEF CallInv, Phase, Good

(* The rest of a phase does not touch the calls. *)
LEMMA RestKeepsCallInv ==
  ASSUME TypeOK, CallInv, NEW p \in Proc, NEW l, Goto(p, l), UNCHANGED abstractVars,
         pc[p] # "connect", l # "connect",
         l \in {"pack", "communicate", "nomem"} => pc[p] \in {"pack", "communicate"}
  PROVE  CallInv'
<1>1. calls' = calls /\ inCall' = inCall /\ result' = result /\ pc' = [pc EXCEPT ![p] = l]
  BY DEF Goto, abstractVars
<1>2. \A q \in Proc : /\ pc'[q] = "connect" <=> pc[q] = "connect"
                      /\ pc'[q] \in {"pack", "communicate", "nomem"} => pc[q] \in {"pack", "communicate", "nomem"}
  BY <1>1 DEF TypeOK
<1> QED  BY <1>1, <1>2 DEF CallInv, Phase, Good
-------------------------------------------------------------------------------
(* The announced messages. *)

LEMMA AnnouncedType ==
  ASSUME CallInv, NEW p \in Proc, NEW q \in Proc, NEW k \in Announced(p, q)
  PROVE  k \in Nat /\ k >= 1 /\ k <= Phase(p) /\ k <= Phase(q) /\ Phase(p) \in Nat /\ Phase(q) \in Nat
BY DEF Announced, Good, CallInv, Phase

(* A message is announced to all at once: with the last call. *)
LEMMA CallAnnounces ==
  ASSUME TypeOK, CallInv, NEW a \in Proc, NEW c \in CallRec, Call(a, c), pc[a] # "connect",
         Goto(a, "connect"), NEW p \in Proc, NEW q \in Proc
  PROVE  /\ Announced(p, q) \subseteq Announced(p, q)'
         /\ \A k \in Announced(p, q)' : k \notin Announced(p, q) =>
               \A r \in Proc : k = Len(calls'[r]) /\ pc'[r] = "connect"
<1>1. /\ calls \in [Proc -> Seq(CallRec)] /\ ~inCall[a] /\ pc' = [pc EXCEPT ![a] = "connect"]
      /\ \A r, s \in Proc : Len(calls[r]) <= Len(calls[s]) \/ (inCall[r] /\ Len(calls[r]) - 1 <= Len(calls[s]))
      /\ \A r \in Proc : inCall[r] <=> pc[r] = "connect"
  BY DEF CallInv, Call, Goto, Phase
<1>2. /\ calls' \in [Proc -> Seq(CallRec)]
      /\ \A r \in Proc : /\ Len(calls[r]) \in Nat /\ Len(calls'[r]) \in Nat
                         /\ r = a => Len(calls'[r]) = Len(calls[r]) + 1
                         /\ r # a => Len(calls'[r]) = Len(calls[r])
                         /\ \A k \in 1 .. Len(calls[r]) : calls'[r][k] = calls[r][k]
  BY <1>1, OldCalls
<1>3. ASSUME NEW k \in Announced(p, q) PROVE k \in Announced(p, q)'
  BY <1>1, OldGood DEF Announced, Good, Phase
<1>4. ASSUME NEW k \in Announced(p, q)', k \notin Announced(p, q), NEW r \in Proc
      PROVE  k = Len(calls'[r]) /\ pc'[r] = "connect"
  <2>1. /\ k \in 1 .. MaxCalls
        /\ \A s \in Proc : k <= Len(calls'[s]) /\ calls'[s][k].exc = 0
        /\ q \in calls'[p][k].dests
    BY <1>4 DEF Announced, Good, Phase
  <2>2. ~ \A s \in Proc : k <= Len(calls[s])
    <3>1. SUFFICES ASSUME \A s \in Proc : k <= Len(calls[s]) PROVE FALSE
      OBVIOUS
    <3>2. \A s \in Proc : k \in 1 .. Len(calls[s])
      BY <1>2, <2>1, <3>1
    <3>3. \A s \in Proc : calls[s][k] = calls'[s][k]
      BY <1>2, <3>2
    <3> QED  BY <1>4, <2>1, <3>1, <3>3 DEF Announced, Good, Phase
  <2>3. k = Len(calls[a]) + 1
    <3>1. PICK s \in Proc : ~(k <= Len(calls[s]))
      BY <2>2
    <3>2. s = a
      BY <1>2, <2>1, <3>1
    <3> QED  BY <1>2, <2>1, <3>1, <3>2
  <2>4. CASE r = a
    BY <1>1, <1>2, <2>3, <2>4 DEF TypeOK
  <2>5. CASE r # a
    <3>1. k <= Len(calls[r])
      BY <1>2, <2>1, <2>5
    <3>2. ~(Len(calls[r]) <= Len(calls[a]))
      BY <1>2, <2>3, <3>1
    <3>3. inCall[r] /\ Len(calls[r]) - 1 <= Len(calls[a])
      BY <1>1, <3>2
    <3>4. Len(calls[a]) \in Nat /\ Len(calls[r]) \in Nat /\ Len(calls'[r]) = Len(calls[r])
      BY <1>2, <2>5
    <3>5. k = Len(calls'[r])
      BY <2>3, <3>1, <3>3, <3>4
    <3>6. pc'[r] = "connect"
      BY <1>1, <2>5, <3>3 DEF TypeOK
    <3> QED  BY <3>5, <3>6
  <2> QED  BY <2>4, <2>5
<1> QED  BY <1>3, <1>4

LEMMA SameAnnounced ==
  ASSUME calls' = calls, NEW p, NEW q
  PROVE  Announced(p, q)' = Announced(p, q)
BY DEF Announced, Good, Phase
-------------------------------------------------------------------------------
(* The steps of one processor change its own rows. *)

ProcStep(p) ==
    \/ \E dests \in SUBSET (Proc \ {p}) : NewSendMsgs(p, dests)
    \/ LC_Abort(p)
    \/ \E copied \in SUBSET InState(sendQueue, p, "COMM") : Step(p, copied)

Kept(p) ==
    /\ pc'[p] = pc[p] /\ sendQueue'[p] = sendQueue[p] /\ recvQueue'[p] = recvQueue[p]
    /\ sendBufs'[p] = sendBufs[p] /\ recvBuf'[p] = recvBuf[p]
    /\ sent'[p] = sent[p] /\ posted'[p] = posted[p]
    /\ calls'[p] = calls[p] /\ inCall'[p] = inCall[p]

Funs ==
    /\ pc = [p \in Proc |-> pc[p]] /\ sendQueue = [p \in Proc |-> sendQueue[p]]
    /\ recvQueue = [p \in Proc |-> recvQueue[p]] /\ sendBufs = [p \in Proc |-> sendBufs[p]]
    /\ recvBuf = [p \in Proc |-> recvBuf[p]] /\ sent = [p \in Proc |-> sent[p]]
    /\ posted = [p \in Proc |-> posted[p]] /\ calls = [p \in Proc |-> calls[p]]
    /\ inCall = [p \in Proc |-> inCall[p]]

LEMMA OthersKept ==
  ASSUME TypeOK, CallInv, NEW a \in Proc, ProcStep(a)
  PROVE  \A p \in Proc : p # a => Kept(p)
<1>0. Funs
  BY DEF TypeOK, CallInv, Funs
<1> SUFFICES ASSUME NEW p \in Proc, p # a PROVE Kept(p)
  OBVIOUS
<1> USE <1>0 DEF Funs, Kept, abstractVars, Goto
<1>1. ASSUME NEW dests, NewSendMsgs(a, dests) PROVE Kept(p)
  BY <1>1 DEF NewSendMsgs
<1>2. CASE LC_Abort(a)
  BY <1>2 DEF LC_Abort, Call
<1>3. ASSUME NEW copied, Step(a, copied) PROVE Kept(p)
  <2>1. ASSUME NEW q \in Proc, PrepareSend(a, q) PROVE Kept(p)
    BY <2>1 DEF PrepareSend
  <2>2. ASSUME NEW q \in Proc, PackMsg(a, q) PROVE Kept(p)
    BY <2>2 DEF PackMsg, Send
  <2>3. CASE LC_Connect(a)
    BY <2>3 DEF LC_Connect, Call
  <2>4. CASE ConnectFails(a)
    BY <2>4 DEF ConnectFails, Return, Cleanup
  <2>5. CASE Connected(a)
    BY <2>5 DEF Connected, Return
  <2>6. CASE PrepareRecvFails(a)
    BY <2>6 DEF PrepareRecvFails, Return
  <2>7. CASE RetryAlloc(a, copied)
    BY <2>7 DEF RetryAlloc, PollRecv, PollSend
  <2>8. CASE LC_Communicate(a, copied)
    BY <2>8 DEF LC_Communicate, PollRecv, PollSend
  <2>9. CASE GiveUp(a)
    <3>1. CASE IsLate(a)
      BY <2>9, <3>1 DEF GiveUp, Cleanup
    <3>2. CASE ~IsLate(a)
      BY <2>9, <3>2 DEF GiveUp
    <3> QED  BY <3>1, <3>2
  <2>10. CASE StartCommunicate(a)
    BY <2>10 DEF StartCommunicate, Send
  <2>11. CASE Finish(a)
    BY <2>11 DEF Finish, Cleanup
  <2> QED  BY <1>3, <2>1, <2>2, <2>3, <2>4, <2>5, <2>6, <2>7, <2>8, <2>9, <2>10, <2>11 DEF Step
<1> QED  BY <1>1, <1>2, <1>3 DEF ProcStep

(* What has to be shown of the processor that takes the step. *)
LeakOf(p) == pc[p] # "nomem" =>
    sendBufs[p] = Cardinality(InState(sendQueue, p, "ALLOCATED") \cup InState(sendQueue, p, "COMM"))
RoomOf(p) == pc[p] = "nomem" => Room[p] = 0
OwnInv(p) == (\A q \in Proc : QueueOf(p, q)) /\ LeakOf(p) /\ RoomOf(p)

LEMMA OwnInvs ==
  QueueInv /\ NoLeak /\ OneBufferIsEnough <=> \A p \in Proc : OwnInv(p)
BY DEF QueueInv, NoLeak, OneBufferIsEnough, OwnInv, LeakOf, RoomOf

LEMMA KeptOwnInv ==
  ASSUME NEW p \in Proc, OwnInv(p), Kept(p)
  PROVE  OwnInv(p)'
BY DEF OwnInv, QueueOf, LeakOf, RoomOf, Kept, Phase, InState
-------------------------------------------------------------------------------
(* Types, calls, message states and buffers, action by action. *)

BasicInv == TypeOK /\ CallInv /\ \A p \in Proc : OwnInv(p)
OwnStep(p) == TypeOK' /\ CallInv' /\ OwnInv(p)'

LEMMA CallRecs ==
  /\ \A dests \in SUBSET Proc : Announce(dests) \in CallRec
  /\ \A e \in Exceptions : Raise(e) \in CallRec
BY ExceptionsAssumption DEF Announce, Raise, CallRec

LEMMA OneMore ==
  ASSUME TypeOK, NEW a \in Proc, sendBufs[a] < Room[a], sendBufs' = [sendBufs EXCEPT ![a] = @ + 1]
  PROVE  sendBufs' \in [Proc -> Nat] /\ \A p \in Proc : sendBufs'[p] <= Room[p]
<1>1. sendBufs \in [Proc -> Nat] /\ Room \in [Proc -> Nat] /\ \A p \in Proc : sendBufs[p] <= Room[p]
  BY RoomAssumption DEF TypeOK
<1>2. sendBufs[a] \in Nat /\ Room[a] \in Nat /\ sendBufs[a] + 1 <= Room[a]
  BY <1>1
<1>3. sendBufs'[a] = sendBufs[a] + 1 /\ \A p \in Proc : p # a => sendBufs'[p] = sendBufs[p]
  BY <1>1
<1>4. sendBufs' \in [Proc -> Nat]
  BY <1>1, <1>2
<1> QED  BY <1>1, <1>2, <1>3, <1>4

(* The rows of the sends or receives after another one has been started. *)
Appended(f, p, S) == [f EXCEPT ![p] = [q \in Proc |-> IF q \in S THEN Append(@[q], Phase(p)) ELSE @[q]]]

LEMMA AppendType ==
  ASSUME NEW f \in [Proc -> [Proc -> Seq(1 .. MaxCalls)]], NEW a \in Proc, NEW S,
         Phase(a) \in 1 .. MaxCalls
  PROVE  /\ Appended(f, a, S) \in [Proc -> [Proc -> Seq(1 .. MaxCalls)]]
         /\ \A p \in Proc : p # a => Appended(f, a, S)[p] = f[p]
         /\ \A q \in S \cap Proc :
               /\ Len(Appended(f, a, S)[a][q]) = Len(f[a][q]) + 1
               /\ Appended(f, a, S)[a][q][Len(f[a][q]) + 1] = Phase(a)
               /\ \A i \in 1 .. Len(f[a][q]) : Appended(f, a, S)[a][q][i] = f[a][q][i]
         /\ \A q \in Proc \ S : Appended(f, a, S)[a][q] = f[a][q]
<1>1. \A q \in Proc : f[a][q] \in Seq(1 .. MaxCalls)
  OBVIOUS
<1>2. \A q \in Proc : Append(f[a][q], Phase(a)) \in Seq(1 .. MaxCalls)
  BY <1>1
<1>3. [q \in Proc |-> IF q \in S THEN Append(f[a][q], Phase(a)) ELSE f[a][q]] \in [Proc -> Seq(1 .. MaxCalls)]
  BY <1>1, <1>2
<1>4. Appended(f, a, S) \in [Proc -> [Proc -> Seq(1 .. MaxCalls)]]
  BY <1>3 DEF Appended
<1>5. /\ \A p \in Proc : p # a => Appended(f, a, S)[p] = f[p]
      /\ \A q \in Proc : Appended(f, a, S)[a][q] = IF q \in S THEN Append(f[a][q], Phase(a)) ELSE f[a][q]
  BY <1>3 DEF Appended
<1>6. ASSUME NEW q \in S \cap Proc
      PROVE  /\ Len(Appended(f, a, S)[a][q]) = Len(f[a][q]) + 1
             /\ Appended(f, a, S)[a][q][Len(f[a][q]) + 1] = Phase(a)
             /\ \A i \in 1 .. Len(f[a][q]) : Appended(f, a, S)[a][q][i] = f[a][q][i]
  <2>1. Appended(f, a, S)[a][q] = Append(f[a][q], Phase(a)) /\ f[a][q] \in Seq(1 .. MaxCalls)
    BY <1>1, <1>5
  <2> QED  BY <2>1
<1> QED  BY <1>4, <1>5, <1>6

LEMMA NewSendMsgsOwn ==
  ASSUME BasicInv, NEW a \in Proc, NEW dests \in SUBSET (Proc \ {a}), NewSendMsgs(a, dests)
  PROVE  OwnStep(a)
<1>1. /\ pc[a] = "idle" /\ pc' = [pc EXCEPT ![a] = "prepare"]
      /\ sendQueue' = [sendQueue EXCEPT ![a] = [q \in Proc |-> IF q \in dests THEN "FREEZED" ELSE "none"]]
      /\ UNCHANGED <<abstractVars, recvQueue, sendBufs, recvBuf, sent, posted, arrived>>
      /\ Goto(a, "prepare")
  BY DEF NewSendMsgs, Goto
<1>2. TypeOK'
  BY <1>1 DEF BasicInv, TypeOK, MsgState
<1>3. CallInv'
  BY <1>1, RestKeepsCallInv DEF BasicInv
<1>4. \A q \in Proc : sendQueue'[a][q] \in {"none", "FREEZED"} /\ sendQueue[a][q] = "none"
  BY <1>1 DEF BasicInv, OwnInv, QueueOf, TypeOK
<1>5. pc'[a] = "prepare" /\ \A q \in Proc : QueueOf(a, q)'
  BY <1>1, <1>4 DEF BasicInv, TypeOK, QueueOf
<1>6. LeakOf(a)'
  <2>1. InState(sendQueue, a, "ALLOCATED") \cup InState(sendQueue, a, "COMM") = {}
    BY <1>4 DEF InState
  <2>2. InState(sendQueue', a, "ALLOCATED") \cup InState(sendQueue', a, "COMM") = {}
    BY <1>4 DEF InState
  <2>3. sendBufs'[a] = sendBufs[a] /\ LeakOf(a)
    BY <1>1 DEF BasicInv, OwnInv
  <2> QED  BY <1>1, <2>1, <2>2, <2>3 DEF LeakOf, InState
<1> QED  BY <1>2, <1>3, <1>5, <1>6 DEF OwnStep, OwnInv, RoomOf

LEMMA LC_AbortOwn ==
  ASSUME BasicInv, NEW a \in Proc, LC_Abort(a)
  PROVE  OwnStep(a)
<1>1. /\ pc[a] = "idle" /\ Phase(a) + 1 \in Raising /\ Goto(a, "connect")
      /\ pc' = [pc EXCEPT ![a] = "connect"]
      /\ UNCHANGED <<sendQueue, recvQueue, sendBufs, recvBuf, sent, posted, arrived>>
  BY DEF LC_Abort, Goto
<1>2. PICK e \in Exceptions : Call(a, Raise(e))
  BY DEF LC_Abort
<1>3. TypeOK'
  BY <1>1 DEF BasicInv, TypeOK
<1>4. CallInv'
  BY <1>1, <1>2, CallRecs, CallKeepsCallInv DEF BasicInv
<1>5. \A q \in Proc : sendQueue'[a][q] = "none" /\ sendQueue[a][q] = "none"
  BY <1>1 DEF BasicInv, OwnInv, QueueOf
<1>6. pc'[a] = "connect" /\ calls'[a][Len(calls'[a])].dests = {}
  <2>1. /\ calls \in [Proc -> Seq(CallRec)] /\ Raise(e) \in CallRec
        /\ pc'[a] = "connect"
    BY <1>1, CallRecs DEF BasicInv, CallInv, TypeOK
  <2>2. Len(calls'[a]) = Len(calls[a]) + 1 /\ calls'[a][Len(calls[a]) + 1] = Raise(e)
    BY <1>2, <2>1, OldCalls
  <2> QED  BY <2>1, <2>2 DEF Raise
<1>7. \A q \in Proc : QueueOf(a, q)'
  BY <1>5, <1>6 DEF QueueOf, Phase
<1>8. LeakOf(a)'
  BY <1>1 DEF BasicInv, OwnInv, LeakOf, InState
<1> QED  BY <1>3, <1>4, <1>6, <1>7, <1>8 DEF OwnStep, OwnInv, RoomOf

LEMMA LC_ConnectOwn ==
  ASSUME BasicInv, NEW a \in Proc, LC_Connect(a)
  PROVE  OwnStep(a)
<1> DEFINE dests == {q \in Proc : sendQueue[a][q] # "none"}
<1>1. /\ pc[a] = "prepare" /\ Goto(a, "connect") /\ Call(a, Announce(dests)) /\ ~Allocating(a)
      /\ pc' = [pc EXCEPT ![a] = "connect"]
      /\ UNCHANGED <<sendQueue, recvQueue, sendBufs, recvBuf, sent, posted, arrived>>
  BY DEF LC_Connect, Goto
<1>2. TypeOK'
  BY <1>1 DEF BasicInv, TypeOK
<1>3. Announce(dests) \in CallRec /\ Announce(dests).exc = 0 /\ Announce(dests).dests = dests
  BY CallRecs DEF Announce
<1>4. CallInv'
  <2> HIDE DEF dests
  <2> QED  BY <1>1, <1>3, CallKeepsCallInv DEF BasicInv
<1>5. /\ pc'[a] = "connect" /\ Len(calls'[a]) = Phase(a) + 1
      /\ calls'[a][Len(calls'[a])].dests = dests
  <2>1. calls \in [Proc -> Seq(CallRec)] /\ pc'[a] = "connect"
    BY <1>1 DEF BasicInv, CallInv, TypeOK
  <2>2. Len(calls'[a]) = Len(calls[a]) + 1 /\ calls'[a][Len(calls[a]) + 1] = Announce(dests)
    <3> HIDE DEF dests
    <3> QED  BY <1>1, <1>3, <2>1, OldCalls
  <2> QED  BY <1>3, <2>1, <2>2 DEF Phase
<1>6. ASSUME NEW q \in Proc PROVE QueueOf(a, q)'
  <2>1. /\ sendQueue'[a][q] = sendQueue[a][q] /\ sendQueue[a][q] \in {"none", "FREEZED", "ALLOCATED"}
        /\ Phase(a) + 1 \in LatePhases => sendQueue[a][q] # "ALLOCATED"
    BY <1>1 DEF BasicInv, OwnInv, QueueOf
  <2>2. Phase(a) + 1 \notin LatePhases => sendQueue[a][q] # "FREEZED"
    BY <1>1 DEF Allocating, IsLate, InState
  <2> QED  BY <1>5, <2>1, <2>2 DEF QueueOf, Phase
<1>7. LeakOf(a)'
  BY <1>1 DEF BasicInv, OwnInv, LeakOf, InState
<1> QED  BY <1>2, <1>4, <1>5, <1>6, <1>7 DEF OwnStep, OwnInv, RoomOf

LEMMA PrepareSendOwn ==
  ASSUME BasicInv, NEW a \in Proc, NEW b \in Proc, PrepareSend(a, b)
  PROVE  OwnStep(a)
<1>1. /\ pc[a] = "prepare" /\ Phase(a) + 1 \notin LatePhases /\ sendQueue[a][b] = "FREEZED"
      /\ sendBufs[a] < Room[a]
      /\ sendQueue' = [sendQueue EXCEPT ![a][b] = "ALLOCATED"]
      /\ sendBufs' = [sendBufs EXCEPT ![a] = @ + 1]
      /\ UNCHANGED <<abstractVars, pc, recvQueue, recvBuf, sent, posted, arrived>>
  BY DEF PrepareSend, Allocating, IsLate, HasRoom
<1>2. TypeOK'
  <2>2. sendBufs' \in [Proc -> Nat] /\ \A p \in Proc : sendBufs'[p] <= Room[p]
    BY <1>1, OneMore DEF BasicInv
  <2>3. sendQueue' \in [Proc -> [Proc -> MsgState]]
    BY <1>1 DEF BasicInv, TypeOK, MsgState
  <2> QED  BY <1>1, <2>2, <2>3 DEF BasicInv, TypeOK
<1>3. CallInv'
  BY <1>1 DEF BasicInv, CallInv, Phase, Good, abstractVars
<1>4. /\ sendQueue'[a][b] = "ALLOCATED"
      /\ \A q \in Proc : q # b => sendQueue'[a][q] = sendQueue[a][q]
  BY <1>1 DEF BasicInv, TypeOK
<1>5. \A q \in Proc : QueueOf(a, q)'
  BY <1>1, <1>4 DEF BasicInv, OwnInv, QueueOf, Phase, abstractVars
<1>6. LeakOf(a)'
  <2> DEFINE old == InState(sendQueue, a, "ALLOCATED") \cup InState(sendQueue, a, "COMM")
  <2>1. old \in SUBSET Proc /\ b \notin old
    BY <1>1 DEF InState
  <2>2. InState(sendQueue', a, "ALLOCATED") \cup InState(sendQueue', a, "COMM") = old \cup {b}
    BY <1>1, <1>4 DEF InState
  <2>3. Cardinality(old \cup {b}) = Cardinality(old) + 1
    BY <2>1, Finite, FS_AddElement
  <2>4. sendBufs'[a] = sendBufs[a] + 1 /\ sendBufs[a] = Cardinality(old)
    BY <1>1 DEF BasicInv, TypeOK, OwnInv, LeakOf
  <2> QED  BY <2>2, <2>3, <2>4 DEF LeakOf, InState
<1> QED  BY <1>1, <1>2, <1>3, <1>5, <1>6 DEF OwnStep, OwnInv, RoomOf

LEMMA ConnectFailsOwn ==
  ASSUME BasicInv, NEW a \in Proc, ConnectFails(a)
  PROVE  OwnStep(a)
<1>1. /\ pc[a] = "connect" /\ Return(a) /\ result'[a].exc # 0 /\ Goto(a, "idle")
      /\ pc' = [pc EXCEPT ![a] = "idle"]
      /\ sendQueue' = [sendQueue EXCEPT ![a] = NoMsgs]
      /\ recvQueue' = [recvQueue EXCEPT ![a] = NoMsgs]
      /\ recvBuf' = [recvBuf EXCEPT ![a] = 0]
      /\ UNCHANGED <<sendBufs, sent, posted, arrived>>
  BY DEF ConnectFails, Goto, Cleanup
<1>2. TypeOK'
  BY <1>1, PhasesAssumption DEF BasicInv, TypeOK, MsgState, NoMsgs
<1>3. CallInv'
  BY <1>1, ReturnKeepsCallInv DEF BasicInv
<1>4. pc'[a] = "idle" /\ \A q \in Proc : sendQueue'[a][q] = "none"
  BY <1>1 DEF BasicInv, TypeOK, NoMsgs
<1>5. \A q \in Proc : QueueOf(a, q)'
  BY <1>4 DEF QueueOf
<1>6. LeakOf(a)'
  <2>1. Phase(a) \in LatePhases
    <3>1. ~Good(Phase(a)) /\ Phase(a) \in Nat /\ Phase(a) >= 1 /\ \A q \in Proc : Phase(a) <= Phase(q)
      BY <1>1, ReturnResult DEF BasicInv
    <3>2. PICK q \in Proc : calls[q][Phase(a)].exc # 0
      BY <3>1 DEF Good
    <3>3. Phase(a) \in 1 .. Phase(q)
      BY <3>1 DEF BasicInv, CallInv, Phase
    <3>4. Phase(a) \in Raising
      BY <3>2, <3>3 DEF BasicInv, CallInv
    <3> QED  BY <3>4, PhasesAssumption
  <2>2. InState(sendQueue, a, "ALLOCATED") \cup InState(sendQueue, a, "COMM") = {}
    BY <1>1, <2>1 DEF BasicInv, OwnInv, QueueOf, InState
  <2>3. sendBufs[a] = Cardinality({})
    BY <1>1, <2>2 DEF BasicInv, OwnInv, LeakOf
  <2>4. InState(sendQueue', a, "ALLOCATED") \cup InState(sendQueue', a, "COMM") = {}
    BY <1>4 DEF InState
  <2> QED  BY <1>1, <2>3, <2>4 DEF LeakOf, InState
<1> QED  BY <1>2, <1>3, <1>4, <1>5, <1>6 DEF OwnStep, OwnInv, RoomOf

LEMMA ConnectedOwn ==
  ASSUME BasicInv, NEW a \in Proc, Connected(a)
  PROVE  OwnStep(a)
<1> DEFINE senders == result'[a].senders
<1>1. /\ pc[a] = "connect" /\ Return(a) /\ result'[a].exc = 0 /\ Goto(a, "pack")
      /\ pc' = [pc EXCEPT ![a] = "pack"] /\ calls' = calls
      /\ recvQueue' = [recvQueue EXCEPT ![a] = [q \in Proc |-> IF q \in senders THEN "COMM" ELSE "none"]]
      /\ posted' = [posted EXCEPT ![a] = [q \in Proc |-> IF q \in senders THEN Append(@[q], Phase(a)) ELSE @[q]]]
      /\ recvBuf' = [recvBuf EXCEPT ![a] = IF senders # {} THEN Phase(a) ELSE 0]
      /\ UNCHANGED <<sendQueue, sendBufs, sent, arrived>>
  BY DEF Connected, Goto, Return
<1>2. Phase(a) \in 1 .. MaxCalls
  BY <1>1, ReturnResult DEF BasicInv
<1>3. TypeOK'
  <2>1. posted' \in [Proc -> [Proc -> Seq(1 .. MaxCalls)]]
    <3>1. posted \in [Proc -> [Proc -> Seq(1 .. MaxCalls)]]
      BY DEF BasicInv, TypeOK
    <3>2. Appended(posted, a, senders) \in [Proc -> [Proc -> Seq(1 .. MaxCalls)]]
      <4> HIDE DEF senders
      <4> QED  BY <1>2, <3>1, AppendType
    <3> QED  BY <1>1, <3>2 DEF Appended
  <2>2. recvBuf' \in [Proc -> 0 .. MaxCalls]
    BY <1>1, <1>2, PhasesAssumption DEF BasicInv, TypeOK
  <2> QED  BY <1>1, <2>1, <2>2 DEF BasicInv, TypeOK
<1>4. CallInv'
  BY <1>1, ReturnKeepsCallInv DEF BasicInv
<1>5. pc'[a] = "pack"
  BY <1>1 DEF BasicInv, TypeOK
<1>6. \A q \in Proc : QueueOf(a, q)'
  BY <1>1, <1>5 DEF BasicInv, OwnInv, QueueOf, Phase
<1>7. LeakOf(a)'
  BY <1>1 DEF BasicInv, OwnInv, LeakOf, InState
<1> QED  BY <1>3, <1>4, <1>5, <1>6, <1>7 DEF OwnStep, OwnInv, RoomOf

LEMMA PrepareRecvFailsOwn ==
  ASSUME BasicInv, NEW a \in Proc, PrepareRecvFails(a)
  PROVE  OwnStep(a)
<1>1. /\ pc[a] = "connect" /\ Return(a) /\ Goto(a, "exited")
      /\ pc' = [pc EXCEPT ![a] = "exited"] /\ calls' = calls
      /\ UNCHANGED <<sendQueue, recvQueue, sendBufs, recvBuf, sent, posted, arrived>>
  BY DEF PrepareRecvFails, Goto, Return
<1>2. TypeOK'
  BY <1>1 DEF BasicInv, TypeOK
<1>3. CallInv'
  BY <1>1, ReturnKeepsCallInv DEF BasicInv
<1>4. pc'[a] = "exited"
  BY <1>1 DEF BasicInv, TypeOK
<1>5. \A q \in Proc : QueueOf(a, q)'
  BY <1>4 DEF QueueOf
<1>6. LeakOf(a)'
  BY <1>1 DEF BasicInv, OwnInv, LeakOf, InState
<1> QED  BY <1>2, <1>3, <1>4, <1>5, <1>6 DEF OwnStep, OwnInv, RoomOf

LEMMA PackMsgOwn ==
  ASSUME BasicInv, NEW a \in Proc, NEW b \in Proc, PackMsg(a, b)
  PROVE  OwnStep(a) /\ pc[a] = "pack" /\ Phase(a) \in LatePhases
<1>1. /\ pc[a] = "pack" /\ Phase(a) \in LatePhases /\ sendQueue[a][b] = "FREEZED"
      /\ sendBufs[a] < Room[a]
      /\ sendQueue' = [sendQueue EXCEPT ![a] = [q \in Proc |-> IF q \in {b} THEN "COMM" ELSE @[q]]]
      /\ sent' = [sent EXCEPT ![a] = [q \in Proc |-> IF q \in {b} THEN Append(@[q], Phase(a)) ELSE @[q]]]
      /\ sendBufs' = [sendBufs EXCEPT ![a] = @ + 1]
      /\ UNCHANGED <<abstractVars, pc, recvQueue, recvBuf, posted, arrived>>
  BY DEF PackMsg, Allocating, IsLate, HasRoom, Send
<1>2. Phase(a) \in 1 .. MaxCalls
  BY <1>1, PhasesAssumption
<1>3. TypeOK'
  <2>2. sendBufs' \in [Proc -> Nat] /\ \A p \in Proc : sendBufs'[p] <= Room[p]
    BY <1>1, OneMore DEF BasicInv
  <2>3. sendQueue' \in [Proc -> [Proc -> MsgState]]
    BY <1>1 DEF BasicInv, TypeOK, MsgState
  <2>4. sent' \in [Proc -> [Proc -> Seq(1 .. MaxCalls)]]
    <3>1. sent \in [Proc -> [Proc -> Seq(1 .. MaxCalls)]]
      BY DEF BasicInv, TypeOK
    <3>2. Appended(sent, a, {b}) \in [Proc -> [Proc -> Seq(1 .. MaxCalls)]]
      BY <1>2, <3>1, AppendType
    <3> QED  BY <1>1, <3>2 DEF Appended
  <2> QED  BY <1>1, <2>2, <2>3, <2>4 DEF BasicInv, TypeOK
<1>4. CallInv'
  BY <1>1 DEF BasicInv, CallInv, Phase, Good, abstractVars
<1>5. /\ sendQueue'[a][b] = "COMM"
      /\ \A q \in Proc : q # b => sendQueue'[a][q] = sendQueue[a][q]
  BY <1>1 DEF BasicInv, TypeOK
<1>6. \A q \in Proc : QueueOf(a, q)'
  BY <1>1, <1>5 DEF BasicInv, OwnInv, QueueOf, Phase, abstractVars
<1>7. LeakOf(a)'
  <2> DEFINE old == InState(sendQueue, a, "ALLOCATED") \cup InState(sendQueue, a, "COMM")
  <2>1. old \in SUBSET Proc /\ b \notin old
    BY <1>1 DEF InState
  <2>2. InState(sendQueue', a, "ALLOCATED") \cup InState(sendQueue', a, "COMM") = old \cup {b}
    BY <1>1, <1>5 DEF InState
  <2>3. Cardinality(old \cup {b}) = Cardinality(old) + 1
    BY <2>1, Finite, FS_AddElement
  <2>4. sendBufs'[a] = sendBufs[a] + 1 /\ sendBufs[a] = Cardinality(old)
    BY <1>1 DEF BasicInv, TypeOK, OwnInv, LeakOf
  <2> QED  BY <2>2, <2>3, <2>4 DEF LeakOf, InState
<1> QED  BY <1>1, <1>3, <1>4, <1>6, <1>7 DEF OwnStep, OwnInv, RoomOf

(* Polling gives back the buffers of the messages that are done. *)
LEMMA PollOwn ==
  ASSUME BasicInv, NEW a \in Proc, NEW copied \in SUBSET InState(sendQueue, a, "COMM"),
         pc[a] # "nomem", PollRecv(a), PollSend(a, copied),
         UNCHANGED <<abstractVars, pc, recvBuf, sent, posted>>
  PROVE  OwnStep(a)
<1> DEFINE comm == InState(sendQueue, a, "COMM")
           done == {q \in comm : q \in copied \/ arrived[a][q] = Len(sent[a][q])}
           kept == InState(sendQueue, a, "ALLOCATED") \cup comm
<1>1. /\ sendQueue' = [sendQueue EXCEPT ![a] = [q \in Proc |-> IF q \in done THEN "READY" ELSE @[q]]]
      /\ sendBufs' = [sendBufs EXCEPT ![a] = @ - Cardinality(done)]
      /\ arrived' = [q \in Proc |-> [arrived[q] EXCEPT ![a] = Matched(q, a)]]
      /\ recvQueue' = [recvQueue EXCEPT ![a] = [q \in Proc |->
            IF @[q] = "COMM" /\ arrived'[q][a] = Len(posted[a][q]) THEN "READY" ELSE @[q]]]
  BY DEF PollSend, PollRecv
<1>2. CallInv'
  BY DEF BasicInv, CallInv, Phase, Good, abstractVars
<1>3. done \subseteq comm /\ comm \in SUBSET Proc /\ kept \in SUBSET Proc /\ done \in SUBSET kept
  BY DEF InState
<1>4. /\ \A q \in done : sendQueue'[a][q] = "READY" /\ sendQueue[a][q] = "COMM"
      /\ \A q \in Proc \ done : sendQueue'[a][q] = sendQueue[a][q]
  <2> HIDE DEF done
  <2>1. \A q \in Proc : sendQueue'[a][q] = IF q \in done THEN "READY" ELSE sendQueue[a][q]
    BY <1>1 DEF BasicInv, TypeOK
  <2> QED  BY <1>3, <2>1 DEF InState
<1>5. \A q \in Proc : QueueOf(a, q)'
  <2> HIDE DEF done
  <2> QED  BY <1>4 DEF BasicInv, OwnInv, QueueOf, Phase, abstractVars
<1>6. /\ Cardinality(kept \ done) = Cardinality(kept) - Cardinality(done)
      /\ Cardinality(kept \ done) \in Nat /\ Cardinality(done) \in Nat
  <2> HIDE DEF done, kept
  <2>1. kept \cap done = done
    BY <1>3
  <2>2. Cardinality(kept \ done) = Cardinality(kept) - Cardinality(kept \cap done)
    BY <1>3, Finite, FS_Difference
  <2>3. kept \ done \in SUBSET Proc /\ done \in SUBSET Proc
    BY <1>3
  <2> QED  BY <2>1, <2>2, <2>3, Finite
<1>7. sendBufs[a] = Cardinality(kept)
  BY DEF BasicInv, OwnInv, LeakOf
<1>8. sendBufs'[a] = Cardinality(kept \ done)
  <2> HIDE DEF done, kept
  <2> QED  BY <1>1, <1>6, <1>7 DEF BasicInv, TypeOK
<1>9. LeakOf(a)'
  <2>1. InState(sendQueue', a, "ALLOCATED") \cup InState(sendQueue', a, "COMM") = kept \ done
    <3> HIDE DEF done
    <3> QED  BY <1>3, <1>4 DEF InState
  <2> QED  BY <1>8, <2>1 DEF LeakOf, InState
<1>10. TypeOK'
  <2> HIDE DEF done, kept
  <2>1. \A p \in Proc : sendBufs[p] \in Nat /\ Room[p] \in Nat /\ sendBufs[p] <= Room[p]
    BY RoomAssumption DEF BasicInv, TypeOK
  <2>2. sendBufs' \in [Proc -> Nat] /\ \A p \in Proc : sendBufs'[p] <= Room[p]
    <3>1. sendBufs'[a] \in Nat /\ sendBufs'[a] <= Room[a]
      BY <1>6, <1>7, <1>8, <2>1
    <3> QED  BY <1>1, <2>1, <3>1 DEF BasicInv, TypeOK
  <2>3. sendQueue' \in [Proc -> [Proc -> MsgState]]
    BY <1>1 DEF BasicInv, TypeOK, MsgState
  <2>4. recvQueue' \in [Proc -> [Proc -> {"none", "COMM", "READY"}]]
    BY <1>1 DEF BasicInv, TypeOK
  <2>5. \A q \in Proc : Matched(q, a) \in Nat
    BY DEF BasicInv, TypeOK, Matched
  <2>6. arrived' \in [Proc -> [Proc -> Nat]]
    BY <1>1, <2>5 DEF BasicInv, TypeOK
  <2> QED  BY <2>2, <2>3, <2>4, <2>6 DEF BasicInv, TypeOK
<1>11. RoomOf(a)'
  BY DEF RoomOf
<1> QED  BY <1>2, <1>5, <1>9, <1>10, <1>11 DEF OwnStep, OwnInv

(* A processor that gives up in a late phase has sent all it could, and got  *)
(* all its buffers back: there was none.                                     *)
LEMMA GiveUpOwn ==
  ASSUME BasicInv, NEW a \in Proc, GiveUp(a)
  PROVE  OwnStep(a)
<1>1. /\ Allocating(a) /\ ~(sendBufs[a] < Room[a]) /\ InState(sendQueue, a, "COMM") = {}
      /\ UNCHANGED <<abstractVars, sendBufs, sent, posted, arrived>>
  BY DEF GiveUp, HasRoom
<1>2. CASE IsLate(a)
  <2>1. /\ Goto(a, "nomem") /\ pc' = [pc EXCEPT ![a] = "nomem"]
        /\ sendQueue' = [sendQueue EXCEPT ![a] = NoMsgs]
        /\ recvQueue' = [recvQueue EXCEPT ![a] = NoMsgs]
        /\ recvBuf' = [recvBuf EXCEPT ![a] = 0]
        /\ pc[a] = "pack" /\ Phase(a) \in LatePhases
    BY <1>1, <1>2 DEF GiveUp, Cleanup, Goto, Allocating, IsLate
  <2>2. TypeOK'
    BY <1>1, <2>1, PhasesAssumption DEF BasicInv, TypeOK, MsgState, NoMsgs
  <2>3. CallInv'
    BY <1>1, <2>1, RestKeepsCallInv DEF BasicInv
  <2>4. pc'[a] = "nomem" /\ \A q \in Proc : sendQueue'[a][q] = "none"
    BY <2>1 DEF BasicInv, TypeOK, NoMsgs
  <2>5. Room[a] = 0
    <3>1. InState(sendQueue, a, "ALLOCATED") \cup InState(sendQueue, a, "COMM") = {}
      BY <1>1, <2>1 DEF BasicInv, OwnInv, QueueOf, InState
    <3>2. sendBufs[a] = 0
      BY <2>1, <3>1, FS_EmptySet DEF BasicInv, OwnInv, LeakOf
    <3> QED  BY <1>1, <3>2, RoomAssumption
  <2> QED  BY <2>2, <2>3, <2>4, <2>5 DEF OwnStep, OwnInv, QueueOf, LeakOf, RoomOf
<1>3. CASE ~IsLate(a)
  <2>1. /\ Goto(a, "thrown") /\ pc' = [pc EXCEPT ![a] = "thrown"] /\ pc[a] = "prepare"
        /\ UNCHANGED <<sendQueue, recvQueue, recvBuf>>
    BY <1>1, <1>3 DEF GiveUp, Goto, Allocating
  <2>2. TypeOK'
    BY <1>1, <2>1 DEF BasicInv, TypeOK
  <2>3. CallInv'
    BY <1>1, <2>1, RestKeepsCallInv DEF BasicInv
  <2>4. pc'[a] = "thrown"
    BY <2>1 DEF BasicInv, TypeOK
  <2>5. LeakOf(a)'
    BY <1>1, <2>1 DEF BasicInv, OwnInv, LeakOf, InState
  <2> QED  BY <2>2, <2>3, <2>4, <2>5 DEF OwnStep, OwnInv, QueueOf, RoomOf
<1> QED  BY <1>2, <1>3

LEMMA StartCommunicateOwn ==
  ASSUME BasicInv, NEW a \in Proc, StartCommunicate(a)
  PROVE  OwnStep(a)
<1> DEFINE alloc == InState(sendQueue, a, "ALLOCATED")
<1>1. /\ pc[a] = "pack" /\ ~Allocating(a) /\ Goto(a, "communicate") /\ pc' = [pc EXCEPT ![a] = "communicate"]
      /\ sendQueue' = [sendQueue EXCEPT ![a] = [q \in Proc |-> IF q \in alloc THEN "COMM" ELSE @[q]]]
      /\ sent' = Appended(sent, a, alloc)
      /\ UNCHANGED <<abstractVars, recvQueue, sendBufs, recvBuf, posted, arrived>>
  BY DEF StartCommunicate, Send, Goto, Appended
<1>2. Phase(a) \in 1 .. MaxCalls /\ sent \in [Proc -> [Proc -> Seq(1 .. MaxCalls)]]
  BY <1>1, PhasesAssumption DEF BasicInv, CallInv, TypeOK, Phase
<1>3. \A q \in Proc : sendQueue'[a][q] = IF q \in alloc THEN "COMM" ELSE sendQueue[a][q]
  BY <1>1 DEF BasicInv, TypeOK
<1>4. TypeOK'
  <2>1. sendQueue' \in [Proc -> [Proc -> MsgState]]
    BY <1>1 DEF BasicInv, TypeOK, MsgState
  <2>2. sent' \in [Proc -> [Proc -> Seq(1 .. MaxCalls)]]
    <3> HIDE DEF alloc
    <3> QED  BY <1>1, <1>2, AppendType
  <2> QED  BY <1>1, <2>1, <2>2 DEF BasicInv, TypeOK
<1>5. CallInv'
  BY <1>1, RestKeepsCallInv DEF BasicInv
<1>6. pc'[a] = "communicate"
  BY <1>1 DEF BasicInv, TypeOK
<1>7. ASSUME NEW q \in Proc PROVE QueueOf(a, q)'
  <2>1. sendQueue[a][q] # "FREEZED"
    <3>1. CASE Phase(a) \in LatePhases
      BY <1>1, <3>1 DEF Allocating, IsLate, InState
    <3>2. CASE Phase(a) \notin LatePhases
      BY <1>1, <3>2 DEF BasicInv, OwnInv, QueueOf
    <3> QED  BY <3>1, <3>2
  <2> QED  BY <1>1, <1>3, <1>6, <2>1 DEF BasicInv, OwnInv, QueueOf, InState, Phase, abstractVars
<1>8. LeakOf(a)'
  <2>1. InState(sendQueue', a, "ALLOCATED") \cup InState(sendQueue', a, "COMM")
           = InState(sendQueue, a, "ALLOCATED") \cup InState(sendQueue, a, "COMM")
    BY <1>3 DEF InState
  <2> QED  BY <1>1, <2>1 DEF BasicInv, OwnInv, LeakOf, InState
<1> QED  BY <1>4, <1>5, <1>6, <1>7, <1>8 DEF OwnStep, OwnInv, RoomOf

LEMMA FinishOwn ==
  ASSUME BasicInv, NEW a \in Proc, Finish(a)
  PROVE  OwnStep(a)
<1>1. /\ pc[a] = "communicate" /\ ~InComm(a) /\ Goto(a, "idle") /\ pc' = [pc EXCEPT ![a] = "idle"]
      /\ sendQueue' = [sendQueue EXCEPT ![a] = NoMsgs]
      /\ recvQueue' = [recvQueue EXCEPT ![a] = NoMsgs]
      /\ recvBuf' = [recvBuf EXCEPT ![a] = 0]
      /\ UNCHANGED <<abstractVars, sendBufs, sent, posted, arrived>>
  BY DEF Finish, Goto, Cleanup
<1>2. TypeOK'
  BY <1>1, PhasesAssumption DEF BasicInv, TypeOK, MsgState, NoMsgs
<1>3. CallInv'
  BY <1>1, RestKeepsCallInv DEF BasicInv
<1>4. pc'[a] = "idle" /\ \A q \in Proc : sendQueue'[a][q] = "none"
  BY <1>1 DEF BasicInv, TypeOK, NoMsgs
<1>5. LeakOf(a)'
  <2>1. InState(sendQueue, a, "ALLOCATED") \cup InState(sendQueue, a, "COMM") = {}
    BY <1>1 DEF BasicInv, OwnInv, QueueOf, InState, InComm
  <2>2. InState(sendQueue', a, "ALLOCATED") \cup InState(sendQueue', a, "COMM") = {}
    BY <1>4 DEF InState
  <2> QED  BY <1>1, <2>1, <2>2 DEF BasicInv, OwnInv, LeakOf, InState
<1> QED  BY <1>2, <1>3, <1>4, <1>5 DEF OwnStep, OwnInv, QueueOf, RoomOf

LEMMA BasicStep ==
  ASSUME BasicInv, NEW a \in Proc, ProcStep(a)
  PROVE  BasicInv'
<1>1. OwnStep(a)
  <2>1. ASSUME NEW copied \in SUBSET InState(sendQueue, a, "COMM"), Step(a, copied)
        PROVE  OwnStep(a)
    <3>1. CASE RetryAlloc(a, copied)
      BY <2>1, <3>1, PollOwn DEF RetryAlloc, Allocating
    <3>2. CASE LC_Communicate(a, copied)
      BY <2>1, <3>2, PollOwn DEF LC_Communicate
    <3> QED  BY <2>1, <3>1, <3>2, PrepareSendOwn, PackMsgOwn, LC_ConnectOwn, ConnectFailsOwn, ConnectedOwn,
                PrepareRecvFailsOwn, GiveUpOwn, StartCommunicateOwn, FinishOwn DEF Step
  <2> QED  BY <2>1, NewSendMsgsOwn, LC_AbortOwn DEF ProcStep
<1>2. \A p \in Proc : p # a => Kept(p)
  BY OthersKept DEF BasicInv
<1>3. \A p \in Proc : OwnInv(p)'
  BY <1>1, <1>2, KeptOwnInv DEF BasicInv, OwnStep
<1> QED  BY <1>1, <1>3 DEF BasicInv, OwnStep
-------------------------------------------------------------------------------
(* The sends and the receives. *)

LEMMA AppendStream ==
  ASSUME NEW s \in Seq(1 .. MaxCalls), NEW t, NEW k \in Nat,
         Len(t) = Len(s) + 1, t[Len(s) + 1] = k, \A i \in 1 .. Len(s) : t[i] = s[i],
         Increasing(s), \A i \in 1 .. Len(s) : s[i] < k
  PROVE  /\ Increasing(t)
         /\ \A j : Occurs(j, t) <=> Occurs(j, s) \/ j = k
<1>1. Len(s) \in Nat
  OBVIOUS
<1>2. \A i \in 1 .. Len(t) : i \in 1 .. Len(s) \/ i = Len(s) + 1
  BY <1>1
<1>3. Increasing(t)
  <2>1. ASSUME NEW i \in 1 .. Len(t), NEW j \in 1 .. Len(t), i < j PROVE t[i] < t[j]
    <3>1. i \in 1 .. Len(s)
      BY <1>1, <1>2, <2>1
    <3>2. CASE j \in 1 .. Len(s)
      BY <2>1, <3>1, <3>2 DEF Increasing
    <3>3. CASE j = Len(s) + 1
      BY <3>1, <3>3
    <3> QED  BY <1>2, <3>2, <3>3
  <2> QED  BY <2>1 DEF Increasing
<1>4. ASSUME NEW j PROVE Occurs(j, t) <=> Occurs(j, s) \/ j = k
  <2>1. ASSUME Occurs(j, t) PROVE Occurs(j, s) \/ j = k
    BY <1>2, <2>1 DEF Occurs
  <2>2. ASSUME Occurs(j, s) PROVE Occurs(j, t)
    <3>1. PICK i \in 1 .. Len(s) : s[i] = j
      BY <2>2 DEF Occurs
    <3>2. i \in 1 .. Len(t) /\ t[i] = j
      BY <1>1, <3>1
    <3> QED  BY <3>2 DEF Occurs
  <2>3. Occurs(k, t)
    <3>1. Len(s) + 1 \in 1 .. Len(t)
      BY <1>1
    <3> QED  BY <3>1 DEF Occurs
  <2> QED  BY <2>1, <2>2, <2>3
<1> QED  BY <1>3, <1>4

(* A phase later than all before is added to a row. *)
LEMMA AppendedRow ==
  ASSUME NEW f \in [Proc -> [Proc -> Seq(1 .. MaxCalls)]], NEW a \in Proc, NEW S, NEW q \in Proc,
         Phase(a) \in 1 .. MaxCalls
  PROVE  /\ q \notin S => Appended(f, a, S)[a][q] = f[a][q]
         /\ q \in S /\ Increasing(f[a][q]) /\ (\A i \in 1 .. Len(f[a][q]) : f[a][q][i] < Phase(a)) =>
               /\ Increasing(Appended(f, a, S)[a][q])
               /\ \A j : Occurs(j, Appended(f, a, S)[a][q]) <=> Occurs(j, f[a][q]) \/ j = Phase(a)
<1> DEFINE s == f[a][q]
           t == Appended(f, a, S)[a][q]
<1>1. \A b \in Proc : f[a][b] \in Seq(1 .. MaxCalls) /\ Append(f[a][b], Phase(a)) \in Seq(1 .. MaxCalls)
  OBVIOUS
<1>2. t = IF q \in S THEN Append(s, Phase(a)) ELSE s
  BY <1>1 DEF Appended
<1>3. CASE q \in S
  <2>1. s \in Seq(1 .. MaxCalls) /\ Phase(a) \in Nat /\ t = Append(s, Phase(a))
    BY <1>2, <1>3
  <2>2. /\ Len(t) = Len(s) + 1 /\ t[Len(s) + 1] = Phase(a)
        /\ \A i \in 1 .. Len(s) : t[i] = s[i]
    <3> HIDE DEF s, t
    <3> QED  BY <2>1
  <2>3. ASSUME Increasing(s), \A i \in 1 .. Len(s) : s[i] < Phase(a)
        PROVE  Increasing(t) /\ \A j : Occurs(j, t) <=> Occurs(j, s) \/ j = Phase(a)
    <3> HIDE DEF s, t
    <3> QED  BY <2>1, <2>2, <2>3, AppendStream
  <2> QED  BY <1>3, <2>3
<1>4. CASE q \notin S
  BY <1>2, <1>4
<1> QED  BY <1>3, <1>4

LEMMA KeptSent ==
  ASSUME NEW p \in Proc, NEW q \in Proc, SentInv(p, q), Announced(p, q)' = Announced(p, q), Kept(p)
  PROVE  SentInv(p, q)'
BY DEF SentInv, Kept, Phase, Increasing, Occurs

LEMMA KeptPosted ==
  ASSUME NEW p \in Proc, NEW q \in Proc, PostedInv(p, q), Announced(p, q)' = Announced(p, q), Kept(q)
  PROVE  PostedInv(p, q)'
BY DEF PostedInv, Kept, Phase, Increasing, Occurs

LEMMA CallStream ==
  ASSUME BasicInv, StreamInv, NEW a \in Proc, NEW c \in CallRec, Call(a, c), pc[a] \in {"idle", "prepare"},
         Goto(a, "connect"), UNCHANGED <<sendQueue, sent, posted>>
  PROVE  StreamInv'
<1> SUFFICES ASSUME NEW p \in Proc, NEW q \in Proc PROVE SentInv(p, q)' /\ PostedInv(p, q)'
  BY DEF StreamInv
<1>1. /\ Announced(p, q) \subseteq Announced(p, q)'
      /\ \A k \in Announced(p, q)' : k \notin Announced(p, q) =>
            \A r \in Proc : k = Len(calls'[r]) /\ pc'[r] = "connect"
  BY CallAnnounces DEF BasicInv
<1>2. \A r \in Proc : /\ Len(calls[r]) \in Nat
                      /\ r = a => Len(calls'[r]) = Len(calls[r]) + 1 /\ pc'[r] = "connect"
                      /\ r # a => Len(calls'[r]) = Len(calls[r]) /\ pc'[r] = pc[r]
  <2>1. pc' = [pc EXCEPT ![a] = "connect"] /\ calls \in [Proc -> Seq(CallRec)]
    BY DEF Goto, BasicInv, CallInv
  <2> QED  BY <2>1, OldCalls DEF BasicInv, TypeOK
<1>3. SentInv(p, q) /\ PostedInv(p, q)
  BY DEF StreamInv
<1>4. \A k \in Announced(p, q) : k \in Nat /\ k <= Len(calls[p]) /\ k <= Len(calls[q])
  BY AnnouncedType DEF BasicInv, Phase
<1>5. ASSUME NEW k \in Announced(p, q)'
      PROVE  /\ k < Len(calls'[p]) => Occurs(k, sent[p][q])
             /\ k = Len(calls'[p]) /\ pc'[p] \in {"idle", "prepare", "thrown", "communicate"} =>
                   Occurs(k, sent[p][q])
             /\ k = Len(calls'[p]) /\ pc'[p] \in {"connect", "exited"} => ~Occurs(k, sent[p][q])
             /\ k = Len(calls'[p]) /\ pc'[p] = "pack" =>
                   (Occurs(k, sent[p][q]) <=> sendQueue[p][q] \in {"COMM", "READY"})
  <2>1. CASE k \in Announced(p, q) /\ p = a
    <3>1. k \in Nat /\ k <= Len(calls[p]) /\ Len(calls'[p]) = Len(calls[p]) + 1 /\ Len(calls[p]) \in Nat
      BY <1>2, <1>4, <2>1
    <3>2. Occurs(k, sent[p][q])
      <4>1. k < Len(calls[p]) \/ k = Len(calls[p])
        BY <3>1
      <4> QED  BY <1>3, <2>1, <4>1 DEF SentInv, Phase
    <3> QED  BY <1>2, <2>1, <3>1, <3>2
  <2>2. CASE k \in Announced(p, q) /\ p # a
    BY <1>2, <1>3, <2>2 DEF SentInv, Phase
  <2>3. CASE k \notin Announced(p, q)
    <3>1. k = Len(calls'[p]) /\ pc'[p] = "connect" /\ ~(k < Len(calls'[p]))
      BY <1>1, <1>2, <2>3
    <3>2. ~Occurs(k, sent[p][q])
      BY <1>3, <2>3 DEF SentInv, Occurs
    <3> QED  BY <3>1, <3>2
  <2> QED  BY <2>1, <2>2, <2>3
<1>6. SentInv(p, q)'
  <2>1. Increasing(sent[p][q]) /\ \A i \in 1 .. Len(sent[p][q]) : sent[p][q][i] \in Announced(p, q)'
    BY <1>1, <1>3 DEF SentInv
  <2> QED  BY <1>5, <2>1 DEF SentInv, Phase, Increasing, Occurs
<1>7. ASSUME NEW k \in Announced(p, q)'
      PROVE  /\ k < Len(calls'[q]) => Occurs(k, posted[q][p])
             /\ k = Len(calls'[q]) => (Occurs(k, posted[q][p]) <=> pc'[q] \notin {"connect", "exited"})
  <2>1. CASE k \in Announced(p, q) /\ q = a
    <3>1. k \in Nat /\ k <= Len(calls[q]) /\ Len(calls'[q]) = Len(calls[q]) + 1 /\ Len(calls[q]) \in Nat
      BY <1>2, <1>4, <2>1
    <3>2. Occurs(k, posted[q][p])
      <4>1. k < Len(calls[q]) \/ k = Len(calls[q])
        BY <3>1
      <4> QED  BY <1>3, <2>1, <4>1 DEF PostedInv, Phase
    <3> QED  BY <1>2, <2>1, <3>1, <3>2
  <2>2. CASE k \in Announced(p, q) /\ q # a
    BY <1>2, <1>3, <2>2 DEF PostedInv, Phase
  <2>3. CASE k \notin Announced(p, q)
    <3>1. k = Len(calls'[q]) /\ pc'[q] = "connect" /\ ~(k < Len(calls'[q]))
      BY <1>1, <1>2, <2>3
    <3>2. ~Occurs(k, posted[q][p])
      BY <1>3, <2>3 DEF PostedInv, Occurs
    <3> QED  BY <3>1, <3>2
  <2> QED  BY <2>1, <2>2, <2>3
<1>8. PostedInv(p, q)'
  <2>1. Increasing(posted[q][p]) /\ \A i \in 1 .. Len(posted[q][p]) : posted[q][p][i] \in Announced(p, q)'
    BY <1>1, <1>3 DEF PostedInv
  <2> QED  BY <1>7, <2>1 DEF PostedInv, Phase, Increasing, Occurs
<1> QED  BY <1>6, <1>8

(* For the other steps the streams of the processor that takes it are looked *)
(* at.                                                                       *)
LEMMA OwnStream ==
  ASSUME BasicInv, StreamInv, NEW a \in Proc, \A p \in Proc : p # a => Kept(p), calls' = calls,
         \A q \in Proc : SentInv(a, q)' /\ PostedInv(q, a)'
  PROVE  StreamInv'
<1> SUFFICES ASSUME NEW p \in Proc, NEW q \in Proc PROVE SentInv(p, q)' /\ PostedInv(p, q)'
  BY DEF StreamInv
<1>1. Announced(p, q)' = Announced(p, q)
  BY SameAnnounced
<1>2. SentInv(p, q) /\ PostedInv(p, q)
  BY DEF StreamInv
<1>3. SentInv(p, q)'
  BY <1>1, <1>2, KeptSent
<1>4. PostedInv(p, q)'
  BY <1>1, <1>2, KeptPosted
<1> QED  BY <1>3, <1>4

LEMMA SilentSent ==
  ASSUME NEW a \in Proc, NEW q \in Proc, SentInv(a, q), calls' = calls, sent'[a] = sent[a],
         \/ pc'[a] = pc[a] /\ (sendQueue'[a][q] \in {"COMM", "READY"} <=> sendQueue[a][q] \in {"COMM", "READY"})
         \/ {pc[a], pc'[a]} \subseteq {"idle", "prepare", "thrown", "communicate"}
         \/ pc[a] = "connect" /\ (pc'[a] = "exited" \/ ~Good(Phase(a)))
         \/ pc[a] = "pack" /\ pc'[a] = "nomem"
         \/ pc[a] = "connect" /\ pc'[a] = "pack" /\ sendQueue'[a][q] \notin {"COMM", "READY"}
  PROVE  SentInv(a, q)'
<1>1. Announced(a, q)' = Announced(a, q) /\ Phase(a)' = Phase(a)
  BY SameAnnounced DEF Phase
<1>2. ASSUME NEW k \in Announced(a, q), k = Phase(a)
      PROVE  /\ pc'[a] \in {"idle", "prepare", "thrown", "communicate"} => Occurs(k, sent[a][q])
             /\ pc'[a] \in {"connect", "exited"} => ~Occurs(k, sent[a][q])
             /\ pc'[a] = "pack" => (Occurs(k, sent[a][q]) <=> sendQueue'[a][q] \in {"COMM", "READY"})
  <2>1. Good(k)
    BY DEF Announced
  <2> QED  BY <1>2, <2>1 DEF SentInv
<1> QED  BY <1>1, <1>2 DEF SentInv, Increasing, Occurs

LEMMA SilentPosted ==
  ASSUME NEW a \in Proc, NEW p \in Proc, PostedInv(p, a), calls' = calls, posted'[a] = posted[a],
         \/ pc[a] \in {"connect", "exited"} <=> pc'[a] \in {"connect", "exited"}
         \/ ~Good(Phase(a))
  PROVE  PostedInv(p, a)'
<1>1. Announced(p, a)' = Announced(p, a) /\ Phase(a)' = Phase(a)
  BY SameAnnounced DEF Phase
<1>2. ASSUME NEW k \in Announced(p, a), k = Phase(a)
      PROVE  Occurs(k, posted[a][p]) <=> pc'[a] \notin {"connect", "exited"}
  <2>1. Good(k)
    BY DEF Announced
  <2> QED  BY <1>2, <2>1 DEF PostedInv
<1> QED  BY <1>1, <1>2 DEF PostedInv, Increasing, Occurs

(* A message that is sent is announced and was not sent before.              *)
LEMMA SendStream ==
  ASSUME BasicInv, StreamInv, NEW a \in Proc, NEW q \in Proc, NEW S \in SUBSET Proc, calls' = calls,
         pc[a] = "pack", pc'[a] \in {"pack", "communicate"}, sent' = Appended(sent, a, S),
         \A b \in S : sendQueue[a][b] \notin {"none", "COMM", "READY"} /\ sendQueue'[a][b] \in {"COMM", "READY"},
         \A b \in Proc \ S : sendQueue'[a][b] = sendQueue[a][b],
         pc'[a] = "communicate" => \A b \in Proc \ S : sendQueue[a][b] \in {"none", "COMM", "READY"}
  PROVE  SentInv(a, q)'
<1> DEFINE k == Phase(a)
<1>1. /\ sent \in [Proc -> [Proc -> Seq(1 .. MaxCalls)]] /\ k \in 1 .. MaxCalls /\ Good(k)
      /\ sendQueue[a][q] # "none" <=> q \in calls[a][k].dests
  BY PhasesAssumption DEF BasicInv, TypeOK, CallInv, OwnInv, QueueOf, Phase
<1>2. Announced(a, q)' = Announced(a, q) /\ Phase(a)' = Phase(a) /\ SentInv(a, q)
  BY SameAnnounced DEF Phase, StreamInv
<1>3. k \in Announced(a, q) <=> sendQueue[a][q] # "none"
  BY <1>1 DEF Announced
<1>4. k \in Announced(a, q) => (Occurs(k, sent[a][q]) <=> sendQueue[a][q] \in {"COMM", "READY"})
  BY <1>2 DEF SentInv
<1>7. /\ q \notin S => sent'[a][q] = sent[a][q]
      /\ q \in S /\ Increasing(sent[a][q]) /\ (\A i \in 1 .. Len(sent[a][q]) : sent[a][q][i] < k) =>
            /\ Increasing(sent'[a][q])
            /\ \A j : Occurs(j, sent'[a][q]) <=> Occurs(j, sent[a][q]) \/ j = k
  <2>1. sent' = Appended(sent, a, S)
    BY <1>1
  <2> DEFINE t == Appended(sent, a, S)[a][q]
             r == sent[a][q]
  <2>2. /\ q \notin S => t = r
        /\ q \in S /\ Increasing(r) /\ (\A i \in 1 .. Len(r) : r[i] < k) =>
              /\ Increasing(t)
              /\ \A j : Occurs(j, t) <=> Occurs(j, r) \/ j = k
    BY <1>1, AppendedRow
  <2>3. sent'[a][q] = t
    BY <2>1
  <2> QED  BY <2>2, <2>3
<1>5. CASE q \in S
  <2>1. k \in Announced(a, q) /\ ~Occurs(k, sent[a][q])
    BY <1>3, <1>4, <1>5
  <2>4. \A i \in 1 .. Len(sent[a][q]) : sent[a][q][i] < k
    <3> SUFFICES ASSUME NEW i \in 1 .. Len(sent[a][q]) PROVE sent[a][q][i] < k
      OBVIOUS
    <3>1. sent[a][q][i] \in Announced(a, q) /\ sent[a][q][i] # k
      BY <1>2, <2>1 DEF SentInv, Occurs
    <3>2. sent[a][q][i] \in Nat /\ sent[a][q][i] <= k /\ k \in Nat
      BY <3>1, AnnouncedType DEF BasicInv
    <3> QED  BY <3>1, <3>2
  <2>5. /\ Increasing(sent'[a][q])
        /\ \A j : Occurs(j, sent'[a][q]) <=> Occurs(j, sent[a][q]) \/ j = k
    BY <1>2, <1>5, <1>7, <2>4 DEF SentInv
  <2>6. \A i \in 1 .. Len(sent'[a][q]) : sent'[a][q][i] \in Announced(a, q)
    <3> SUFFICES ASSUME NEW i \in 1 .. Len(sent'[a][q]) PROVE sent'[a][q][i] \in Announced(a, q)
      OBVIOUS
    <3>1. Occurs(sent'[a][q][i], sent'[a][q])
      BY DEF Occurs
    <3>2. Occurs(sent'[a][q][i], sent[a][q]) \/ sent'[a][q][i] = k
      BY <2>5, <3>1
    <3> QED  BY <1>2, <2>1, <3>2 DEF SentInv, Occurs
  <2>7. sendQueue'[a][q] \in {"COMM", "READY"}
    BY <1>5
  <2>8. \A j \in Announced(a, q) : j < k => Occurs(j, sent[a][q])
    BY <1>2 DEF SentInv
  <2>9. \A j \in Announced(a, q) :
           /\ j < Phase(a)' => Occurs(j, sent'[a][q])
           /\ j = Phase(a)' => Occurs(j, sent'[a][q])
    BY <1>2, <2>5, <2>8
  <2> QED  BY <1>2, <2>5, <2>6, <2>7, <2>9 DEF SentInv, Increasing, Occurs
<1>6. CASE q \notin S
  <2>1. sent'[a][q] = sent[a][q] /\ sendQueue'[a][q] = sendQueue[a][q]
    BY <1>6, <1>7
  <2>2. ASSUME pc'[a] = "communicate", k \in Announced(a, q) PROVE Occurs(k, sent[a][q])
    <3>1. sendQueue[a][q] \in {"none", "COMM", "READY"}
      BY <1>6, <2>2
    <3> QED  BY <1>3, <1>4, <2>2, <3>1
  <2> QED  BY <1>2, <1>4, <2>1, <2>2 DEF SentInv, Increasing, Occurs
<1> QED  BY <1>5, <1>6

(* A receive is posted for each message that is announced. *)
LEMMA PostStream ==
  ASSUME BasicInv, StreamInv, NEW a \in Proc, NEW p \in Proc, Return(a), calls' = calls,
         pc[a] = "connect", pc'[a] = "pack", result'[a].exc = 0, posted' = Appended(posted, a, result'[a].senders)
  PROVE  PostedInv(p, a)'
<1> DEFINE k == Phase(a)
           S == {b \in Proc : a \in calls[b][k].dests}
<1>1. /\ posted \in [Proc -> [Proc -> Seq(1 .. MaxCalls)]] /\ k \in 1 .. MaxCalls /\ Good(k)
      /\ result'[a].senders = S
  BY ReturnResult DEF BasicInv, TypeOK
<1>2. Announced(p, a)' = Announced(p, a) /\ Phase(a)' = Phase(a) /\ PostedInv(p, a)
  BY SameAnnounced DEF Phase, StreamInv
<1>3. k \in Announced(p, a) <=> p \in S
  BY <1>1 DEF Announced
<1>4. k \in Announced(p, a) => ~Occurs(k, posted[a][p])
  BY <1>2 DEF PostedInv
<1>7. /\ p \notin S => posted'[a][p] = posted[a][p]
      /\ p \in S /\ Increasing(posted[a][p]) /\ (\A i \in 1 .. Len(posted[a][p]) : posted[a][p][i] < k) =>
            /\ Increasing(posted'[a][p])
            /\ \A j : Occurs(j, posted'[a][p]) <=> Occurs(j, posted[a][p]) \/ j = k
  <2> HIDE DEF S
  <2>1. posted' = Appended(posted, a, S)
    BY <1>1
  <2> DEFINE t == Appended(posted, a, S)[a][p]
             r == posted[a][p]
  <2>2. /\ p \notin S => t = r
        /\ p \in S /\ Increasing(r) /\ (\A i \in 1 .. Len(r) : r[i] < k) =>
              /\ Increasing(t)
              /\ \A j : Occurs(j, t) <=> Occurs(j, r) \/ j = k
    <3>1. posted \in [Proc -> [Proc -> Seq(1 .. MaxCalls)]] /\ Phase(a) \in 1 .. MaxCalls
      BY <1>1
    <3> QED  BY <3>1, AppendedRow
  <2>3. posted'[a][p] = t
    BY <2>1
  <2> QED  BY <2>2, <2>3
<1>5. CASE p \in S
  <2>1. k \in Announced(p, a) /\ ~Occurs(k, posted[a][p])
    BY <1>3, <1>4, <1>5
  <2>4. \A i \in 1 .. Len(posted[a][p]) : posted[a][p][i] < k
    <3> SUFFICES ASSUME NEW i \in 1 .. Len(posted[a][p]) PROVE posted[a][p][i] < k
      OBVIOUS
    <3>1. posted[a][p][i] \in Announced(p, a) /\ posted[a][p][i] # k
      BY <1>2, <2>1 DEF PostedInv, Occurs
    <3>2. posted[a][p][i] \in Nat /\ posted[a][p][i] <= k /\ k \in Nat
      BY <3>1, AnnouncedType DEF BasicInv
    <3> QED  BY <3>1, <3>2
  <2>5. /\ Increasing(posted'[a][p])
        /\ \A j : Occurs(j, posted'[a][p]) <=> Occurs(j, posted[a][p]) \/ j = k
    BY <1>2, <1>5, <1>7, <2>4 DEF PostedInv
  <2>6. \A i \in 1 .. Len(posted'[a][p]) : posted'[a][p][i] \in Announced(p, a)
    <3> SUFFICES ASSUME NEW i \in 1 .. Len(posted'[a][p]) PROVE posted'[a][p][i] \in Announced(p, a)
      OBVIOUS
    <3>1. Occurs(posted'[a][p][i], posted'[a][p])
      BY DEF Occurs
    <3>2. Occurs(posted'[a][p][i], posted[a][p]) \/ posted'[a][p][i] = k
      BY <2>5, <3>1
    <3> QED  BY <1>2, <2>1, <3>2 DEF PostedInv, Occurs
  <2>8. \A j \in Announced(p, a) : j < k => Occurs(j, posted[a][p])
    BY <1>2 DEF PostedInv
  <2>9. \A j \in Announced(p, a) :
           /\ j < Phase(a)' => Occurs(j, posted'[a][p])
           /\ j = Phase(a)' => Occurs(j, posted'[a][p])
    BY <1>2, <2>5, <2>8
  <2> QED  BY <1>2, <2>5, <2>6, <2>9 DEF PostedInv, Increasing, Occurs
<1>6. CASE p \notin S
  <2>1. posted'[a][p] = posted[a][p]
    BY <1>6, <1>7
  <2>2. k \notin Announced(p, a)
    BY <1>3, <1>6
  <2> QED  BY <1>2, <2>1, <2>2 DEF PostedInv, Increasing, Occurs
<1> QED  BY <1>5, <1>6

LEMMA SilentStream ==
  ASSUME BasicInv, StreamInv, NEW a \in Proc, \A p \in Proc : p # a => Kept(p),
         calls' = calls, sent' = sent, posted' = posted,
         \/ /\ pc'[a] = pc[a]
            /\ \A q \in Proc : sendQueue'[a][q] \in {"COMM", "READY"} <=> sendQueue[a][q] \in {"COMM", "READY"}
         \/ {pc[a], pc'[a]} \subseteq {"idle", "prepare", "thrown", "communicate"}
         \/ pc[a] = "connect" /\ (pc'[a] = "exited" \/ ~Good(Phase(a)))
         \/ pc[a] = "pack" /\ pc'[a] = "nomem"
  PROVE  StreamInv'
<1>1. ASSUME NEW q \in Proc PROVE SentInv(a, q)'
  BY SilentSent DEF StreamInv
<1>2. ASSUME NEW q \in Proc PROVE PostedInv(q, a)'
  BY SilentPosted DEF StreamInv
<1> QED  BY <1>1, <1>2, OwnStream

LEMMA StreamStep ==
  ASSUME BasicInv, StreamInv, NEW a \in Proc, ProcStep(a)
  PROVE  StreamInv'
<1>0. \A p \in Proc : p # a => Kept(p)
  BY OthersKept DEF BasicInv
<1>t. /\ pc \in [Proc -> {"idle", "prepare", "connect", "pack", "communicate", "thrown", "nomem", "exited"}]
      /\ sendQueue \in [Proc -> [Proc -> MsgState]]
  BY DEF BasicInv, TypeOK
<1>1. ASSUME NEW dests \in SUBSET (Proc \ {a}), NewSendMsgs(a, dests) PROVE StreamInv'
  <2>1. pc[a] = "idle" /\ pc'[a] = "prepare" /\ UNCHANGED <<calls, sent, posted>>
    BY <1>1, <1>t DEF NewSendMsgs, Goto, abstractVars
  <2> QED  BY <1>0, <2>1, SilentStream
<1>2. CASE LC_Abort(a)
  <2>1. PICK e \in Exceptions : Call(a, Raise(e))
    BY <1>2 DEF LC_Abort
  <2> QED  BY <1>2, <2>1, CallRecs, CallStream DEF LC_Abort
<1>3. ASSUME NEW b \in Proc, PrepareSend(a, b) PROVE StreamInv'
  <2>1. /\ pc'[a] = pc[a] /\ UNCHANGED <<calls, sent, posted>>
        /\ sendQueue[a][b] = "FREEZED" /\ sendQueue' = [sendQueue EXCEPT ![a][b] = "ALLOCATED"]
    BY <1>3 DEF PrepareSend, abstractVars
  <2>2. \A q \in Proc : sendQueue'[a][q] \in {"COMM", "READY"} <=> sendQueue[a][q] \in {"COMM", "READY"}
    BY <1>t, <2>1
  <2> QED  BY <1>0, <2>1, <2>2, SilentStream
<1>4. ASSUME NEW b \in Proc, PackMsg(a, b) PROVE StreamInv'
  <2>1. /\ pc[a] = "pack" /\ pc'[a] = "pack" /\ UNCHANGED <<calls, posted>>
        /\ sendQueue[a][b] = "FREEZED"
        /\ sendQueue' = [sendQueue EXCEPT ![a] = [q \in Proc |-> IF q \in {b} THEN "COMM" ELSE @[q]]]
        /\ sent' = Appended(sent, a, {b})
    BY <1>4, PackMsgOwn DEF PackMsg, Send, Appended, abstractVars
  <2>2. sendQueue'[a][b] = "COMM" /\ \A q \in Proc \ {b} : sendQueue'[a][q] = sendQueue[a][q]
    BY <1>t, <2>1
  <2>3. ASSUME NEW q \in Proc PROVE SentInv(a, q)'
    BY <2>1, <2>2, SendStream
  <2>4. ASSUME NEW q \in Proc PROVE PostedInv(q, a)'
    BY <2>1, SilentPosted DEF StreamInv
  <2> QED  BY <1>0, <2>1, <2>3, <2>4, OwnStream
<1>5. CASE LC_Connect(a)
  <2> DEFINE c == Announce({q \in Proc : sendQueue[a][q] # "none"})
  <2>1. c \in CallRec
    BY CallRecs
  <2>2. Call(a, c) /\ pc[a] \in {"idle", "prepare"} /\ Goto(a, "connect") /\ UNCHANGED <<sendQueue, sent, posted>>
    BY <1>5 DEF LC_Connect
  <2> HIDE DEF c
  <2> QED  BY <2>1, <2>2, CallStream
<1>6. CASE ConnectFails(a)
  <2>1. pc[a] = "connect" /\ ~Good(Phase(a))
    BY <1>6, ReturnResult DEF ConnectFails, BasicInv
  <2>2. UNCHANGED <<calls, sent, posted>> /\ pc'[a] = "idle"
    BY <1>6, <1>t DEF ConnectFails, Return, Goto
  <2> QED  BY <1>0, <2>1, <2>2, SilentStream
<1>7. CASE Connected(a)
  <2>1. /\ pc[a] = "connect" /\ pc'[a] = "pack" /\ UNCHANGED <<calls, sent, sendQueue>>
        /\ Return(a) /\ result'[a].exc = 0 /\ posted' = Appended(posted, a, result'[a].senders)
    BY <1>7, <1>t DEF Connected, Return, Goto, Appended
  <2>2. ASSUME NEW q \in Proc PROVE SentInv(a, q)'
    <3>1. sendQueue'[a][q] \notin {"COMM", "READY"}
      BY <2>1 DEF BasicInv, OwnInv, QueueOf
    <3> QED  BY <2>1, <3>1, SilentSent DEF StreamInv
  <2>3. ASSUME NEW q \in Proc PROVE PostedInv(q, a)'
    BY <2>1, PostStream
  <2> QED  BY <1>0, <2>1, <2>2, <2>3, OwnStream
<1>8. CASE PrepareRecvFails(a)
  <2>1. UNCHANGED <<calls, sent, posted>> /\ pc[a] = "connect" /\ pc'[a] = "exited"
    BY <1>8, <1>t DEF PrepareRecvFails, Return, Goto
  <2> QED  BY <1>0, <2>1, SilentStream
<1>9. ASSUME NEW copied, PollSend(a, copied), UNCHANGED <<abstractVars, pc, sent, posted>> PROVE StreamInv'
  <2> DEFINE done == {q \in InState(sendQueue, a, "COMM") : q \in copied \/ arrived[a][q] = Len(sent[a][q])}
  <2>1. /\ sendQueue' = [sendQueue EXCEPT ![a] = [q \in Proc |-> IF q \in done THEN "READY" ELSE @[q]]]
        /\ pc'[a] = pc[a] /\ UNCHANGED <<calls, sent, posted>>
    BY <1>9 DEF PollSend, abstractVars
  <2>2. \A q \in done : sendQueue[a][q] = "COMM"
    BY DEF InState
  <2>3. \A q \in Proc : sendQueue'[a][q] \in {"COMM", "READY"} <=> sendQueue[a][q] \in {"COMM", "READY"}
    <3> HIDE DEF done
    <3> QED  BY <1>t, <2>1, <2>2
  <2> QED  BY <1>0, <2>1, <2>3, SilentStream
<1>10. CASE GiveUp(a)
  <2>1. /\ UNCHANGED <<calls, sent, posted>>
        /\ \/ pc[a] = "pack" /\ pc'[a] = "nomem"
           \/ pc[a] = "prepare" /\ pc'[a] = "thrown"
    BY <1>10, <1>t DEF GiveUp, Allocating, IsLate, Goto, abstractVars
  <2> QED  BY <1>0, <2>1, SilentStream
<1>11. CASE StartCommunicate(a)
  <2> DEFINE S == InState(sendQueue, a, "ALLOCATED")
  <2>1. /\ pc[a] = "pack" /\ pc'[a] = "communicate" /\ UNCHANGED <<calls, posted>> /\ ~Allocating(a)
        /\ sendQueue' = [sendQueue EXCEPT ![a] = [q \in Proc |-> IF q \in S THEN "COMM" ELSE @[q]]]
        /\ sent' = Appended(sent, a, S)
    BY <1>11, <1>t DEF StartCommunicate, Send, Appended, abstractVars, Goto
  <2>2. \A q \in Proc : sendQueue'[a][q] = IF q \in S THEN "COMM" ELSE sendQueue[a][q]
    BY <1>t, <2>1
  <2>3. \A q \in Proc \ S : sendQueue[a][q] \in {"none", "COMM", "READY"}
    <3> SUFFICES ASSUME NEW q \in Proc \ S PROVE sendQueue[a][q] # "FREEZED" /\ sendQueue[a][q] # "ALLOCATED"
      BY <1>t DEF MsgState
    <3>1. CASE Phase(a) \in LatePhases
      BY <2>1, <3>1 DEF Allocating, IsLate, InState
    <3>2. CASE Phase(a) \notin LatePhases
      BY <2>1, <3>2 DEF BasicInv, OwnInv, QueueOf, InState
    <3> QED  BY <3>1, <3>2
  <2>4. S \in SUBSET Proc /\ \A b \in S : sendQueue[a][b] = "ALLOCATED" /\ sendQueue'[a][b] = "COMM"
    BY <2>2 DEF InState
  <2> HIDE DEF S
  <2>5. ASSUME NEW q \in Proc PROVE SentInv(a, q)'
    <3>1. /\ \A b \in S : sendQueue[a][b] \notin {"none", "COMM", "READY"} /\ sendQueue'[a][b] \in {"COMM", "READY"}
          /\ \A b \in Proc \ S : sendQueue'[a][b] = sendQueue[a][b]
      BY <2>2, <2>4
    <3>2. calls' = calls /\ pc'[a] \in {"pack", "communicate"}
      BY <2>1
    <3> QED  BY <2>1, <2>3, <2>4, <3>1, <3>2, SendStream
  <2>6. ASSUME NEW q \in Proc PROVE PostedInv(q, a)'
    BY <2>1, SilentPosted DEF StreamInv
  <2> QED  BY <1>0, <2>1, <2>5, <2>6, OwnStream
<1>12. CASE Finish(a)
  <2>1. UNCHANGED <<calls, sent, posted>> /\ pc[a] = "communicate" /\ pc'[a] = "idle"
    BY <1>12, <1>t DEF Finish, Goto, abstractVars
  <2> QED  BY <1>0, <2>1, SilentStream
<1>13. ASSUME NEW copied, RetryAlloc(a, copied) \/ LC_Communicate(a, copied) PROVE StreamInv'
  BY <1>9, <1>13 DEF RetryAlloc, LC_Communicate
<1> QED  BY <1>1, <1>2, <1>3, <1>4, <1>5, <1>6, <1>7, <1>8, <1>10, <1>11, <1>12, <1>13 DEF ProcStep, Step
-------------------------------------------------------------------------------
(* What has been received. *)

LEMMA StreamsGrow ==
  ASSUME BasicInv, NEW a \in Proc, ProcStep(a), NEW p \in Proc, NEW q \in Proc
  PROVE  /\ Len(sent[p][q]) \in Nat /\ Len(sent'[p][q]) \in Nat
         /\ Len(posted[p][q]) \in Nat /\ Len(posted'[p][q]) \in Nat
         /\ Len(sent[p][q]) <= Len(sent'[p][q]) /\ Len(posted[p][q]) <= Len(posted'[p][q])
<1>1. /\ sent[p][q] \in Seq(1 .. MaxCalls) /\ sent'[p][q] \in Seq(1 .. MaxCalls)
      /\ posted[p][q] \in Seq(1 .. MaxCalls) /\ posted'[p][q] \in Seq(1 .. MaxCalls)
  BY BasicStep DEF BasicInv, TypeOK
<1>2. /\ sent \in [Proc -> [Proc -> Seq(1 .. MaxCalls)]]
      /\ posted \in [Proc -> [Proc -> Seq(1 .. MaxCalls)]]
  BY DEF BasicInv, TypeOK
<1>3. ASSUME NEW f \in [Proc -> [Proc -> Seq(1 .. MaxCalls)]], NEW S
      PROVE  Appended(f, a, S)[p][q] = f[p][q] \/ Appended(f, a, S)[p][q] = Append(f[p][q], Phase(a))
  BY <1>3 DEF Appended
<1>4. /\ sent' = sent \/ \E S : sent' = Appended(sent, a, S)
      /\ posted' = posted \/ \E S : posted' = Appended(posted, a, S)
  BY DEF ProcStep, Step, NewSendMsgs, LC_Abort, PrepareSend, PackMsg, LC_Connect, ConnectFails, Connected,
         PrepareRecvFails, RetryAlloc, LC_Communicate, GiveUp, StartCommunicate, Finish, Send, Appended
<1>5. ASSUME NEW s \in Seq(1 .. MaxCalls)
      PROVE  Len(s) \in Nat /\ Len(Append(s, Phase(a))) = Len(s) + 1
  BY <1>5
<1>6. sent'[p][q] = sent[p][q] \/ sent'[p][q] = Append(sent[p][q], Phase(a))
  BY <1>2, <1>3, <1>4
<1>7. posted'[p][q] = posted[p][q] \/ posted'[p][q] = Append(posted[p][q], Phase(a))
  BY <1>2, <1>3, <1>4
<1>8. /\ Len(sent[p][q]) \in Nat /\ Len(sent'[p][q]) \in Nat
      /\ Len(posted[p][q]) \in Nat /\ Len(posted'[p][q]) \in Nat
  BY <1>1
<1>9. Len(sent'[p][q]) = Len(sent[p][q]) \/ Len(sent'[p][q]) = Len(sent[p][q]) + 1
  BY <1>1, <1>5, <1>6
<1>10. Len(posted'[p][q]) = Len(posted[p][q]) \/ Len(posted'[p][q]) = Len(posted[p][q]) + 1
  BY <1>1, <1>5, <1>7
<1> QED  BY <1>8, <1>9, <1>10

LEMMA MatchedGrows ==
  ASSUME BasicInv, NEW a \in Proc, ProcStep(a), NEW p \in Proc, NEW q \in Proc
  PROVE  /\ Matched(q, p) \in Nat /\ Matched(q, p)' \in Nat /\ Matched(q, p) <= Matched(q, p)'
         /\ Matched(q, p) <= Len(posted[p][q])
<1>1. /\ Len(sent[q][p]) \in Nat /\ Len(sent'[q][p]) \in Nat
      /\ Len(posted[p][q]) \in Nat /\ Len(posted'[p][q]) \in Nat
      /\ Len(sent[q][p]) <= Len(sent'[q][p]) /\ Len(posted[p][q]) <= Len(posted'[p][q])
  BY StreamsGrow
<1>2. ASSUME NEW s \in Nat, NEW r \in Nat, NEW s2 \in Nat, NEW r2 \in Nat, s <= s2, r <= r2
      PROVE  /\ (IF s < r THEN s ELSE r) \in Nat /\ (IF s2 < r2 THEN s2 ELSE r2) \in Nat
             /\ (IF s < r THEN s ELSE r) <= (IF s2 < r2 THEN s2 ELSE r2)
             /\ (IF s < r THEN s ELSE r) <= r
  BY <1>2
<1>3. /\ Matched(q, p) = IF Len(sent[q][p]) < Len(posted[p][q]) THEN Len(sent[q][p]) ELSE Len(posted[p][q])
      /\ Matched(q, p)' = IF Len(sent'[q][p]) < Len(posted'[p][q]) THEN Len(sent'[q][p]) ELSE Len(posted'[p][q])
  BY DEF Matched
<1> QED  BY <1>1, <1>2, <1>3

(* A receive is touched by the receiver only. *)
LEMMA OthersRecv ==
  ASSUME BasicInv, NEW a \in Proc, ProcStep(a), NEW p \in Proc, NEW q \in Proc, p # a, RecvOf(p, q)
  PROVE  RecvOf(p, q)'
<1>1. Kept(p)
  BY OthersKept DEF BasicInv
<1>2. arrived'[q][p] = arrived[q][p] /\ arrived[q][p] \in Nat
  <2>1. arrived \in [Proc -> [Proc -> Nat]]
    BY DEF BasicInv, TypeOK
  <2>2. arrived' = arrived \/ arrived' = [r \in Proc |-> [arrived[r] EXCEPT ![a] = Matched(r, a)]]
    BY DEF ProcStep, Step, NewSendMsgs, LC_Abort, PrepareSend, PackMsg, LC_Connect, ConnectFails, Connected,
           PrepareRecvFails, RetryAlloc, LC_Communicate, GiveUp, StartCommunicate, Finish, PollRecv
  <2> QED  BY <2>1, <2>2
<1>3. arrived'[q][p] <= Matched(q, p)'
  <2>1. Matched(q, p) \in Nat /\ Matched(q, p)' \in Nat /\ Matched(q, p) <= Matched(q, p)'
    BY MatchedGrows
  <2>2. arrived[q][p] <= Matched(q, p)
    BY DEF RecvOf
  <2> QED  BY <1>2, <2>1, <2>2
<1> QED  BY <1>1, <1>2, <1>3 DEF RecvOf, Kept, Phase, Gone

LEMMA NothingNewToReceive ==
  ASSUME BasicInv, NEW a \in Proc, ProcStep(a), NEW q \in Proc, RecvOf(a, q),
         arrived' = arrived, posted' = posted,
         \/ Gone(a)'
         \/ ~Gone(a) /\ pc[a] \notin {"pack", "communicate"}
         \/ ~Gone(a) /\ recvQueue[a][q] # "COMM"
         \/ /\ ~Gone(a) /\ pc'[a] \in {"pack", "communicate"} /\ calls' = calls
            /\ recvQueue' = recvQueue /\ recvBuf' = recvBuf
  PROVE  RecvOf(a, q)'
<1>1. arrived'[q][a] <= Matched(q, a)'
  <2>1. arrived[q][a] \in Nat
    BY DEF BasicInv, TypeOK
  <2> QED  BY <2>1, MatchedGrows DEF RecvOf
<1> QED  BY <1>1 DEF RecvOf, Phase, Gone

LEMMA PollKeepsRecv ==
  ASSUME BasicInv, NEW a \in Proc, ProcStep(a), NEW q \in Proc, RecvOf(a, q),
         PollRecv(a), UNCHANGED <<abstractVars, pc, recvBuf, sent, posted>>
  PROVE  RecvOf(a, q)'
<1>1. /\ calls' = calls /\ pc' = pc /\ recvBuf' = recvBuf /\ sent' = sent /\ posted' = posted
      /\ Matched(q, a)' = Matched(q, a)
  BY DEF abstractVars, Matched
<1>2. /\ arrived \in [Proc -> [Proc -> Nat]]
      /\ recvQueue \in [Proc -> [Proc -> {"none", "COMM", "READY"}]]
  BY DEF BasicInv, TypeOK
<1>3. arrived'[q][a] = Matched(q, a)
  BY <1>2 DEF PollRecv
<1>4. recvQueue'[a][q] = IF recvQueue[a][q] = "COMM" /\ arrived'[q][a] = Len(posted[a][q])
                         THEN "READY" ELSE recvQueue[a][q]
  BY <1>2 DEF PollRecv
<1>5. /\ Matched(q, a) \in Nat /\ Len(posted[a][q]) \in Nat /\ arrived[q][a] \in Nat
      /\ arrived[q][a] <= Matched(q, a) /\ Matched(q, a) <= Len(posted[a][q])
  BY <1>2, MatchedGrows, StreamsGrow DEF RecvOf
<1>6. ASSUME ~Gone(a), Matched(q, a) < Len(posted[a][q])
      PROVE  /\ pc[a] \in {"pack", "communicate"} /\ recvQueue'[a][q] = "COMM"
             /\ Matched(q, a) = Len(posted[a][q]) - 1
             /\ posted[a][q][Len(posted[a][q])] = Phase(a) /\ recvBuf[a] = Phase(a)
  <2>1. arrived[q][a] < Len(posted[a][q])
    BY <1>5, <1>6
  <2>2. /\ pc[a] \in {"pack", "communicate"} /\ recvQueue[a][q] = "COMM"
        /\ arrived[q][a] = Len(posted[a][q]) - 1
        /\ posted[a][q][Len(posted[a][q])] = Phase(a) /\ recvBuf[a] = Phase(a)
    BY <1>6, <2>1 DEF RecvOf
  <2> QED  BY <1>3, <1>4, <1>5, <1>6, <2>2
<1> QED  BY <1>1, <1>3, <1>5, <1>6 DEF RecvOf, Gone, Phase

(* A new receive is posted when all earlier ones have completed. *)
LEMMA ConnectedRecv ==
  ASSUME BasicInv, NEW a \in Proc, ProcStep(a), NEW q \in Proc, RecvOf(a, q), Connected(a)
  PROVE  RecvOf(a, q)'
<1> DEFINE senders == result'[a].senders
<1>1. /\ pc[a] = "connect" /\ Return(a) /\ pc' = [pc EXCEPT ![a] = "pack"] /\ calls' = calls
      /\ recvQueue' = [recvQueue EXCEPT ![a] = [r \in Proc |-> IF r \in senders THEN "COMM" ELSE "none"]]
      /\ posted' = [posted EXCEPT ![a] = [r \in Proc |-> IF r \in senders THEN Append(@[r], Phase(a)) ELSE @[r]]]
      /\ recvBuf' = [recvBuf EXCEPT ![a] = IF senders # {} THEN Phase(a) ELSE 0]
      /\ UNCHANGED <<sendQueue, sendBufs, sent, arrived>>
  BY DEF Connected, Goto, Return
<1>2. /\ arrived[q][a] \in Nat /\ posted[a][q] \in Seq(1 .. MaxCalls) /\ Len(posted[a][q]) \in Nat
      /\ arrived[q][a] <= Len(posted[a][q])
  <2>1. arrived[q][a] \in Nat /\ posted[a][q] \in Seq(1 .. MaxCalls)
    BY DEF BasicInv, TypeOK
  <2> QED  BY <2>1, MatchedGrows DEF RecvOf
<1>3. arrived[q][a] = Len(posted[a][q])
  <2>1. ~(arrived[q][a] < Len(posted[a][q]))
    BY <1>1 DEF RecvOf, Gone
  <2> QED  BY <1>2, <2>1
<1>4. arrived'[q][a] <= Matched(q, a)'
  BY <1>1, <1>2, MatchedGrows DEF RecvOf
<1>5. /\ recvQueue'[a][q] = (IF q \in senders THEN "COMM" ELSE "none")
      /\ posted'[a][q] = IF q \in senders THEN Append(posted[a][q], Phase(a)) ELSE posted[a][q]
      /\ recvBuf'[a] = IF senders # {} THEN Phase(a) ELSE 0
      /\ pc'[a] = "pack"
  <2> HIDE DEF senders
  <2> QED  BY <1>1 DEF BasicInv, TypeOK
<1>6. CASE q \in senders
  <2>1. /\ recvQueue'[a][q] = "COMM" /\ posted'[a][q] = Append(posted[a][q], Phase(a))
        /\ recvBuf'[a] = Phase(a)
    BY <1>5, <1>6
  <2>2. Len(posted'[a][q]) = Len(posted[a][q]) + 1 /\ posted'[a][q][Len(posted[a][q]) + 1] = Phase(a)
    BY <1>2, <2>1
  <2> QED  BY <1>1, <1>2, <1>3, <1>4, <1>5, <2>1, <2>2 DEF RecvOf, Phase
<1>7. CASE q \notin senders
  <2>1. posted'[a][q] = posted[a][q] /\ arrived'[q][a] = arrived[q][a]
    BY <1>1, <1>5, <1>7
  <2> QED  BY <1>2, <1>3, <1>4, <2>1 DEF RecvOf
<1> QED  BY <1>6, <1>7

LEMMA RecvStep ==
  ASSUME BasicInv, RecvInv, NEW a \in Proc, ProcStep(a)
  PROVE  RecvInv'
<1> SUFFICES ASSUME NEW q \in Proc PROVE RecvOf(a, q)'
  BY OthersRecv DEF RecvInv
<1>0. RecvOf(a, q)
  BY DEF RecvInv
<1>t. pc \in [Proc -> {"idle", "prepare", "connect", "pack", "communicate", "thrown", "nomem", "exited"}]
  BY DEF BasicInv, TypeOK
<1>1. ASSUME NEW dests \in SUBSET (Proc \ {a}), NewSendMsgs(a, dests) PROVE RecvOf(a, q)'
  <2>1. arrived' = arrived /\ posted' = posted /\ ~Gone(a) /\ pc[a] \notin {"pack", "communicate"}
    BY <1>1 DEF NewSendMsgs, Gone
  <2> QED  BY <1>0, <2>1, NothingNewToReceive
<1>2. CASE LC_Abort(a) \/ LC_Connect(a) \/ ConnectFails(a)
  <2>1. arrived' = arrived /\ posted' = posted /\ ~Gone(a) /\ pc[a] \notin {"pack", "communicate"}
    BY <1>2 DEF LC_Abort, LC_Connect, ConnectFails, Gone
  <2> QED  BY <1>0, <2>1, NothingNewToReceive
<1>3. CASE Connected(a)
  BY <1>0, <1>3, ConnectedRecv
<1>4. CASE PrepareRecvFails(a) \/ GiveUp(a)
  <2>1. arrived' = arrived /\ posted' = posted
    BY <1>4 DEF PrepareRecvFails, GiveUp
  <2>2. pc'[a] \in {"exited", "nomem", "thrown"}
    BY <1>4, <1>t DEF PrepareRecvFails, GiveUp, Goto
  <2>3. Gone(a)'
    BY <2>2 DEF Gone
  <2> QED  BY <1>0, <2>1, <2>3, NothingNewToReceive
<1>5. ASSUME NEW copied, RetryAlloc(a, copied) \/ LC_Communicate(a, copied) PROVE RecvOf(a, q)'
  BY <1>0, <1>5, PollKeepsRecv DEF RetryAlloc, LC_Communicate
<1>6. ASSUME NEW b \in Proc, PrepareSend(a, b) PROVE RecvOf(a, q)'
  <2>1. arrived' = arrived /\ posted' = posted /\ pc[a] = "prepare"
    BY <1>6 DEF PrepareSend, Allocating, IsLate
  <2> QED  BY <1>0, <2>1, NothingNewToReceive DEF Gone
<1>7. ASSUME (\E b \in Proc : PackMsg(a, b)) \/ StartCommunicate(a) PROVE RecvOf(a, q)'
  <2>1. /\ arrived' = arrived /\ posted' = posted /\ calls' = calls
        /\ recvQueue' = recvQueue /\ recvBuf' = recvBuf
    BY <1>7 DEF PackMsg, StartCommunicate, abstractVars
  <2>2. pc[a] = "pack" /\ pc'[a] \in {"pack", "communicate"}
    BY <1>7, <1>t, PackMsgOwn DEF PackMsg, StartCommunicate, Goto
  <2> QED  BY <1>0, <2>1, <2>2, NothingNewToReceive DEF Gone
<1>8. CASE Finish(a)
  <2>1. arrived' = arrived /\ posted' = posted /\ pc[a] = "communicate" /\ recvQueue[a][q] # "COMM"
    BY <1>8 DEF Finish, InComm, InState
  <2> QED  BY <1>0, <2>1, NothingNewToReceive DEF Gone
<1> QED  BY <1>1, <1>2, <1>3, <1>4, <1>5, <1>6, <1>7, <1>8 DEF ProcStep, Step
-------------------------------------------------------------------------------
(* The invariant holds. *)

LEMMA InitInv ==
  ASSUME Init
  PROVE  IInv
<1>1. /\ calls = [p \in Proc |-> <<>>] /\ inCall = [p \in Proc |-> FALSE]
      /\ result = [p \in Proc |-> NoResult]
      /\ pc = [p \in Proc |-> "idle"]
      /\ sendQueue = [p \in Proc |-> NoMsgs] /\ recvQueue = [p \in Proc |-> NoMsgs]
      /\ sendBufs = [p \in Proc |-> 0] /\ recvBuf = [p \in Proc |-> 0]
      /\ sent = [p \in Proc |-> [q \in Proc |-> <<>>]]
      /\ posted = [p \in Proc |-> [q \in Proc |-> <<>>]]
      /\ arrived = [p \in Proc |-> [q \in Proc |-> 0]]
  BY DEF Init, GlobalInit
<1>2. \A p \in Proc : Room[p] \in Nat
  BY RoomAssumption
<1>3. TypeOK
  BY <1>1, <1>2, PhasesAssumption DEF TypeOK, NoMsgs, MsgState
<1>4. CallInv
  BY <1>1, PhasesAssumption DEF CallInv, Phase, NoResult, Result
<1>5. \A p, q \in Proc : sendQueue[p][q] = "none" /\ Len(sent[p][q]) = 0 /\ Len(posted[p][q]) = 0
  BY <1>1 DEF NoMsgs
<1>6. QueueInv
  BY <1>1, <1>5 DEF QueueInv, QueueOf
<1>7. \A p, q \in Proc : Announced(p, q) = {}
  BY <1>1 DEF Announced, Good, Phase
<1>8. StreamInv
  BY <1>5, <1>7 DEF StreamInv, SentInv, PostedInv, Increasing
<1>9. RecvInv
  BY <1>1, <1>5 DEF RecvInv, RecvOf, Matched
<1>10. NoLeak
  <2> SUFFICES ASSUME NEW p \in Proc
               PROVE  sendBufs[p] = Cardinality(InState(sendQueue, p, "ALLOCATED") \cup InState(sendQueue, p, "COMM"))
    BY DEF NoLeak
  <2>1. InState(sendQueue, p, "ALLOCATED") \cup InState(sendQueue, p, "COMM") = {}
    BY <1>5 DEF InState
  <2> QED  BY <1>1, <2>1, FS_EmptySet
<1>11. OneBufferIsEnough
  BY <1>1 DEF OneBufferIsEnough
<1> QED  BY <1>3, <1>4, <1>6, <1>8, <1>9, <1>10, <1>11 DEF IInv

LEMMA NextInv ==
  ASSUME IInv, [Next]_vars
  PROVE  IInv'
<1>1. BasicInv
  BY OwnInvs DEF IInv, BasicInv
<1>2. ASSUME NEW a \in Proc, ProcStep(a) PROVE IInv'
  <2>1. BasicInv' /\ StreamInv' /\ RecvInv'
    BY <1>1, <1>2, BasicStep, StreamStep, RecvStep DEF IInv
  <2>2. QueueInv' /\ NoLeak' /\ OneBufferIsEnough'
    BY <2>1 DEF BasicInv, QueueInv, NoLeak, OneBufferIsEnough, OwnInv, LeakOf, RoomOf
  <2> QED  BY <2>1, <2>2 DEF IInv, BasicInv
<1>3. CASE Next
  BY <1>2, <1>3 DEF Next, ProcStep
<1>4. CASE UNCHANGED vars
  <2> USE <1>4 DEF vars, lcVars
  <2>1. TypeOK' /\ CallInv'
    BY DEF IInv, TypeOK, CallInv, Phase, Good
  <2>2. QueueInv' /\ NoLeak' /\ OneBufferIsEnough'
    BY DEF IInv, QueueInv, QueueOf, NoLeak, OneBufferIsEnough, Phase, InState
  <2>3. StreamInv'
    <3> SUFFICES ASSUME NEW p \in Proc, NEW q \in Proc PROVE SentInv(p, q)' /\ PostedInv(p, q)'
      BY DEF StreamInv
    <3>1. Announced(p, q)' = Announced(p, q)
      BY SameAnnounced
    <3>2. Kept(p) /\ Kept(q)
      BY DEF Kept
    <3> QED  BY <3>1, <3>2, KeptSent, KeptPosted DEF IInv, StreamInv
  <2>4. RecvInv'
    BY DEF IInv, RecvInv, RecvOf, Gone, Phase, Matched
  <2> QED  BY <2>1, <2>2, <2>3, <2>4 DEF IInv
<1> QED  BY <1>3, <1>4

(* Every state of the communication satisfies the invariant.                 *)
THEOREM InvHolds == Spec => []IInv
<1> QED  BY InitInv, NextInv, PTL DEF Spec
-------------------------------------------------------------------------------
(* What it says. *)

(* Two enumerations of initial segments of one set agree as far as both go.  *)
LEMMA SameEnumeration ==
  ASSUME NEW A \in SUBSET Nat, NEW s \in Seq(1 .. MaxCalls), NEW t \in Seq(1 .. MaxCalls), Increasing(s), Increasing(t),
         \A i \in 1 .. Len(s) : s[i] \in A /\ \A k \in A : k < s[i] => Occurs(k, s),
         \A i \in 1 .. Len(t) : t[i] \in A /\ \A k \in A : k < t[i] => Occurs(k, t),
         NEW n \in Nat, n <= Len(s), n <= Len(t)
  PROVE  \A i \in 1 .. n : s[i] = t[i]
<1> DEFINE D == {i \in 1 .. n : s[i] # t[i]}
<1>0. Len(s) \in Nat /\ Len(t) \in Nat
  OBVIOUS
<1>1. SUFFICES ASSUME D # {} PROVE FALSE
  OBVIOUS
<1>2. PICK i \in D : \A j \in D : i <= j
  <2>1. D \in SUBSET Nat
    OBVIOUS
  <2> HIDE DEF D
  <2> QED  BY <1>1, <2>1, Smallest
<1>3. i \in 1 .. Len(s) /\ i \in 1 .. Len(t) /\ i \in 1 .. n /\ s[i] # t[i]
  BY <1>0, <1>2
<1>4. \A j \in 1 .. n : j < i => s[j] = t[j]
  BY <1>2
<1>5. s[i] \in Nat /\ t[i] \in Nat
  BY <1>3
<1>6. CASE s[i] < t[i]
  <2>1. PICK j \in 1 .. Len(t) : t[j] = s[i]
    BY <1>3, <1>6 DEF Occurs
  <2>2. j < i
    <3>1. CASE j = i
      BY <1>3, <2>1, <3>1
    <3>2. CASE i < j
      <4>1. t[i] < t[j]
        BY <1>3, <3>2 DEF Increasing
      <4> QED  BY <1>5, <1>6, <2>1, <4>1
    <3> QED  BY <1>0, <1>3, <3>1, <3>2
  <2>3. j \in 1 .. n /\ j \in 1 .. Len(s) /\ s[j] = t[j]
    BY <1>0, <1>3, <1>4, <2>1, <2>2
  <2>4. s[j] < s[i]
    BY <1>3, <2>2, <2>3 DEF Increasing
  <2> QED  BY <1>5, <2>1, <2>3, <2>4
<1>7. CASE t[i] < s[i]
  <2>1. PICK j \in 1 .. Len(s) : s[j] = t[i]
    BY <1>3, <1>7 DEF Occurs
  <2>2. j < i
    <3>1. CASE j = i
      BY <1>3, <2>1, <3>1
    <3>2. CASE i < j
      <4>1. s[i] < s[j]
        BY <1>3, <3>2 DEF Increasing
      <4> QED  BY <1>5, <1>7, <2>1, <4>1
    <3> QED  BY <1>0, <1>3, <3>1, <3>2
  <2>3. j \in 1 .. n /\ j \in 1 .. Len(t) /\ s[j] = t[j]
    BY <1>0, <1>3, <1>4, <2>1, <2>2
  <2>4. t[j] < t[i]
    BY <1>3, <2>2, <2>3 DEF Increasing
  <2> QED  BY <1>5, <2>1, <2>3, <2>4
<1> QED  BY <1>3, <1>5, <1>6, <1>7

LEMMA MessagesMeet ==
  ASSUME IInv
  PROVE  MeetsItsReceive
<1> SUFFICES ASSUME NEW p \in Proc, NEW q \in Proc
             PROVE  \A i \in 1 .. Matched(p, q) : sent[p][q][i] = posted[q][p][i]
  BY DEF MeetsItsReceive
<1> DEFINE A == Announced(p, q)
           s == sent[p][q]
           t == posted[q][p]
<1>1. SentInv(p, q) /\ PostedInv(p, q) /\ CallInv
  BY DEF IInv, StreamInv
<1>2. A \in SUBSET Nat /\ \A k \in A : /\ k <= Phase(p) /\ k <= Phase(q)
                                       /\ Phase(p) \in Nat /\ Phase(q) \in Nat
  BY <1>1, AnnouncedType DEF Announced
<1>3. s \in Seq(1 .. MaxCalls) /\ t \in Seq(1 .. MaxCalls)
  BY DEF IInv, TypeOK
<1>4. ASSUME NEW i \in 1 .. Len(s) PROVE s[i] \in A /\ \A k \in A : k < s[i] => Occurs(k, s)
  <2>1. s[i] \in A
    BY <1>1 DEF SentInv
  <2>2. ASSUME NEW k \in A, k < s[i] PROVE k < Phase(p)
    <3> DEFINE m == s[i]
    <3>1. k \in Nat /\ m \in Nat /\ m <= Phase(p) /\ Phase(p) \in Nat
      BY <1>2, <2>1
    <3>2. k < m
      BY <2>2
    <3> HIDE DEF m
    <3> QED  BY <3>1, <3>2
  <2> QED  BY <1>1, <2>1, <2>2 DEF SentInv
<1>5. ASSUME NEW i \in 1 .. Len(t) PROVE t[i] \in A /\ \A k \in A : k < t[i] => Occurs(k, t)
  <2>1. t[i] \in A
    BY <1>1 DEF PostedInv
  <2>2. ASSUME NEW k \in A, k < t[i] PROVE k < Phase(q)
    <3> DEFINE m == t[i]
    <3>1. k \in Nat /\ m \in Nat /\ m <= Phase(q) /\ Phase(q) \in Nat
      BY <1>2, <2>1
    <3>2. k < m
      BY <2>2
    <3> HIDE DEF m
    <3> QED  BY <3>1, <3>2
  <2> QED  BY <1>1, <2>1, <2>2 DEF PostedInv
<1>6. Increasing(s) /\ Increasing(t)
  BY <1>1 DEF SentInv, PostedInv
<1>7. Len(s) \in Nat /\ Len(t) \in Nat
  BY <1>3
<1>8. Matched(p, q) \in Nat /\ Matched(p, q) <= Len(s) /\ Matched(p, q) <= Len(t)
  BY <1>7 DEF Matched
<1> HIDE DEF A, s, t
<1>9. \A i \in 1 .. Matched(p, q) : s[i] = t[i]
  BY <1>2, <1>3, <1>4, <1>5, <1>6, <1>8, SameEnumeration
<1> QED  BY <1>9 DEF s, t

LEMMA BuffersStay ==
  ASSUME IInv
  PROVE  ReceivesHaveBuffers
<1> SUFFICES ASSUME NEW p \in Proc, ~Gone(p), NEW q \in Proc, NEW i \in arrived[q][p] + 1 .. Len(posted[p][q])
             PROVE  recvBuf[p] = posted[p][q][i]
  BY DEF ReceivesHaveBuffers, HasItsBuffer
<1>1. arrived[q][p] \in Nat /\ posted[p][q] \in Seq(1 .. MaxCalls) /\ Len(posted[p][q]) \in Nat
  BY DEF IInv, TypeOK
<1>2. arrived[q][p] < Len(posted[p][q])
  BY <1>1
<1>3. /\ arrived[q][p] = Len(posted[p][q]) - 1
      /\ posted[p][q][Len(posted[p][q])] = Phase(p) /\ recvBuf[p] = Phase(p)
  BY <1>2 DEF IInv, RecvInv, RecvOf
<1>4. i = Len(posted[p][q])
  BY <1>1, <1>3
<1> QED  BY <1>3, <1>4

(* Messages meet the receives that were posted for them, send buffers belong *)
(* to messages and fit into the memory, and no receive of a processor that   *)
(* goes on loses its buffer (LC_MsgAlloc, LC_Connect, LC_PollRecv,           *)
(* LC_Cleanup): for any number of processors, phases, messages and buffers.  *)
THEOREM BuffersHold == Spec => []BuffersInv
<1>1. IInv => BuffersInv
  BY MessagesMeet, BuffersStay DEF IInv, BuffersInv
<1> QED  BY <1>1, InvHolds, PTL

(* No processor with room for one buffer gives up in LC_MsgAlloc while it    *)
(* sends the messages of a late phase.                                       *)
THEOREM OneBufferHolds == Spec => []OneBufferIsEnough
<1>1. IInv => OneBufferIsEnough
  BY DEF IInv
<1> QED  BY <1>1, InvHolds, PTL

LEMMA LenIsCardinality ==
  ASSUME NEW s \in Seq(1 .. MaxCalls), Increasing(s)
  PROVE  Cardinality({s[i] : i \in 1 .. Len(s)}) = Len(s)
<1> DEFINE n == Len(s)
           S == {s[i] : i \in 1 .. n}
           f == [i \in 1 .. n |-> s[i]]
<1>1. n \in Nat /\ \A i \in 1 .. n : s[i] \in Nat
  BY PhasesAssumption
<1>2. ASSUME NEW i \in 1 .. n, NEW j \in 1 .. n, i # j PROVE s[i] # s[j]
  <2>1. CASE i < j
    BY <1>1, <2>1 DEF Increasing
  <2>2. CASE j < i
    BY <1>1, <2>2 DEF Increasing
  <2> QED  BY <1>1, <1>2, <2>1, <2>2
<1>3. f \in Bijection(1 .. n, S)
  BY <1>2 DEF Bijection, Injection, Surjection, IsInjective
<1>4. ExistsBijection(1 .. n, S)
  BY <1>3 DEF ExistsBijection
<1> HIDE DEF n, S, f
<1>5. Cardinality(S) = n
  BY <1>1, <1>4, FS_CountingElements
<1> QED  BY <1>5 DEF n, S

LEMMA AllReceived ==
  ASSUME IInv
  PROVE  AnnouncedIsReceived
<1> SUFFICES ASSUME NEW p \in Proc, NEW q \in Proc, pc[p] = "idle", ~inCall[p]
             PROVE  arrived[q][p] = Cardinality(
                        {k \in 1 .. Phase(p) : Raised(k) = {0} /\ p \in calls[q][k].dests})
  BY DEF AnnouncedIsReceived
<1> DEFINE t == posted[p][q]
           T == {t[i] : i \in 1 .. Len(t)}
<1>1. t \in Seq(1 .. MaxCalls) /\ arrived[q][p] \in Nat /\ Len(t) \in Nat
  BY DEF IInv, TypeOK
<1>2. arrived[q][p] = Len(t)
  <2>1. arrived[q][p] <= Matched(q, p) /\ ~(arrived[q][p] < Len(t))
    BY DEF IInv, RecvInv, RecvOf, Gone
  <2>2. Matched(q, p) \in Nat /\ Matched(q, p) <= Len(t)
    <3>1. sent[q][p] \in Seq(1 .. MaxCalls) /\ Len(sent[q][p]) \in Nat
      BY DEF IInv, TypeOK
    <3> QED  BY <1>1, <3>1 DEF Matched
  <2> HIDE DEF t
  <2> QED  BY <1>1, <2>1, <2>2
<1>3. PostedInv(q, p) /\ CallInv
  BY DEF IInv, StreamInv
<1>4. T = Announced(q, p)
  <2>1. \A k \in T : k \in Announced(q, p)
    BY <1>3 DEF PostedInv
  <2>2. ASSUME NEW k \in Announced(q, p) PROVE k \in T
    <3>1. k \in Nat /\ k <= Phase(p) /\ Phase(p) \in Nat
      BY <1>3, AnnouncedType
    <3>2. k < Phase(p) \/ k = Phase(p)
      BY <3>1
    <3>3. Occurs(k, t)
      BY <1>3, <3>2 DEF PostedInv
    <3> QED  BY <3>3 DEF Occurs
  <2> QED  BY <2>1, <2>2
<1>5. Announced(q, p) = {k \in 1 .. Phase(p) : Raised(k) = {0} /\ p \in calls[q][k].dests}
  <2>1. Phase(p) \in Nat /\ Phase(p) <= MaxCalls /\ MaxCalls \in Nat /\ \A r \in Proc : Phase(p) <= Phase(r) /\ Phase(r) \in Nat
    BY <1>3, PhasesAssumption DEF CallInv, Phase
  <2>2. ASSUME NEW k \in 1 .. Phase(p) PROVE Raised(k) = {0} <=> Good(k)
    <3>1. \A r \in Proc : k <= Phase(r)
      BY <2>1
    <3> QED  BY <3>1 DEF Raised, Good
  <2>3. ASSUME NEW k \in 1 .. MaxCalls, Good(k) PROVE k \in 1 .. Phase(p)
    BY <2>1, <2>3 DEF Good
  <2>4. \A k \in 1 .. Phase(p) : k \in 1 .. MaxCalls
    BY <2>1
  <2> QED  BY <2>2, <2>3, <2>4 DEF Announced
<1>6. Cardinality(T) = Len(t)
  <2>1. Increasing(t)
    BY <1>3 DEF PostedInv
  <2> HIDE DEF t
  <2> QED  BY <1>1, <2>1, LenIsCardinality
<1> QED  BY <1>2, <1>4, <1>5, <1>6

(* A processor that has left a phase has received exactly the messages       *)
(* announced to it in the phases without an exception (LC_Communicate waits  *)
(* for all, and LC_Connect posts a receive for each).                        *)
THEOREM AnnouncedHolds == Spec => []AnnouncedIsReceived
BY AllReceived, InvHolds, PTL
===============================================================================
