-------------------------------- MODULE Notify --------------------------------
(* DDD_Notify (basic/notify.cc): each processor says to whom it is going to  *)
(* send a message, and learns who is going to send it one.  A wave of infos  *)
(* runs up the binary tree of processors that PPIF sets up and back down.    *)
(*                                                                           *)
(* The two halves of a message between neighbours in the tree - its length,  *)
(* then its infos - are one step, as MPI_Ssend returns when the receiver has *)
(* it.  Infos are a set: their order in the array comes from sorts.  At most *)
(* one message goes from one processor to another, as all users of LowComm   *)
(* collect what they send to a processor in one message.                     *)
EXTENDS Integers, Sequences, FiniteSets

CONSTANTS
    N,          \* number of processors
    Exceptions, \* codes that LC_Abort raises, with flipped sign
    MaxCalls,   \* bound of calls per processor
    MaxEvents   \* bound of messages and exceptions, all calls together

ASSUME NAssumption == N \in Nat \ {0}
ASSUME ExceptionsAssumption == Exceptions \subseteq Nat \ {0}
ASSUME BoundsAssumption == MaxCalls \in Nat /\ MaxEvents \in Nat

Proc == 0 .. N - 1
Dummy == -1                \* PROC_INVALID_TEMP, the target of a dummy info
EXCEPTION_NOTIFY == -1
OneInfoEach == N           \* mutant: room for the dummies only
MAX_INFOS == N * (IF N >= 9 THEN 1 + N ELSE 10)

(* The tree of processors. *)
Son(p, l) == 2 * p + 1 + l
BothSonsOrNone(p) == IF Son(p, 0) >= N THEN 0 ELSE 2    \* mutant: the right son may be missing
Degree(p) == IF Son(p, 0) >= N THEN 0 ELSE IF Son(p, 1) >= N THEN 1 ELSE 2
Uptree(p) == (p - 1) \div 2
SlotOf(p) == p - Son(Uptree(p), 0)

Info(from, to) == [from |-> from, to |-> to]
Infos == [from : Proc, to : Proc \cup {Dummy}]

VARIABLES
    calls,      \* calls[p]: arguments of p's calls of DDD_Notify so far
    pc,         \* where p is in its last call
    slot,       \* the son p has to talk to next
    infos,      \* allInfos, up to lastInfo
    routing,    \* theRouting: which son leads to a processor
    exception,  \* local_exception
    result      \* result[p]: what p's last call returned

vars == <<calls, pc, slot, infos, routing, exception, result>>

CallArgs == [dests : SUBSET Proc, exc : {0} \cup Exceptions]
Results  == [senders : SUBSET Proc, exc : Int]
Places   == {"user", "up", "down", "spread"}
Codes    == {0, EXCEPTION_NOTIFY} \cup Exceptions
NoResult == [senders |-> {}, exc |-> 0]
ERROR    == [senders |-> {}, exc |-> 1]

TypeOK ==
    /\ calls \in [Proc -> Seq(CallArgs)]
    /\ pc \in [Proc -> Places]
    /\ slot \in [Proc -> -1 .. 2]
    /\ infos \in [Proc -> SUBSET Infos]
    /\ routing \in [Proc -> [Proc -> -1 .. 1]]
    /\ exception \in [Proc -> Codes]
    /\ result \in [Proc -> Results]
    /\ \A p \in Proc : pc[p] = "spread" => slot[p] >= 0

Init ==
    /\ calls = [p \in Proc |-> <<>>]
    /\ pc = [p \in Proc |-> "user"]
    /\ slot = [p \in Proc |-> 0]
    /\ infos = [p \in Proc |-> {}]
    /\ routing = [p \in Proc |-> [q \in Proc |-> 0]]
    /\ exception = [p \in Proc |-> 0]
    /\ result = [p \in Proc |-> NoResult]

-------------------------------------------------------------------------------
(* What the instance may still do. *)
CallNumbers == {n \in Proc \X (1 .. MaxCalls) : n[2] <= Len(calls[n[1]])}
Announced == {m \in CallNumbers \X Proc : m[2] \in calls[m[1][1]][m[1][2]].dests}
Raised    == {n \in CallNumbers : calls[n[1]][n[2]].exc # 0}
WithinBounds(c) ==
    Cardinality(Announced) + Cardinality(Raised)
        + Cardinality(c.dests) + (IF c.exc # 0 THEN 1 ELSE 0) <= MaxEvents

-------------------------------------------------------------------------------
(* DDD_Notify, NotifyPrepare: p starts with its own infos and a dummy, which *)
(* travels to the root whatever happens to the others.                       *)
DDD_Notify(p, c) ==
    /\ pc[p] = "user"
    /\ Len(calls[p]) < MaxCalls
    /\ WithinBounds(c)
    /\ calls' = [calls EXCEPT ![p] = Append(@, c)]
    /\ pc' = [pc EXCEPT ![p] = "up"]
    /\ slot' = [slot EXCEPT ![p] = Degree(p) - 1]
    /\ infos' = [infos EXCEPT ![p] = {Info(p, d) : d \in c.dests \cup {Dummy}}]
    /\ routing' = [routing EXCEPT ![p][p] = -1]
    /\ exception' = [exception EXCEPT ![p] = c.exc]
    /\ result' = [result EXCEPT ![p] = NoResult]

(* A message to oneself, or to a processor that does not exist, is refused   *)
(* before the wave starts.  (Bound: one processor at a time.)                *)
NotifyRefused(p) ==
    /\ pc[p] = "user"
    /\ Len(calls[p]) < MaxCalls
    /\ \A q \in Proc : result[q] # ERROR
    /\ routing' = [routing EXCEPT ![p][p] = -1]
    /\ result' = [result EXCEPT ![p] = ERROR]
    /\ UNCHANGED <<calls, pc, slot, infos, exception>>

(* Of the infos p has when its sons have reported, those stay whose target   *)
(* is p or below p: the dummy of the target is there.                        *)
IsKnown(p, i)   == Info(i.to, Dummy) \in infos[p]
UnknownInfos(p) == {i \in infos[p] : ~IsKnown(p, i)}

ReadyBeforeLastSon(p) == pc[p] = "up" /\ slot[p] <= 0   \* mutant: off by one
ReadyToGoUp(p) == pc[p] = "up" /\ slot[p] = -1

(* The greatest exception wins. *)
Latest(e, f)  == e                      \* mutant
Greater(e, f) == IF e > f THEN e ELSE f

Overflow(p, sent) == Cardinality(infos[p]) + Cardinality(sent) >= MAX_INFOS

(* Son s sends what it does not know where to deliver, or its exception, to  *)
(* p = Uptree(s).  After an overflow of its array s sends a length of 1 with *)
(* no data, for which p waits forever.                                       *)
Concentrate(s) ==
    LET p    == Uptree(s)
        sent == UnknownInfos(s)
    IN /\ s # 0
       /\ ReadyToGoUp(s)
       /\ pc[p] = "up"
       /\ slot[p] = SlotOf(s)
       /\ exception[s] # EXCEPTION_NOTIFY
       /\ pc' = [pc EXCEPT ![s] = "down"]
       /\ slot' = [slot EXCEPT ![p] = @ - 1]
       /\ IF exception[s] # 0
          THEN /\ exception' = [exception EXCEPT ![p] = Greater(exception[s], @)]
               /\ UNCHANGED <<infos, routing>>
          ELSE /\ exception' = [exception EXCEPT ![p] = IF Overflow(p, sent) THEN EXCEPTION_NOTIFY ELSE @]
               /\ infos' = [infos EXCEPT
                    ![s] = @ \ sent,
                    ![p] = IF Overflow(p, sent) THEN @ ELSE @ \cup sent]
               /\ routing' = [routing EXCEPT ![p] =
                    [q \in Proc |-> IF \E i \in sent : i.from = q THEN SlotOf(s) ELSE @[q]]]
       /\ UNCHANGED <<calls, result>>

(* At the root the wave turns; what it does not know are only the dummies.   *)
Turn ==
    /\ ReadyToGoUp(0)
    /\ pc' = [pc EXCEPT ![0] = "spread"]
    /\ slot' = [slot EXCEPT ![0] = 0]
    /\ infos' = [infos EXCEPT ![0] = IF exception[0] # 0 THEN @ ELSE @ \ UnknownInfos(0)]
    /\ UNCHANGED <<calls, routing, exception, result>>

(* p sends to its next son what the routing table sends there, or the        *)
(* exception.                                                                *)
Spread(p) ==
    LET s    == Son(p, slot[p])
        sent == {i \in infos[p] : i.to \in Proc /\ routing[p][i.to] = slot[p]}
    IN /\ pc[p] = "spread"
       /\ slot[p] < Degree(p)
       /\ pc[s] = "down"
       /\ pc' = [pc EXCEPT ![s] = "spread"]
       /\ slot' = [slot EXCEPT ![p] = @ + 1, ![s] = 0]
       /\ IF exception[p] # 0
          THEN /\ exception' = [exception EXCEPT ![s] = Greater(exception[p], @)]
               /\ UNCHANGED infos
          ELSE /\ infos' = [infos EXCEPT ![p] = @ \ sent, ![s] = @ \cup sent]
               /\ UNCHANGED exception
       /\ UNCHANGED <<calls, routing, result>>

NotifyReturn(p) ==
    /\ pc[p] = "spread"
    /\ slot[p] = Degree(p)
    /\ result' = [result EXCEPT ![p] =
            [senders |-> IF exception[p] # 0 THEN {} ELSE {i.from : i \in {j \in infos[p] : j.to = p}},
             exc     |-> exception[p]]]
    /\ pc' = [pc EXCEPT ![p] = "user"]
    /\ slot' = [slot EXCEPT ![p] = 0]
    /\ infos' = [infos EXCEPT ![p] = {}]
    /\ exception' = [exception EXCEPT ![p] = 0]
    /\ UNCHANGED <<calls, routing>>

Nothing == [dests |-> {}, exc |-> 0]

AnyCall(p) ==
    \/ \E dests \in SUBSET (Proc \ {p}) : DDD_Notify(p, [dests |-> dests, exc |-> 0])
    \/ \E e \in Exceptions : DDD_Notify(p, [dests |-> {}, exc |-> e])

Wave(p) ==
    \/ Concentrate(p)
    \/ p = 0 /\ Turn
    \/ Spread(p)
    \/ NotifyReturn(p)

Next == \E p \in Proc : AnyCall(p) \/ NotifyRefused(p) \/ Wave(p)

Spec == Init /\ [][Next]_vars

(* Each processor makes its calls, which are collective, even if it has      *)
(* nothing to announce, and is not stopped while it is in one.               *)
Fairness == \A p \in Proc : WF_vars(DDD_Notify(p, Nothing) \/ Wave(p))
FairSpec == Spec /\ Fairness

-------------------------------------------------------------------------------
(* Nobody is back from its k-th call before everybody has made it: what      *)
(* LC_Connect relies on when it posts its receives.                          *)
Returned(p) == IF pc[p] = "user" THEN Len(calls[p]) ELSE Len(calls[p]) - 1
Barrier == \A p, q \in Proc : Returned(p) <= Len(calls[q])

(* The array of infos never overflows.  The handling of the overflow would   *)
(* send the exception with the wrong sign (notify.cc:189).                   *)
NoOverflow == \A p \in Proc : exception[p] # EXCEPTION_NOTIFY

(* Something goes up unless there is an exception: a son always sends a      *)
(* second message with the infos, but its father only receives it if the     *)
(* first has announced at least one.                                         *)
SomethingGoesUp == \A p \in Proc :
    ReadyToGoUp(p) /\ exception[p] = 0 => UnknownInfos(p) # {}

(* An info on its way down is routed to the son above its target: nothing    *)
(* is left behind, and no entry of an earlier call is used.                  *)
Routed == \A p \in Proc : pc[p] = "spread" /\ exception[p] = 0 =>
    \A i \in infos[p] : i.to # p => routing[p][i.to] \in slot[p] .. Degree(p) - 1

(* What the data of the wave, on which its control depends, have to be: of   *)
(* their types, within the array, never nothing on the way up and never      *)
(* routed to nowhere on the way down.                                        *)
WaveInv == TypeOK /\ NoOverflow /\ SomethingGoesUp /\ Routed

(* Every call returns. *)
NotifyReturns == \A p \in Proc : pc[p] # "user" ~> pc[p] = "user"
===============================================================================
