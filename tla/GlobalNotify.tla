----------------------------- MODULE GlobalNotify -----------------------------
(* What DDD_Notify promises to its callers: it is a collective call.  Nobody *)
(* returns from its k-th call before everybody has made it, and then either  *)
(* all return with the same exception, the greatest anybody has raised, or   *)
(* everybody learns exactly who is going to send it a message.               *)
EXTENDS Integers, Sequences, FiniteSetsExt

CONSTANTS
    Proc,       \* processors
    Exceptions, \* codes of exceptions; the code uses their negatives
    MaxCalls    \* bound of calls per processor

ASSUME ExceptionsAssumption == Exceptions \subseteq Nat \ {0}

VARIABLES
    calls,      \* calls[p]: p's calls so far
    inCall,     \* inCall[p]: p has not yet returned from its last call
    result      \* result[p]: what p's last call returned

abstractVars == <<calls, inCall, result>>

(* A call announces messages to other processors or raises an exception.     *)
Announce(dests) == [dests |-> dests, exc |-> 0]
Raise(e)        == [dests |-> {}, exc |-> e]

(* A call returns the senders of messages to the caller or an exception.     *)
NoResult       == [senders |-> {}, exc |-> 0]
Senders(S)     == [senders |-> S, exc |-> 0]
GlobalError(e) == [senders |-> {}, exc |-> e]

(* The calls that belong together are those with the same number.            *)
EverybodyCalled(k) == \A q \in Proc : Len(calls[q]) >= k
Raised(k)          == {calls[q][k].exc : q \in Proc}
CommonResult(p, k) ==
    IF Raised(k) = {0}
    THEN Senders({q \in Proc : p \in calls[q][k].dests})
    ELSE GlobalError(Max(Raised(k)))

GlobalInit ==
    /\ calls = [p \in Proc |-> <<>>]
    /\ inCall = [p \in Proc |-> FALSE]
    /\ result = [p \in Proc |-> NoResult]

Call(p, c) ==
    /\ ~inCall[p]
    /\ Len(calls[p]) < MaxCalls
    /\ calls' = [calls EXCEPT ![p] = Append(@, c)]
    /\ inCall' = [inCall EXCEPT ![p] = TRUE]
    /\ result' = [result EXCEPT ![p] = NoResult]

Return(p) ==
    /\ inCall[p]
    /\ EverybodyCalled(Len(calls[p]))
    /\ result' = [result EXCEPT ![p] = CommonResult(p, Len(calls[p]))]
    /\ inCall' = [inCall EXCEPT ![p] = FALSE]
    /\ UNCHANGED calls

(* A call that names a wrong destination returns an error and does not count.*)
Refused(p) ==
    /\ ~inCall[p]
    /\ result' = [result EXCEPT ![p] = GlobalError(1)]
    /\ UNCHANGED <<calls, inCall>>

GlobalNext == \E p \in Proc :
    \/ \E dests \in SUBSET (Proc \ {p}) : Call(p, Announce(dests))
    \/ \E e \in Exceptions : Call(p, Raise(e))
    \/ Return(p)
    \/ Refused(p)

GlobalSpec == GlobalInit /\ [][GlobalNext]_abstractVars
===============================================================================
