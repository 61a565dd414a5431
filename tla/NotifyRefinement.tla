--------------------------- MODULE NotifyRefinement ---------------------------
(* The wave of Notify implements the collective call of GlobalNotify.        *)
EXTENDS Notify

InCall == [p \in Proc |-> pc[p] # "user"]

Global == INSTANCE GlobalNotify WITH inCall <- InCall

(* However the steps of the wave interleave, and though processors may be in *)
(* the next call already, each call returns the senders of messages to the   *)
(* caller, or the greatest exception raised, on all processors alike.        *)
ImplementsGlobalNotify == Global!GlobalSpec
===============================================================================
