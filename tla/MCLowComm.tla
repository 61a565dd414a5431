------------------------------ MODULE MCLowComm -------------------------------
(* Instances of LowComm for TLC. *)
EXTENDS LowComm, TLC

CONSTANTS p1, p2, p3

(* One processor has no memory for messages, the others for one at a time.   *)
ScarceRoom == p1 :> 1 @@ p2 :> 1 @@ p3 :> 0
===============================================================================
