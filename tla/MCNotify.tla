------------------------------- MODULE MCNotify -------------------------------
(* Instance of Notify for TLC. *)
EXTENDS NotifyRefinement
===============================================================================
