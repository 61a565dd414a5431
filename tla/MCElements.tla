----------------------------- MODULE MCElements -----------------------------
(* Two families: e1 and e2 are sons of f1, e3 is one of f2. *)
EXTENDS Elements

CONSTANTS e1, e2, e3, f1, f2

MCFatherOf == (e1 :> f1) @@ (e2 :> f1) @@ (e3 :> f2)
=============================================================================
