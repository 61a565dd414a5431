-------------------------------- MODULE MCJoin --------------------------------
(* An instance of Join for TLC: four processors, two objects with copies on  *)
(* the first two, and three local objects that may join them.                *)
EXTENDS Join

CONSTANTS a0, a1, b0, b1, x2, y2, z3

Objects == {a0, a1, b0, b1, x2, y2, z3}
Processors == 0 .. 3
Homes == [o \in Obj |-> CASE o \in {a0, b0} -> 0 [] o \in {a1, b1} -> 1 [] o \in {x2, y2} -> 2 [] OTHER -> 3]

(* The object with the smaller global id has the smaller attribute, so that  *)
(* the two keys of the order of interfaces differ.                           *)
Attributes == [o \in Obj |-> IF o \in {b0, b1, y2} THEN 2 ELSE 1]
Gids == [o \in Obj |-> CASE o \in {a0, a1} -> 1 [] o \in {b0, b1} -> 2 [] o = x2 -> 3 [] o = y2 -> 4 [] OTHER -> 5]
Priorities == {[o \in Obj |-> IF o \in {a0, b1, x2} THEN 1 ELSE 2]}
JoinTargets == [o \in {x2, y2, z3} |-> IF o = y2 THEN {2} ELSE {1}]
Sequences == {<<"xfer", "join", "prio">>, <<"join", "xfer", "xfer">>}
===============================================================================
