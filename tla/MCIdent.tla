------------------------------- MODULE MCIdent --------------------------------
(* An instance of Ident for TLC: three processors, three identifications.   *)
EXTENDS Ident, TLC

CONSTANTS a, b, c, d, e, g, h, k, z, u

Everybody == {1, 2, 3}
Objects == {a, b, c, d, e, g, h, k, z, u}

(* a and b differ only by their type; c and d are known by a, b and z, which *)
(* have no common global id yet; e by c, two levels deep; g and k by objects *)
(* the first identification has treated, k also by one of its own; h is g    *)
(* with its identifiers swapped, so that 1 and 2 throw if the order does not *)
(* count.  In the same identification 3 shares only u with 2, and waits then. *)
Known ==
  a :> <<<<ID_NUMBER, 7>>>> @@ b :> <<<<ID_NUMBER, 7>>>> @@ z :> <<<<ID_STRING, 7>>>>
  @@ c :> <<<<ID_OBJECT, a>>, <<ID_OBJECT, z>>>> @@ d :> <<<<ID_OBJECT, b>>, <<ID_OBJECT, z>>>>
  @@ e :> <<<<ID_NUMBER, 5>>, <<ID_OBJECT, c>>>>
  @@ g :> <<<<ID_OBJECT, a>>, <<ID_OBJECT, d>>>> @@ h :> <<<<ID_OBJECT, d>>, <<ID_OBJECT, a>>>>
  @@ k :> <<<<ID_OBJECT, a>>>> @@ u :> <<<<ID_NUMBER, 3>>>>

Copies == [x \in Obj |-> CASE x = a -> {1, 2, 3} [] x \in {k, u} -> {2, 3} [] OTHER -> {1, 2}]
Chains == [x \in Obj |-> CASE x = e -> 2 [] x \in {c, d} -> 1 [] OTHER -> 0]
Types == [x \in Obj |-> IF x = b THEN 2 ELSE 1]
When == [x \in Obj |-> CASE x = k -> 2 [] x \in {g, h, u} -> 3 [] OTHER -> 1]

(* Only the order relative to the other processors counts: the first creates *)
(* the objects in one order, the second in three, the third has but three.   *)
CreationOrders ==
  {1 :> <<a, b, z, c, d, e, g, h, k>> @@ 2 :> Append(order, u) @@ 3 :> <<k, a, u>> :
     order \in {<<a, b, z, c, d, e, g, h, k>>, <<e, d, c, b, z, a, k, h, g>>,
               <<z, a, d, c, b, e, k, g, h>>}}
===============================================================================
