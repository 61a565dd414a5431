-------------------------- MODULE MCAdaptMultiGrid --------------------------
(* Instances of AdaptMultiGrid for TLC. *)
EXTENDS AdaptMultiGrid

CONSTANTS p1, p2, p3

(* A triangle with a neighbour at each side, and one more at one of these.    *)
T0 == {<<0, 0>>, <<8, 0>>, <<0, 8>>}
T1 == {<<8, 8>>, <<8, 0>>, <<0, 8>>}
T2 == {<<0, 0>>, <<8, 0>>, <<0, -8>>}
T3 == {<<0, 0>>, <<-8, 0>>, <<0, 8>>}
T4 == {<<8, 8>>, <<8, 0>>, <<16, 8>>}
Star == {T0, T1, T2, T3, T4}

Place(a, b, c) == [t \in a \cup b \cup c |-> CASE t \in a -> p1 [] t \in b -> p2 [] t \in c -> p3]
StarHomes == {Place({T0}, {T1, T2}, {T3, T4}), Place({T0, T4}, {T1}, {T2, T3})}

(* A strip, long enough for elements without copies. *)
P(i)     == <<8 * i, 8 * (i % 2)>>
Strip(S) == {{P(i), P(i + 1), P(i + 2)} : i \in S}
StripHomes == {Place(Strip(0 .. 2), Strip(3 .. 5), Strip(6 .. 7))}

SmallHomes   == StarHomes \cup StripHomes
SmallLevel(g) == IF OnLevel(g, 0) = {0} \X Star THEN 2 ELSE 1
=============================================================================
