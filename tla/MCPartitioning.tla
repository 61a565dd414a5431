--------------------------- MODULE MCPartitioning ---------------------------
(* Instances of Partitioning for TLC. *)
EXTENDS Partitioning, Sequences, TLC

CONSTANTS p1, p2, p3, p4

(* Strips of one to two elements on four levels, next to each other on each   *)
(* level: all fathers and classes these can have, with YELLOW for both        *)
(* irregular classes.  Regular leaves are marked for coarsening.              *)
Strip   == 1 .. 7
Levels  == <<0, 1, 1, 2, 2, 3, 3>>
Fathers == {<<NoElem, 1, 1, 2, f, s[1], s[2]>> :
               f \in {2, 3}, s \in {<<4, 4>>, <<4, 5>>, <<5, 5>>}}
Classes == {<<"RED">> \o c : c \in [1 .. 6 -> {"RED", "YELLOW"}]}
Hierarchies ==
    {[elem |-> Strip, level |-> Levels, father |-> f, class |-> c,
      neighbor |-> {{2, 3}, {4, 5}, {6, 7}},
      coarsen |-> {e \in 2 .. 7 : c[e] = "RED" /\ \A s \in Strip : f[s] # e},
      again |-> FALSE] : f \in Fathers, c \in Classes}

(* Two coarse elements, one of them refined: small enough to be moved from    *)
(* any distribution to any other.                                             *)
Small == [elem |-> 1 .. 5, level |-> <<0, 0, 1, 1, 2>>,
          father |-> <<NoElem, NoElem, 1, 1, 3>>,
          class |-> <<"RED", "RED", "GREEN", "GREEN", "YELLOW">>,
          neighbor |-> {{1, 2}, {3, 4}}, coarsen |-> {}, again |-> TRUE]

AllMeshes == {m \in Hierarchies : IsMesh(m)} \cup {Small}

ProcSymmetry == Permutations(Proc)
=============================================================================
