---------------------------- MODULE TriangleGrid ----------------------------
(***************************************************************************)
(* Multigrids of triangles, and the rules by which gm refines them: the     *)
(* triangle rules of rm.cc and what RefineElement and UnrefineElement of    *)
(* refine.cc make of a grid level.                                          *)
(*                                                                          *)
(* A node is a point.  An edge is a set of two nodes.  An element is its    *)
(* level with the set of its three nodes: a node and its son node, at the   *)
(* same place one level up, have the same point.                            *)
(***************************************************************************)
EXTENDS Integers, FiniteSets, FiniteSetsExt

LEVEL(e)   == e[1]
CORNERS(e) == e[2]
EDGES(e)   == {CORNERS(e) \ {n} : n \in CORNERS(e)}
NoElem     == <<-1, {}>>

(* The middle of an edge.  The coordinates of a coarse grid are multiples of *)
(* a power of two that no level exhausts.                                    *)
MidNode(edge) ==
    LET a == CHOOSE n \in edge : TRUE
        b == CHOOSE n \in edge \ {a} : TRUE
    IN  <<(a[1] + b[1]) \div 2, (a[2] + b[2]) \div 2>>

(* A rule is named by the edges it bisects (Patterns2Rules and back); COPY,   *)
(* which bisects none but has a son, by an edge that does not exist.          *)
NO_REFINEMENT == {}
COPY          == {{}}
RED(e)        == EDGES(e)
Bisects(rule) == rule \ COPY

(* The corners of the sons.  A corner both of whose edges are bisected is cut *)
(* off; what is left is a triangle, or is halved.  Which diagonal halves a    *)
(* quadrilateral depends on the numbering of the corners.                     *)
SonCorners(t, rule) ==
    LET cut     == {c \in t : \A n \in t \ {c} : {c, n} \in rule}
        corners == {{c} \cup {MidNode({c, n}) : n \in t \ {c}} : c \in cut}
        mids    == {MidNode(ed) : ed \in Bisects(rule)}
    IN  CASE rule = NO_REFINEMENT -> {}
          [] rule = COPY -> {t}
          [] Cardinality(mids) = 3 -> corners \cup {mids}
          [] Cardinality(mids) = 2 ->
                LET c == CHOOSE c \in cut : TRUE
                    x == CHOOSE n \in t \ {c} : TRUE
                IN  corners \cup {(t \ {c}) \cup {MidNode({c, x})}, (t \ {c, x}) \cup mids}
          [] Cardinality(mids) = 1 /\ rule # COPY ->
                LET ed == CHOOSE ed \in rule : TRUE IN {(t \ {n}) \cup mids : n \in ed}

------------------------------------------------------------------------------
(* A grid: for each element its father, its class (ECLASS), the rule by       *)
(* which it is refined (REFINE) and the class of its sons (REFINECLASS).      *)

OnLevel(grid, l)  == {e \in DOMAIN grid : LEVEL(e) = l}
LEAFELEM(grid, e) == grid[e].refine = NO_REFINEMENT
Sons(grid, e)     == {s \in DOMAIN grid : grid[s].father = e}
TopLevel(grid)    == Max({LEVEL(e) : e \in DOMAIN grid})

New(father, class) ==
    [father |-> father, class |-> class, refine |-> NO_REFINEMENT, refineclass |-> "NO"]

CoarseGrid(triangles) == [e \in {<<0, t>> : t \in triangles} |-> New(NoElem, "RED")]

(* The first regular element from e downwards. *)
ELEMENT_TO_MARK(grid, e) ==
    LET down[a \in DOMAIN grid] == IF grid[a].class = "RED" THEN a ELSE down[grid[a].father]
    IN  down[e]

(* AdaptLocalGrid: an element whose rule or class changes (REF_TYPE_CHANGES)   *)
(* loses all that is above it, and gets new sons, of its MARKCLASS.            *)
(* mark[e].rule is MARK, mark[e].class MARKCLASS.                              *)
Changed(grid, mark, l) ==
    {e \in OnLevel(grid, l) : mark[e].rule # grid[e].refine \/ mark[e].class # grid[e].refineclass}

(* The new sons, each with its father. *)
Births(grid, mark, l) ==
    UNION {{<<<<l + 1, t>>, f>> : t \in SonCorners(CORNERS(f), mark[f].rule)} : f \in Changed(grid, mark, l)}

Born(grid, mark, l) == {b[1] : b \in Births(grid, mark, l)}

(* What UnrefineElement leaves. *)
Left(grid, mark, l) ==
    LET changed == Changed(grid, mark, l)
        gone[e \in DOMAIN grid] ==
            LEVEL(e) > l /\ (grid[e].father \in changed \/ gone[grid[e].father])
    IN  {e \in DOMAIN grid : ~gone[e]}

AdaptedGrid(grid, mark, l) ==
    LET changed == Changed(grid, mark, l)
        births  == Births(grid, mark, l)
        born    == {b[1] : b \in births}
    IN  [e \in Left(grid, mark, l) \cup born |->
            IF e \in born
            THEN LET f == (CHOOSE b \in births : b[1] = e)[2] IN New(f, mark[f].class)
            ELSE IF e \in changed
            THEN [grid[e] EXCEPT !.refine = mark[e].rule, !.refineclass = mark[e].class]
            ELSE grid[e]]
=============================================================================
