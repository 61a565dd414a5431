-------------------------- MODULE RefineSequential --------------------------
(***************************************************************************)
(* What AdaptMultiGrid promises, without processors: marks are restricted   *)
(* from the finest level down, and on the way up each level is closed,      *)
(* copied around and refined.                                               *)
(***************************************************************************)
EXTENDS TriangleGrid

CONSTANTS
    Grids,           \* coarse grids: sets of triangles
    Markings(_, _)   \* the marks an application may give in a grid

VARIABLES
    grid,
    mark,       \* for each element its MARK (rule), MARKCLASS (class) and COARSEN
    pc, level, toplevel

vars == <<grid, mark, pc, level, toplevel>>

NoMark == [rule |-> NO_REFINEMENT, class |-> "NO", coarsen |-> FALSE]

Init ==
    /\ grid \in {CoarseGrid(triangles) : triangles \in Grids}
    /\ mark = [e \in DOMAIN grid |-> NoMark]
    /\ pc = "mark" /\ level = 0 /\ toplevel = 0

MarkForRefinement ==
    /\ pc = "mark"
    /\ \E given \in Markings(grid, mark) : mark' = given
    /\ pc' = IF toplevel = 0 THEN "up" ELSE "down"
    /\ level' = toplevel
    /\ UNCHANGED <<grid, toplevel>>

(* The closure.  An edge of a regularly marked element is bisected; an         *)
(* element all of whose edges are bisected becomes regular itself, one with    *)
(* some becomes irregular.                                                     *)
Closed(m, l) ==
    LET here     == OnLevel(grid, l)
        regular  == {e \in here : m[e].class = "RED"}
        bisected == UNION {Bisects(m[e].rule) : e \in regular}
    IN  [e \in DOMAIN m |->
            IF e \notin here THEN m[e]
            ELSE LET rule == EDGES(e) \cap bisected
                 IN  [m[e] EXCEPT !.rule = rule,
                                  !.class = IF e \in regular \/ rule = RED(e) THEN "RED"
                                            ELSE IF rule # {} THEN "GREEN" ELSE "NO"]]

GridClosureDown ==
    /\ pc = "down"
    /\ mark' = Closed(mark, level)
    /\ pc' = "restrict"
    /\ UNCHANGED <<grid, level, toplevel>>

(* Only regular elements keep sons: one with irregular sons is refined         *)
(* regularly if one of these is to be refined, one with regular sons is        *)
(* coarsened if all of these agree.                                            *)
Restricted(m, l) ==
    [e \in DOMAIN m |->
        LET sons == Sons(grid, e)
        IN  IF LEVEL(e) # l \/ grid[e].class # "RED" THEN m[e]
            ELSE IF grid[e].refineclass = "GREEN" /\ \E s \in sons : m[s].rule # NO_REFINEMENT
            THEN [m[e] EXCEPT !.rule = RED(e), !.class = "RED"]
            ELSE IF grid[e].refineclass # "RED" THEN m[e]
            ELSE IF \A s \in sons : m[s].coarsen /\ grid[s].refineclass # "RED"
            THEN [NoMark EXCEPT !.coarsen = TRUE]
            ELSE [m[e] EXCEPT !.rule = grid[e].refine, !.class = "RED"]]

RestrictMarks ==
    /\ pc = "restrict"
    /\ mark' = Restricted(mark, level - 1)
    /\ level' = level - 1
    /\ pc' = IF level = 1 THEN "up" ELSE "down"
    /\ UNCHANGED <<grid, toplevel>>

(* Only regular elements keep marks; then the closure again.                   *)
OnlyRegular(m, l) ==
    [e \in DOMAIN m |->
        IF LEVEL(e) = l /\ ~(grid[e].class = "RED" /\ m[e].class = "RED")
        THEN [m[e] EXCEPT !.rule = NO_REFINEMENT] ELSE m[e]]

GridClosureUp ==
    /\ pc = "up"
    /\ mark' = Closed(OnlyRegular(mark, level), level)
    /\ pc' = "copies"
    /\ UNCHANGED <<grid, level, toplevel>>

(* What is not refined is copied within two layers around what is.             *)
Copied(m, l) ==
    LET here       == OnLevel(grid, l)
        touching(N) == UNION {CORNERS(e) : e \in {e \in here : CORNERS(e) \cap N # {}}}
        refined    == {e \in here : m[e].rule # NO_REFINEMENT}
        near       == touching(UNION {CORNERS(e) : e \in refined})
    IN  [e \in DOMAIN m |->
            IF e \in here \ refined /\ CORNERS(e) \cap near # {}
            THEN [m[e] EXCEPT !.rule = COPY, !.class = "YELLOW"] ELSE m[e]]

ComputeCopies ==
    /\ pc = "copies"
    /\ mark' = Copied(mark, level)
    /\ pc' = "adapt"
    /\ UNCHANGED <<grid, level, toplevel>>

(* The sons are made; a level that has none yet is only touched if it gets some. *)
Refine(l) == l < toplevel \/ \E e \in OnLevel(grid, l) : mark[e].rule # NO_REFINEMENT

MarksAfter(newgrid, m, l) ==
    LET born == Born(grid, m, l)
    IN  [e \in DOMAIN newgrid |->
            IF e \in born THEN NoMark
            ELSE IF LEVEL(e) = l THEN [m[e] EXCEPT !.coarsen = FALSE] ELSE m[e]]

AdaptGrid ==
    /\ pc = "adapt"
    /\ IF Refine(level)
       THEN /\ grid' = AdaptedGrid(grid, mark, level)
            /\ mark' = MarksAfter(grid', mark, level)
       ELSE UNCHANGED <<grid, mark>>
    /\ IF level = toplevel THEN pc' = "end" /\ UNCHANGED level
                           ELSE pc' = "up" /\ level' = level + 1
    /\ UNCHANGED toplevel

(* Empty levels are dropped. *)
DisposeTopLevel ==
    /\ pc = "end"
    /\ pc' = "mark" /\ level' = 0
    /\ toplevel' = TopLevel(grid)
    /\ UNCHANGED <<grid, mark>>

Next == MarkForRefinement \/ GridClosureDown \/ RestrictMarks \/ GridClosureUp
            \/ ComputeCopies \/ AdaptGrid \/ DisposeTopLevel

Spec == Init /\ [][Next]_vars
=============================================================================
