--------------------------- MODULE AdaptMultiGrid ---------------------------
(***************************************************************************)
(* AdaptMultiGrid of gm/refine.cc for a distributed multigrid of triangles, *)
(* with the default modes: closure by irregular elements, copies near them, *)
(* no FIFO.                                                                 *)
(*                                                                          *)
(* Each processor has copies of elements: its masters and, as ghosts, their *)
(* neighbours (OverlapRight of Partitioning).  The structure of the grid is *)
(* the same on all copies as long as these agree on the refinement          *)
(* (CopiesAgree), so it is kept once; the marks are kept for each copy.     *)
(* Elements live where their fathers live, as lbs leaves them unless it     *)
(* treats levels on their own; so there are no vertical ghosts.             *)
(*                                                                          *)
(* All processors take a step together: a step communicates over interfaces *)
(* of one level, and writes copies of its own processor only.               *)
(***************************************************************************)
EXTENDS TriangleGrid

CONSTANTS
    Proc,
    Homes,           \* distributions of coarse grids: functions from triangles to Proc
    MaxRed,          \* bounds: marks for refinement in one call,
    MaxLevel(_),     \* level up to which a grid has elements,
    MaxRounds        \* calls of AdaptMultiGrid

ASSUME HomesAssumption == \A where \in Homes : where \in [DOMAIN where -> Proc]

VARIABLES
    grid,
    home,      \* the processor of each element's master copy
    copy,      \* copy[p][e]: MARK, MARKCLASS and COARSEN of p's copy of e
    pc, level, toplevel,
    rounds,
    before     \* the grid and the marks when AdaptMultiGrid was called

vars == <<grid, home, copy, pc, level, toplevel, rounds, before>>

NoMark == [rule |-> NO_REFINEMENT, class |-> "NO", coarsen |-> FALSE]

------------------------------------------------------------------------------
(* What the processors have on a level: sets of pairs <<p, e>>.               *)

EMASTER(p, e)   == home[e] = p
Copies(l)       == UNION {{p} \X {e \in DOMAIN copy[p] : LEVEL(e) = l} : p \in Proc}
MasterCopies(l) == {pe \in Copies(l) : EMASTER(pe[1], pe[2])}
MasterMarks     == [e \in DOMAIN grid |-> copy[home[e]][e]]

(* Loops over the elements of one level. *)
ForAll(l, Body(_, _)) ==
    [p \in Proc |-> [e \in DOMAIN copy[p] |-> IF LEVEL(e) = l THEN Body(p, e) ELSE copy[p][e]]]

(* The masters of a processor, and their neighbours at a side. *)
Overlap(p, S) ==
    LET sides == UNION {{<<LEVEL(e), ed>> : ed \in EDGES(e)} : e \in {e \in S : EMASTER(p, e)}}
    IN  {e \in S : \E ed \in EDGES(e) : <<LEVEL(e), ed>> \in sides}

Init ==
    /\ \E where \in Homes :
          /\ grid = CoarseGrid(DOMAIN where)
          /\ home = [e \in DOMAIN grid |-> where[CORNERS(e)]]
    /\ copy = [p \in Proc |-> [e \in Overlap(p, DOMAIN grid) |-> NoMark]]
    /\ pc = "mark" /\ level = 0 /\ toplevel = 0 /\ rounds = 0
    /\ before = [grid |-> <<>>, mark |-> <<>>]

------------------------------------------------------------------------------
(* The application marks leaves, on the processor that has the master:         *)
(* MarkForRefinement goes with RED down to the first regular element, with     *)
(* COARSE it stays.  To coarsen, a family is marked, or all of it but one.     *)

Targets(g) == {ELEMENT_TO_MARK(g, e) : e \in {e \in DOMAIN g : LEAFELEM(g, e)}}
Families(g) ==
    {{s \in Sons(g, f) : LEAFELEM(g, s)} : f \in {f \in DOMAIN g : g[f].refineclass = "RED"}} \ {{}}
CoarseSets(g) ==
    {{}} \cup Families(g) \cup {f \ {s} : f \in Families(g), s \in UNION Families(g)}

Marked(g, m, red, coarse) ==
    [e \in DOMAIN g |->
        IF e \in red THEN [rule |-> RED(e), class |-> "RED",
                           coarsen |-> m[e].coarsen /\ ~LEAFELEM(g, e)]
        ELSE IF e \in coarse THEN [NoMark EXCEPT !.coarsen = TRUE] ELSE m[e]]

Markings(g, m) ==
    {Marked(g, m, red, coarse) :
        red \in UNION {kSubset(n, {e \in Targets(g) : LEVEL(e) < MaxLevel(g)}) : n \in 0 .. MaxRed},
        coarse \in CoarseSets(g)}

MarkForRefinement ==
    /\ pc = "mark" /\ rounds < MaxRounds
    /\ \E given \in Markings(grid, MasterMarks) :
          /\ copy' = [p \in Proc |-> [e \in DOMAIN copy[p] |->
                         IF EMASTER(p, e) THEN given[e] ELSE copy[p][e]]]
          /\ before' = [grid |-> grid, mark |-> given]
    /\ pc' = IF toplevel = 0 THEN "up" ELSE "down"
    /\ level' = toplevel
    /\ rounds' = rounds + 1
    /\ UNCHANGED <<grid, home, toplevel>>

------------------------------------------------------------------------------
(* GridClosure.  PATTERN and ADDPATTERN are fields of the edges a processor     *)
(* has; here, sets of pairs <<p, edge>>.                                        *)

Sides(l) == UNION {{<<pe[1], pe[2], ed>> : ed \in EDGES(pe[2])} : pe \in Copies(l)}

(* Of the masters only: ghosts do not know yet what RestrictMarks did to these. *)
ComputePatterns(l, marked) ==
    UNION {{pe[1]} \X Bisects(copy[pe[1]][pe[2]].rule) :
              pe \in {pe \in MasterCopies(l) : pe[2] \in marked /\ copy[pe[1]][pe[2]].class = "RED"}}

(* ExchangeClosureInfo over ElementSymmVHIF: all copies of an element tell each *)
(* other the patterns of its edges, so that a ghost learns of a bisected edge   *)
(* even from a ghost next to which it is bisected.                              *)
ExchangePatternsVHIF(pattern, l) ==    \* mutant: masters tell ghosts only
    LET told == {<<s[2], s[3]>> :
                    s \in {s \in Sides(l) : EMASTER(s[1], s[2]) /\ <<s[1], s[3]>> \in pattern}}
    IN  pattern \cup {<<s[1], s[3]>> : s \in {s \in Sides(l) : <<s[2], s[3]>> \in told}}
ExchangePatterns(pattern, l) ==
    LET told == {<<s[2], s[3]>> : s \in {s \in Sides(l) : <<s[1], s[3]>> \in pattern}}
    IN  pattern \cup {<<s[1], s[3]>> : s \in {s \in Sides(l) : <<s[2], s[3]>> \in told}}

(* ADDPATTERN over ElementVHIF: the masters tell the ghosts.                    *)
ExchangeAddPatterns(zero, l) ==
    LET told == {<<s[2], s[3]>> :
                    s \in {s \in Sides(l) : EMASTER(s[1], s[2]) /\ <<s[1], s[3]>> \in zero}}
    IN  zero \cup {<<s[1], s[3]>> : s \in {s \in Sides(l) : <<s[2], s[3]>> \in told}}

(* SetElementRules makes a rule of the pattern; one that bisects all edges      *)
(* switches to the regular class.  SetAddPatterns notes the edges that regular  *)
(* elements bisect, by which BuildGreenClosure makes the others green.          *)
GridClosure(l, marked) ==
    LET pattern    == ExchangePatterns(ComputePatterns(l, marked), l)
        rule(p, e) == {ed \in EDGES(e) : <<p, ed>> \in pattern}
        regular    == {pe \in Copies(l) : \/ copy[home[pe[2]]][pe[2]].class = "RED"
                                          \/ rule(pe[1], pe[2]) = RED(pe[2])}
        zero       == ExchangeAddPatterns(UNION {{pe[1]} \X rule(pe[1], pe[2]) : pe \in regular}, l)
    IN  ForAll(l, LAMBDA p, e :
            [rule    |-> rule(p, e),
             class   |-> IF <<p, e>> \in regular THEN "RED"
                         ELSE IF \E ed \in EDGES(e) : <<p, ed>> \in zero THEN "GREEN" ELSE "NO",
             coarsen |-> copy[home[e]][e].coarsen])

GridClosureDown ==
    /\ pc = "down"
    /\ copy' = GridClosure(level, DOMAIN grid)
    /\ pc' = "restrict"
    /\ UNCHANGED <<grid, home, level, toplevel, rounds, before>>

(* On the way up only the marks of regular elements are left. *)
GridClosureUp ==
    /\ pc = "up"
    /\ copy' = GridClosure(level, {e \in DOMAIN grid : grid[e].class = "RED"})
    /\ pc' = "copies"
    /\ UNCHANGED <<grid, home, level, toplevel, rounds, before>>

------------------------------------------------------------------------------
(* RestrictMarks: for the masters, from the sons the processor has.            *)

GetSons(p, e) == {s \in Sons(grid, e) : EMASTER(p, s)}

RestrictElementMark(m, e) == [m EXCEPT !.rule = RED(e), !.class = "RED"]

(* Is a son of an element with irregular sons to be refined, and do all sons    *)
(* agree to be coarsened?                                                      *)
SonMarkedRegular(p, e) == \E s \in GetSons(p, e) : copy[p][s].class = "RED"    \* mutant
SonMarked(p, e)        == \E s \in GetSons(p, e) : copy[p][s].rule # NO_REFINEMENT

SonsCoarsenFirst(p, e) ==    \* mutant: one son decides
    \E s \in GetSons(p, e) : copy[p][s].coarsen /\ grid[s].refineclass # "RED"
SonsCoarsen(p, e) ==
    /\ GetSons(p, e) # {}
    /\ \A s \in GetSons(p, e) : copy[p][s].coarsen /\ grid[s].refineclass # "RED"

(* Irregular elements, unrefined ones and those with copies are left alone.    *)
RestrictedMark(p, e) ==
    LET m == copy[p][e]
    IN  CASE grid[e].class = "RED" /\ grid[e].refineclass = "GREEN" ->
                IF SonMarked(p, e) THEN RestrictElementMark(m, e) ELSE m
          [] grid[e].class = "RED" /\ grid[e].refineclass = "RED" ->
                IF SonsCoarsen(p, e) THEN [NoMark EXCEPT !.coarsen = TRUE]
                ELSE [m EXCEPT !.rule = grid[e].refine, !.class = "RED"]
          [] OTHER -> m

RestrictMarks ==
    /\ pc = "restrict"
    /\ copy' = ForAll(level - 1, LAMBDA p, e :
                  IF EMASTER(p, e) THEN RestrictedMark(p, e) ELSE copy[p][e])
    /\ level' = level - 1
    /\ pc' = IF level = 1 THEN "up" ELSE "down"
    /\ UNCHANGED <<grid, home, toplevel, rounds, before>>

------------------------------------------------------------------------------
(* ComputeCopies.  NNCLASS is at least 2 at the nodes of refined elements,      *)
(* which have 3, and of elements next to these: a set of pairs <<p, node>>.     *)

CornersOf(copies) == UNION {{pe[1]} \X CORNERS(pe[2]) : pe \in copies}

(* Over BorderNodeSymmIF, among the processors that have masters at a node.     *)
BorderExchange(next, l) ==
    LET border == CornersOf(MasterCopies(l))
        told   == {pn[2] : pn \in next \cap border}
    IN  next \cup {pn \in border : pn[2] \in told}

(* Over NodeIF, to the others. *)
GhostExchange(next, l) ==
    LET border == CornersOf(MasterCopies(l))
        told   == {pn[2] : pn \in next \cap border}
    IN  (next \cap border) \cup {pn \in CornersOf(Copies(l)) \ border : pn[2] \in told}

PropagateNextNodeClassesOnce(seeded, l) ==    \* mutant: one exchange less
    LET three == BorderExchange(seeded, l)
        near  == {pe \in MasterCopies(l) : \E n \in CORNERS(pe[2]) : <<pe[1], n>> \in three}
    IN  GhostExchange(three \cup CornersOf(near), l)
PropagateNextNodeClasses(seeded, l) ==
    LET three == BorderExchange(seeded, l)
        near  == {pe \in MasterCopies(l) : \E n \in CORNERS(pe[2]) : <<pe[1], n>> \in three}
    IN  GhostExchange(BorderExchange(three \cup CornersOf(near), l), l)

ComputeCopies ==
    /\ pc = "copies"
    /\ LET refined == {pe \in Copies(level) : LET m == copy[pe[1]][pe[2]] IN
                          m.rule # NO_REFINEMENT /\ m.class \in {"RED", "GREEN"}}
           next    == PropagateNextNodeClasses(CornersOf(refined), level)
       IN  copy' = ForAll(level, LAMBDA p, e :
                       IF copy[p][e].rule = NO_REFINEMENT /\ \E n \in CORNERS(e) : <<p, n>> \in next
                       THEN [copy[p][e] EXCEPT !.rule = COPY, !.class = "YELLOW"]
                       ELSE copy[p][e])
    /\ pc' = "adapt"
    /\ UNCHANGED <<grid, home, level, toplevel, rounds, before>>

------------------------------------------------------------------------------
(* AdaptGrid: AdaptLocalGrid, then the overlap of the next level.  Without      *)
(* elements to refine there is no level above the top, and nothing is done,     *)
(* not even COARSEN reset.                                                      *)
AdaptLevel ==
    level < toplevel \/ \E pe \in Copies(level) : copy[pe[1]][pe[2]].rule # NO_REFINEMENT

(* Get_Sons_of_ElementSide *)
SonsOfSide(g, e, ed) ==
    {s \in Sons(g, e) : EDGES(s) \cap ({ed} \cup {{n, MidNode(ed)} : n \in ed}) # {}}

(* UpdateElementOverlap: the master of e sends the sons at the side of a         *)
(* refined neighbour to the master of that, if e has changed.  A yellow element  *)
(* also does so if its neighbour has changed: it may have been unrefined before. *)
UpdateElementOverlapChanged(g, changed, e, n) == e \in changed    \* mutant: not for copies
UpdateElementOverlap(g, changed, e, n) ==
    e \in changed \/ (g[e].refineclass = "YELLOW" /\ n \in changed)

UpdateGridOverlap(g, changed, l) ==
    LET ghosts   == {pe \in Copies(l) : ~EMASTER(pe[1], pe[2]) /\ ~LEAFELEM(g, pe[2])}
        to(e, n) == {home[n]} \X UNION {SonsOfSide(g, e, ed) : ed \in EDGES(e) \cap EDGES(n)}
    IN  UNION {UNION {to(e, pn[2]) :
                  e \in {e \in OnLevel(g, l) :
                           /\ EMASTER(pn[1], e) /\ ~LEAFELEM(g, e)
                           /\ UpdateElementOverlap(g, changed, e, pn[2])}} : pn \in ghosts}

(* Copies of sons go with those of their father, on all processors; new ones are *)
(* where their father's master is, or are sent as ghosts.                        *)
AdaptGrid ==
    /\ pc = "adapt"
    /\ IF AdaptLevel
       THEN \E marks \in {MasterMarks} :
            \E born \in {Born(grid, marks, level)}, kept \in {Left(grid, marks, level)} :
               /\ grid' = AdaptedGrid(grid, marks, level)
               /\ home' = [e \in DOMAIN grid' |-> IF e \in born THEN home[grid'[e].father] ELSE home[e]]
               /\ \E sent \in {UpdateGridOverlap(grid', Changed(grid, marks, level), level)} :
                     LET there(p) == (kept \cap DOMAIN copy[p]) \cup {e \in born : home'[e] = p}
                                        \cup {pe[2] : pe \in {pe \in sent : pe[1] = p}}
                     IN  copy' = [p \in Proc |-> [e \in there(p) |->
                                  IF e \in born THEN NoMark
                                  ELSE IF <<p, e>> \in sent THEN marks[e]
                                  ELSE IF LEVEL(e) = level THEN [copy[p][e] EXCEPT !.coarsen = FALSE]
                                  ELSE copy[p][e]]]
       ELSE UNCHANGED <<grid, home, copy>>
    /\ IF level = toplevel THEN pc' = "end" /\ UNCHANGED level
                           ELSE pc' = "up" /\ level' = level + 1
    /\ UNCHANGED <<toplevel, rounds, before>>

(* The end of AdaptMultiGrid: empty levels are disposed. *)
DisposeTopLevel ==
    /\ pc = "end"
    /\ pc' = "mark" /\ level' = 0
    /\ toplevel' = TopLevel(grid)
    /\ before' = [grid |-> <<>>, mark |-> <<>>]
    /\ UNCHANGED <<grid, home, copy, rounds>>

Next == MarkForRefinement \/ GridClosureDown \/ RestrictMarks \/ GridClosureUp
            \/ ComputeCopies \/ AdaptGrid \/ DisposeTopLevel

Spec == Init /\ [][Next]_vars
------------------------------------------------------------------------------
(* After GridClosure, after ComputeCopies and as it is refined, a level is       *)
(* marked alike on all copies (CheckElementInfo, in debug builds), and each      *)
(* processor has copies of all neighbours of its masters: processors that        *)
(* disagreed would refine their copies of an element differently.                *)
CopiesAgree ==
    pc \in {"restrict", "copies", "adapt"} =>
        /\ \A p \in Proc : Overlap(p, OnLevel(grid, level)) \subseteq DOMAIN copy[p]
        /\ \A pe \in Copies(level) : copy[pe[1]][pe[2]] = copy[home[pe[2]]][pe[2]]

(* The leaves fit together: none has a node of another on the middle of an edge. *)
NoHangingNodes ==
    LET leaves == {e \in DOMAIN grid : LEAFELEM(grid, e)}
        nodes  == UNION {CORNERS(e) : e \in leaves}
    IN  \A e \in leaves : \A ed \in EDGES(e) : MidNode(ed) \notin nodes

(* "green or yellow elements might not have sons of class green or red"          *)
(* (head of refine.cc): before an element next to irregular ones is refined,     *)
(* these become regular.  The code keeps to this but for one case: a regularly   *)
(* refined element that is coarsened in the same call, next to an element that   *)
(* stays refined, gets irregular sons, and those may border on a refinement.     *)
IrregularCopied ==
    \A e \in DOMAIN grid :
        \/ grid[e].class = "RED"
        \/ grid[e].refineclass \in {"NO", "YELLOW"}
        \/ /\ grid[e].refineclass = "GREEN"
           /\ \/ e \in DOMAIN before.grid /\ before.grid[e].refineclass = "GREEN"
              \/ before.grid[grid[e].father].refineclass = "RED"

(* When AdaptMultiGrid returns, the hierarchy is a valid one.                    *)
HierarchyRight == pc = "end" => NoHangingNodes /\ IrregularCopied

(* And it is the one that was asked for: every element marked for refinement is  *)
(* refined regularly, and no regular element has gone but those of families all  *)
(* of whose members were marked to be coarsened, and were not refined.           *)
MarksHonoured ==
    pc = "end" =>
        \A e \in DOMAIN before.grid :
            /\ before.mark[e].class = "RED" /\ before.grid[e].refineclass # "RED" =>
                  e \in DOMAIN grid /\ grid[e].refineclass = "RED"
            /\ before.grid[e].class = "RED" /\ e \notin DOMAIN grid =>
                  \A s \in Sons(before.grid, before.grid[e].father) :
                      before.mark[s].coarsen /\ before.grid[s].refineclass # "RED"

(* However the elements are distributed, the masters get the marks and the       *)
(* refinement they would have on a single processor.                             *)
Sequential == INSTANCE RefineSequential WITH
                  mark <- MasterMarks, Grids <- {DOMAIN where : where \in Homes}
ImplementsSequential == Sequential!Spec
=============================================================================
