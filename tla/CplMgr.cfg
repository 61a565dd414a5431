SPECIFICATION Spec
CONSTANTS
  h1 = h1
  h2 = h2
  q1 = q1
  q2 = q2
  c1 = c1
  c2 = c2
  c3 = c3
  Hdr = {h1, h2}
  NoHdr = NoHdr
  Proc = {q1, q2}
  Prio = {1, 2}
  Cell = {c1, c2, c3}
  NoPrio = NoPrio
  CplStart = 1
  IntMax = 9
  MaxCoupled = 2
  NoMem = TRUE
SYMMETRY Symmetry
INVARIANTS TypeOK SlotsConsistent ListsConsistent CountsConsistent
PROPERTY ImplementsCouplingLists
