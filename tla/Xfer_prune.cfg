SPECIFICATION Spec
CONSTANTS
  p1 = p1
  p2 = p2
  p3 = p3
  g = g
  h = h
  Proc = {p1, p2, p3}
  Gid = {g}
  Prio <- GhostPrios
  PrioMatrix <- GhostMatrix
  NoPrio = NoPrio
  PrioInvalid = PrioInvalid
  Prune = TRUE
  NoMem = FALSE
  MixPrioDelete = FALSE
  MaxCommands = 3
  MaxRounds = 1
SYMMETRY ProcSymmetry
INVARIANT CouplingConsistency
