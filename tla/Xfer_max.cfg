SPECIFICATION Spec
CONSTANTS
  p1 = p1
  p2 = p2
  p3 = p3
  g = g
  h = h
  Proc = {p1, p2, p3}
  Gid = {g}
  Prio <- TwoPrios
  PrioMatrix <- MaximumMatrix
  NoPrio = NoPrio
  PrioInvalid = PrioInvalid
  Prune = FALSE
  NoMem = TRUE
  MixPrioDelete = TRUE
  MaxCommands = 4
  MaxRounds = 1
SYMMETRY ProcSymmetry
INVARIANTS Lockstep CouplingConsistency MessagesAgree PhaseDiscipline
PROPERTIES AbortEndsTransfer ImplementsAtomicTransfer
