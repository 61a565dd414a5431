SPECIFICATION FairSpec
CONSTANTS
  p1 = p1
  p2 = p2
  p3 = p3
  g = g
  h = h
  Proc = {p1, p2}
  Gid = {g}
  Prio <- TwoPrios
  PrioMatrix <- MaximumMatrix
  NoPrio = NoPrio
  PrioInvalid = PrioInvalid
  Prune = FALSE
  NoMem = TRUE
  MixPrioDelete = TRUE
  MaxCommands = 3
  MaxRounds = 2
PROPERTY XferEndReturns
