SPECIFICATION Spec
CONSTANTS
  a0 = a0
  a1 = a1
  b0 = b0
  b1 = b1
  x2 = x2
  y2 = y2
  z3 = z3
  Proc <- Processors
  Obj <- Objects
  Home <- Homes
  Attr <- Attributes
  Prio = {1, 2}
  A = {1}
  B = {1, 2}
  Explicit = {3}
  Changing = {a0, x2}
  Programs <- Sequences
  Joining = {x2, y2, z3}
  Targets <- JoinTargets
  Deletable = {b1}
  Moving = {b0}
  FirstGids <- Gids
  FirstPrios <- Priorities
  Shared = FALSE
INVARIANTS CouplingInv InterfacesMatch ExchangeMatches ShortcutsCurrent SomebodyGoesOn NoFalseAlarm
CHECK_DEADLOCK FALSE
