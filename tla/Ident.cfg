SPECIFICATION Spec
CONSTANTS
  a = a
  b = b
  c = c
  d = d
  e = e
  g = g
  h = h
  k = k
  z = z
  u = u
  Proc <- Everybody
  Obj <- Objects
  Owners <- Copies
  TypeOf <- Types
  Session <- When
  Identifiers <- Known
  Depth <- Chains
  Orders <- CreationOrders
  Reversing = {1, 2}
  Changing = {a}
  Sessions = 3
  GidBase = 100
INVARIANTS TablesInv IdentifiedRight ThrowsTogether AnswerComes
CHECK_DEADLOCK FALSE
