SPECIFICATION Spec
CONSTANTS
  p1 = p1
  p2 = p2
  p3 = p3
  Proc = {p1, p2, p3}
  Homes <- SmallHomes
  MaxRed = 1
  MaxLevel <- SmallLevel
  MaxRounds = 3
INVARIANTS CopiesAgree HierarchyRight MarksHonoured
PROPERTY ImplementsSequential
CHECK_DEADLOCK FALSE
