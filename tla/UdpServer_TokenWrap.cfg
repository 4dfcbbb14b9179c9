CONSTANTS
  s1 = s1
  s2 = s2
  d1 = d1
  d2 = d2
  Srcs <- MCSrcs
  Dsts <- MCDsts
  NumIndex = 2
  Idle = 1
  MaxConns = 3
  MaxTime = 3
SYMMETRY MCSymmetry
SPECIFICATION Spec
INVARIANT TablesAgree
CHECK_DEADLOCK FALSE
