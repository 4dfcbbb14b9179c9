CONSTANTS
  s1 = s1
  s2 = s2
  d1 = d1
  d2 = d2
  Srcs <- MCSrcs
  Dsts <- MCDsts
  NumIndex = 3
  Idle = 1
  MaxConns = 3
  MaxTime = 1
SYMMETRY MCSymmetry
SPECIFICATION Spec
INVARIANT TypeOK
INVARIANT TablesAgree
INVARIANT ClosedRemoved
CHECK_DEADLOCK FALSE
