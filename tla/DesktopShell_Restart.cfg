CONSTANT MaxStarts = 2
SPECIFICATION Spec
INVARIANT NoOrphan
CHECK_DEADLOCK FALSE
