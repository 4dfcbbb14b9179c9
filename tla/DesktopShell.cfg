CONSTANT MaxStarts = 2
SPECIFICATION Spec
INVARIANT IdleShowsStopped
CHECK_DEADLOCK FALSE
