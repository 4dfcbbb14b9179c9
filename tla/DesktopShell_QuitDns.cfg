CONSTANT MaxStarts = 1
SPECIFICATION Spec
INVARIANT QuitRestoresDns
CHECK_DEADLOCK FALSE
