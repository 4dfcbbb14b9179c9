CONSTANT MaxStarts = 1
SPECIFICATION Spec
PROPERTY CleanupCompletes
CHECK_DEADLOCK FALSE
