CONSTANTS
  Fds <- MCFds
  MaxStarts = 3
  MaxFlags = 1
  HostRestarts = TRUE
SPECIFICATION Spec
PROPERTY StopStopsThreads
CHECK_DEADLOCK FALSE
