CONSTANTS
  Fds <- MCFds
  MaxStarts = 3
  MaxFlags = 3
  HostRestarts = FALSE
SPECIFICATION Spec
PROPERTY ImplementsAbstractVpn
CHECK_DEADLOCK FALSE
