CONSTANTS
  Fds <- MCFds
  MaxStarts = 3
  MaxFlags = 1
  HostRestarts = FALSE
SPECIFICATION Spec
INVARIANT StatusReflectsVpn
CHECK_DEADLOCK FALSE
