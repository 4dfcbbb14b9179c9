SPECIFICATION Spec
INVARIANT ProbeAverage
CHECK_DEADLOCK FALSE
