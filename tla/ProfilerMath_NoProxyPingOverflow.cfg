SPECIFICATION Spec
INVARIANT NoProxyPingOverflow
CHECK_DEADLOCK FALSE
