CONSTANTS
  a = a
  b = b
  c = c
  IPs <- MCIPs
  NoBypass <- MCNoBypass
  Dedup = 2
  Stale = 1
  MaxTime = 3
  LocalPings <- MCLocalPings
  LocalLosts <- MCLocalLosts
  RemotePings <- MCRemotePings
  RemoteLosts <- MCRemoteLosts
  CondPings <- MCCondPings
  CondLosts <- MCCondLosts
SPECIFICATION Spec
INVARIANT NoBypassRespected
CHECK_DEADLOCK FALSE
