CONSTANTS
  a = a
  b = b
  c = c
  IPs <- MCIPs
  NoBypass <- MCNoBypass
  Dedup = 2
  Stale = 1
  MaxTime = 2
  LocalPings <- MCLocalPings
  LocalLosts <- MCLocalLosts
  RemotePings <- MCRemotePings
  RemoteLosts <- MCRemoteLosts
  CondPings <- MCCondPings
  CondLosts <- MCCondLosts
SPECIFICATION Spec
INVARIANT TypeOK
PROPERTY DedupWindow
CHECK_DEADLOCK FALSE
