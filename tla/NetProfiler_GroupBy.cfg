CONSTANTS
  a = a
  b = b
  c = c
  IPs <- MCIPs3
  NoBypass <- MCNoBypass
  Dedup = 2
  Stale = 1
  MaxTime = 2
  LocalPings <- MCLocalPings
  LocalLosts <- MCLocalLosts
  RemotePings <- MCRemotePings
  RemoteLosts <- MCRemoteLosts
  CondPings <- MCCondPings
  CondLosts <- MCCondLosts
SPECIFICATION Spec
CHECK_DEADLOCK FALSE
INVARIANT CompleteRowsDecided
