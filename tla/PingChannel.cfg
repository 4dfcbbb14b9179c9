CONSTANTS
  a4 = a4
  a6 = a6
  IPs4 <- MCIPs4
  IPs6 <- MCIPs6
  V4Len = 3
  V6Len = 4
  MaxAnswers = 3
  MaxResets = 1
SPECIFICATION Spec
INVARIANT DecodeFaithful
PROPERTY AnswerEventuallyApplied
CHECK_DEADLOCK FALSE
