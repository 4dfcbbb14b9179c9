CONSTANTS
  HeaderLen <- MCHeaderLen
  PreambleLen <- MCPreambleLen
  BodyLens <- MCBodyLens
  MaxDgrams <- MCMaxDgrams
  Cap <- MCCap
  RecLens <- MCRecLens
  MaxInbound <- MCMaxInbound
SPECIFICATION Spec
CHECK_DEADLOCK FALSE
INVARIANT NoOversizeClose
