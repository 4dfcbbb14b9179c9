CONSTANTS
  HeaderLen <- MCHeaderLen
  PreambleLen <- MCPreambleLen
  BodyLens <- MCBodyLens
  MaxDgrams <- MCMaxDgrams
  Cap <- MCCap
  RecLens <- MCRecLens
  MaxInbound <- MCMaxInbound
SPECIFICATION Spec
INVARIANT TypeOK
INVARIANT PreambleFirst
INVARIANT StagingSingleDatagram
INVARIANT NoReorder
INVARIANT InboundIntegrity
CHECK_DEADLOCK FALSE
