CONSTANTS
  Spans <- MCSpans
  MaxList = 2
  MaxWrites = 2
  MaxCalls = 3
  ConnectorFails = TRUE
  PieceSets <- MCPieceSets
  Gaps <- MCGaps
SPECIFICATION Spec
CHECK_DEADLOCK FALSE
INVARIANTS
  OkIsComplete
