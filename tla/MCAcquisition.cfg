SPECIFICATION Spec
CONSTANTS
  Bridges <- MCBridges
  Posts <- MCPosts
  Ineligible <- MCIneligible
  Invalid <- MCInvalid
  NumQueries = 3
  Pages <- MCPages
  MaxRecords = 3
INVARIANTS
  TypeOK
  CountsAddUp
  RoundRobinIsFair
  CapIsUsed
  RecordsAreAttributed
  FailureIsLoud
CHECK_DEADLOCK FALSE
