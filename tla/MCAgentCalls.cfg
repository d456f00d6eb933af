SPECIFICATION Spec
CONSTANTS
  NoAnswer = NoAnswer
  NumElements = 2
  EngineStatuses <- MCStatuses
  MaxRetries = 1
  MaxDeaths = 1
  MaxRewrites = 1
INVARIANTS
  TypeOK
  RecordsTellTheOutcome
PROPERTIES
  NodeIsAtomicSpec
  AnswersAreToTheirPrompt
  NodeReturns
CHECK_DEADLOCK FALSE
