SPECIFICATION Spec
CONSTANTS
  Graph <- Scopes
  TopLevel = "process"
  NoFlow = NoFlow
  Root = Root
  ItemCounts = {1, 2}
  Repeatable = {"START", "TOKEN_AT_NODE", "WORK_COMPLETED", "DECISION_RECORDED"}
  MaxRepeats = 1
  MaxTokens = 24
INVARIANT WaitsMatchTokens
INVARIANT MultiInstanceCount
INVARIANT LiveTokensHaveScopes
INVARIANT CompletedMeansNothingLeft
PROPERTY ImplementsTokenGame
CHECK_DEADLOCK FALSE
