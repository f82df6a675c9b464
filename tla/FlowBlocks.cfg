SPECIFICATION Spec
CONSTANTS
  Graph <- Blocks
  TopLevel = "process"
  NoFlow = NoFlow
  Root = Root
  ItemCounts = {1, 2}
  Repeatable = {"START", "TOKEN_AT_NODE", "WORK_COMPLETED", "DECISION_RECORDED", "MULTI_INSTANCE_RESOLVED"}
  MaxRepeats = 1
  MaxTokens = 15
INVARIANT ActiveTokensMove
INVARIANT JoinsHoldTheirTokens
INVARIANT StallsOnlyWhenCompleted
PROPERTY ImplementsTokenGame
CHECK_DEADLOCK FALSE
