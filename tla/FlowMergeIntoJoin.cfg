SPECIFICATION Spec
CONSTANTS
  Graph <- MergeIntoJoin
  TopLevel = "process"
  NoFlow = NoFlow
  Root = Root
  ItemCounts = {1, 2}
  Repeatable = {}
  MaxRepeats = 0
  MaxTokens = 100
INVARIANT JoinsHoldTheirTokens
CHECK_DEADLOCK FALSE
