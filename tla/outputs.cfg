SPECIFICATION FreshSpec
CONSTANTS
  Block <- MCBlock
  Turnout = {"x"}
  Signal = {"s1", "s2"}
  ThreeAspect = {"s1"}
  Output <- MCOutput
  Path <- MCPath
  NoPath = NoPath
  PathInfo <- MCPathInfo
  Ahead <- MCAhead
  Items <- MCItems
  Outputs <- MCOutputs
  Actions <- MCDefaultActions
  Value = {"First", "Second"}
  Foreign <- MCForeign
  MaxInputs = 3
INVARIANTS AspectIsCurrent ShownIsTrue
PROPERTIES FeedbackDies
CHECK_DEADLOCK FALSE
