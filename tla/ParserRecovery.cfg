SPECIFICATION Spec
CONSTANT MaxTokens = 8
INVARIANTS
  ScopesMirrorFrames
  DeferOnlyInFunctionBlock
  AcceptedIsBalanced
  AbortsOnlyAfterError
PROPERTY ParsingEnds
CHECK_DEADLOCK FALSE
