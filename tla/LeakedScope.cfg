SPECIFICATION Spec
CONSTANT MaxTokens = 8
INVARIANT ScopeRulesHold
CHECK_DEADLOCK FALSE
