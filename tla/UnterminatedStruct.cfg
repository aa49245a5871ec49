SPECIFICATION Spec
CONSTANT MaxTokens = 4
PROPERTY ParsingAlwaysEnds
CHECK_DEADLOCK FALSE
