SPECIFICATION ParseSpec
CONSTANTS
  Names = {"v"}
  Tokens = {"v", "+", "*", ";"}
  MaxTokens = 6
CHECK_DEADLOCK FALSE
INVARIANT
  FactorsBindTighter
