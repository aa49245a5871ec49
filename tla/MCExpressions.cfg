SPECIFICATION MCSpec
CONSTANTS
  Names = {"v", "b", "s", "t", "p", "k", "f", "x", "n", "m", "y", "q"}
  Tokens = {"v", "+", "*", "=", "-", "(", ")", ";", "f", ",", ".", "s", "1", "u32", "void", "true"}
  Rare = {"f", "-", ",", ".", "s", "1", "u32", "void", "true"}
  MaxTokens = 6
  ObjectType <- MCObjectType
  Functions = {"f"}
  Methods = {"m", "q"}
  TypeInfo <- MCTypeInfo
INVARIANTS
  ParsesByPrecedence
  AcceptedAreWellTyped
  RefusedAreIllTyped
  AbortsAreKnown
  GeneratedMeansSource
