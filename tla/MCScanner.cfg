SPECIFICATION MCSpec
CONSTANTS
  Texts <- MCTexts
  Letters = {"a", "e", "x", "t", "p", "r", "n"}
  Digits = {"1"}
  Keywords <- MCKeywords
  DepthModulus = 4
INVARIANTS
  TokensAreExact
  CommentsNest
  StringsClose
