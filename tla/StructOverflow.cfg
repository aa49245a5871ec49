SPECIFICATION MCSpec
CONSTANTS
  a = a
  b = b
  c = c
  d = d
  Names = {a, b, c, d}
  NoName = NoName
  Client = "codegen"
  MaxDepth = 4
INVARIANT RecursiveIsReported
