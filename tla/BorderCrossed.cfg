SPECIFICATION MCSpec
CONSTANTS
  m = m
  a = a
  d = d
  e = e
  x = x
  y = y
  Names = {m, a, d, e}
  NoName = NoName
  Client = "validator"
  Paths = {m, a, d}
  Base <- MCBase
  Main = m
  Decls = {x, y}
  MaxFiles = 5
PROPERTY BorderEndsModule
