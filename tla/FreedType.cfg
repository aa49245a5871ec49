SPECIFICATION Spec
CONSTANTS
  A = A
  B = B
  Prims = {"void"}
  Idents = {A, B}
  Imported = {}
  MaxTypes = 2
  MaxStructs = 2
  MaxParts = 2
  MaxFrames = 8
  Exports <- NoExports
  Spell <- MCSpell
INVARIANT OwnedTypesLive
CHECK_DEADLOCK FALSE
