SPECIFICATION Spec
CONSTANTS
  A = A
  B = B
  Prims = {"void"}
  Idents = {A, B}
  Imported = {"m"}
  MaxTypes = 2
  MaxStructs = 2
  MaxParts = 2
  MaxFrames = 8
  Exports <- MCExports
  Spell <- MCSpell
INVARIANT FieldTypesExist
CHECK_DEADLOCK FALSE
