SPECIFICATION Spec
CONSTANTS
  A = A
  B = B
  Prims = {"void"}
  Idents = {A, B}
  Imported = {"m"}
  MaxTypes = 2
  MaxStructs = 1
  MaxParts = 2
  MaxFrames = 8
  Exports <- MCExports
  Spell <- MCSpell
INVARIANTS
  MirrorsParsed
  EveryTypeHasPointer
  AbortsOnlyOnImportedTypes
  ErrorsAreTrue
PROPERTY ValidationEnds
CHECK_DEADLOCK FALSE
