SPECIFICATION GenSpec
CONSTANTS
  Self = "M"
  Imports = {"n"}
  ImportedScopes <- Imported
  NoName = NoName
  Words <- WordsOf
  ModuleWords <- WordsOfModule
  MaxStatements = 2
INVARIANTS
  ShadowingReachesC
  ModuleVariablesReachC
  NamesAreApart
