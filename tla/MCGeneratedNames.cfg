SPECIFICATION GenSpec
CONSTANTS
  Self = "M"
  Imports = {"n"}
  ImportedScopes <- Imported
  NoName = NoName
  Words <- WordsOf
  ModuleWords <- WordsOfModule
  MaxStatements = 3
INVARIANTS
  ResolvesLexically
  AcceptedIsResolved
  FailuresAreTrue
  CNamesAreUnique
  CNamesDenote
