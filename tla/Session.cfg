SPECIFICATION Spec
CONSTANTS
  Lines <- MCLines
  Modes <- MCModes
  MaxLines = 3
  MemorySizes <- MCMemorySizes
  Stdlib <- MCStdlib
  Letters <- MCLetters
  FormSizes <- MCFormSizes
  Contents <- MCContents
  Hosts <- MCHosts
  SystemSize = 24
  SymbolWords = 9
  HeapCap = 260
  SymbolCap = 29
  NameCap = 2
  ParseCap = 16
  BaseCap = 4
  StackCap = 10
  OpCap = 12
  EnvCap = 6
  ContextSize = 3
  LeaveMarker = 64
  WordMod = 4096
INVARIANTS
  StartsWhole
  CommandsAgree
  NoDanglingReference
