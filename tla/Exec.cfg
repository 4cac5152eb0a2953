SPECIFICATION FairSpec
CONSTANTS
  Programs <- MCPrograms
  FormSizes <- MCFormSizes
  PackageArity <- NoPackages
  StackCap = 12
  OpCap = 9
  EnvCap = 6
  HeapCap = 100
  SymbolCap = 0   \* no program interns a name
  NameCap = 0
  ContextSize = 2
  LeaveMarker = 64
  WordMod = 1024
INVARIANTS
  TypeOK
  EnvMatchesFrames
  StackDiscipline
  LoopIntact
  NoInternalError
  AgreesWithReference
  BorrowsOnlyWhenShort
PROPERTY
  Terminates
