SPECIFICATION Spec
CONSTANTS
  v1 = v1
  v2 = v2
  NoValue = NoValue
  Symbol <- MCSymbol
  Value <- MCValue
  Hash <- MCHash
  Sizes <- MCSizes
  SealBit <- MCSealBit
INVARIANTS
  TypeOK
  CountExact
  OneEntryPerSymbol
  Reachable
PROPERTIES
  SealIsFinal
  ImplementsBoundedMap
