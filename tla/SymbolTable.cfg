SPECIFICATION Spec
CONSTANTS
  a = a
  b = b
  c = c
  d = d
  e = e
  NoSymbol = NoSymbol
  Symbol <- MCSymbol
  Hash <- MCHash
  DataLen <- MCDataLen
  Ids <- MCIds
INVARIANTS
  TypeOK
  Dense
  NeverHalfUpdated
  Reachable
  NoAlias
PROPERTY
  ImplementsInterning
