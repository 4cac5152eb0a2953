SPECIFICATION MCSpec
CONSTANTS
  d1 = d1
  d2 = d2
  a1 = a1
  a2 = a2
  NoAccount = NoAccount
  Device = {d1, d2}
  Account = {a1, a2}
  Wants <- MCWants
  Names <- MCNames
  MaxConn = 2
  MaxCrash = 1
INVARIANTS
  AcknowledgedIsStored
  ResponsesInOrder
  ServedHasLoop
  TopicsAgreeOnReconnect
PROPERTIES
  EnrolledByMembers
  EveryRequestEnds
CHECK_DEADLOCK FALSE
