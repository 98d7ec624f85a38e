SPECIFICATION Spec
CONSTANTS
  c1 = c1
  c2 = c2
  Callers = {c1, c2}
  Limits = {0, 1, 2}
  NoLimit = NoLimit
  Absent = Absent
  Torn = Torn
  MaxCalls = 4
  MaxCrashes = 1
INVARIANTS
  TypeOK
  RecordWithinLimit
  UsesExactUntilOverwritten
PROPERTIES
  TornFailsClosed
  ImplementsLedger
CHECK_DEADLOCK FALSE
