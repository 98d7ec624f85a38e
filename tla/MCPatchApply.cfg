SPECIFICATION Spec
CONSTANTS
  t1 = t1
  t2 = t2
  u1 = u1
  u2 = u2
  f1 = f1
  f2 = f2
  Callers <- AllCallers
  Deciders = {u1, u2}
  Threads = {t1, t2}
  Files = {f1, f2}
  Plan <- PlanOrder
  New = {f2}
  MaxEvents = 4
SYMMETRY Symmetry
INVARIANTS
  TypeOK
  AppliedOnlyIfApproved
  ReportIsTrue
  TempInFlight
  NoRunLeftRunning
PROPERTIES
  DecisionStands
CHECK_DEADLOCK FALSE
