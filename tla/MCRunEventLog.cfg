CONSTANTS
  Threads = {t1, t2}
  Reasons = {r1, r2}
  NoThread = NoThread
  MaxEvents = 3
  MaxCrashes = 1
SPECIFICATION FairSpec
INVARIANTS
  TypeOK
  SequenceContiguous
  TerminalRecordedOnce
  GuardDecisionStands
PROPERTIES
  AppendOnly
  ImplementsJournal
  LockReleased
CHECK_DEADLOCK FALSE
