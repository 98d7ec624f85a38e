SPECIFICATION Spec
CONSTANTS
  Starters = {s1}
  Cancellers = {}
  Supervisors = {}
  StallGuards = {}
  WorkerGuards = {g1}
  Boundaries = {b1}
  Readers = {}
  Workers = {s1}
  NoThread = NoThread
  NSteps = 2
  Required = {2}
  ArtifactSteps = {1}
  StepOutcomes = {"completed"}
  InitialStatuses = {"queued"}
  MaxCancels = 1
  MaxCrashes = 0
INVARIANT SuccessIsEarned
INVARIANT WorkerLeavesSentence
CHECK_DEADLOCK FALSE
