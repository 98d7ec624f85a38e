SPECIFICATION Spec
CONSTANTS
  Starters = {s1}
  Cancellers = {}
  Supervisors = {}
  StallGuards = {}
  WorkerGuards = {g1}
  Boundaries = {b1}
  Readers = {}
  Workers = {s1}
  NoThread = NoThread
  NSteps = 1
  Required = {1}
  ArtifactSteps = {1}
  StepOutcomes = {"completed", "failed"}
  InitialStatuses = {"queued"}
  MaxCancels = 1
  MaxCrashes = 0
PROPERTY GuardKeepsResult
CHECK_DEADLOCK FALSE
