SPECIFICATION Spec
CONSTANTS
  Starters = {s1}
  Cancellers = {c1}
  Supervisors = {}
  StallGuards = {}
  WorkerGuards = {}
  Boundaries = {}
  Readers = {}
  Workers = {}
  NoThread = NoThread
  NSteps = 1
  Required = {1}
  ArtifactSteps = {}
  StepOutcomes = {"completed", "failed"}
  InitialStatuses = {"queued"}
  MaxCancels = 1
  MaxCrashes = 0
PROPERTY CancelSeenBeforeStep
CHECK_DEADLOCK FALSE
