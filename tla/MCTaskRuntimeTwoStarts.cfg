SPECIFICATION Spec
CONSTANTS
  Starters = {s1, s2}
  Cancellers = {}
  Supervisors = {}
  StallGuards = {}
  WorkerGuards = {}
  Boundaries = {}
  Readers = {}
  Workers = {}
  NoThread = NoThread
  NSteps = 1
  Required = {1}
  ArtifactSteps = {}
  StepOutcomes = {"completed", "failed"}
  InitialStatuses = {"queued"}
  MaxCancels = 1
  MaxCrashes = 0
PROPERTY StepsRunOnce
CHECK_DEADLOCK FALSE
