SPECIFICATION FairSpec
CONSTANTS
  Starters = {s1}
  Cancellers = {}
  Supervisors = {u1}
  StallGuards = {}
  WorkerGuards = {}
  Boundaries = {}
  Readers = {r1}
  Workers = {}
  NoThread = NoThread
  NSteps = 1
  Required = {1}
  ArtifactSteps = {}
  StepOutcomes = {"completed", "failed"}
  InitialStatuses = {"queued"}
  MaxCancels = 1
  MaxCrashes = 1
PROPERTY TerminalRunGetsResult
CHECK_DEADLOCK FALSE
