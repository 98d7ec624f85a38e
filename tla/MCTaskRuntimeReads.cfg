SPECIFICATION FairSpec
CONSTANTS
  Starters = {s1}
  Cancellers = {c1}
  Supervisors = {}
  StallGuards = {}
  WorkerGuards = {}
  Boundaries = {}
  Readers = {r1}
  Workers = {}
  NoThread = NoThread
  NSteps = 1
  Required = {1}
  ArtifactSteps = {}
  StepOutcomes = {"completed"}
  InitialStatuses = {"queued"}
  MaxCancels = 1
  MaxCrashes = 0
INVARIANT TerminalRunHasEvent
PROPERTY TerminalRunGetsResult
PROPERTY ResultProjected
CHECK_DEADLOCK FALSE
