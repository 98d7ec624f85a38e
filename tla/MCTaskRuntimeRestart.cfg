SPECIFICATION FairSpec
CONSTANTS
  Starters = {s1}
  Cancellers = {u1}
  Supervisors = {u1}
  StallGuards = {u1}
  WorkerGuards = {}
  Boundaries = {}
  Readers = {}
  Workers = {}
  NoThread = NoThread
  NSteps = 1
  Required = {1}
  ArtifactSteps = {1}
  StepOutcomes = {"completed", "failed"}
  InitialStatuses = {"queued"}
  MaxCancels = 1
  MaxCrashes = 1
INVARIANT TypeOK
INVARIANT SuccessIsEarned
PROPERTY StepsRunOnce
PROPERTY AbandonedRunEnds
CHECK_DEADLOCK FALSE
